----------------------------- MODULE Backup_proofs -----------------------------
(***************************************************************************)
(* What Backup guarantees for any number of processes and backups: only    *)
(* verified copies are published, none of them replaces a file, and the    *)
(* newest are kept, however the wall clock behaves; and what a success     *)
(* says, if the process that reports it was alone.                         *)
(***************************************************************************)
EXTENDS Backup, FiniteSetTheorems, FunctionTheorems, TLAPS

-----------------------------------------------------------------------------
(***************************************************************************)
(* Names.                                                                  *)
(***************************************************************************)
\* Any names have an oldest one.
LEMMA OldestIs ==
  ASSUME NEW names, names \subseteq Time, names # {}
  PROVE  Oldest(names) \in names /\ \A n \in names : Oldest(names) <= n
<1> DEFINE Less == {p \in Nat \X Nat : p[1] < p[2]}
<1>1. IsWellFoundedOn(Less, Nat)
  BY NatLessThanWellFounded DEF OpToRel
<1>2. names \subseteq Nat
  BY DEF Time
<1>3. PICK n \in names : \A m \in names : <<m, n>> \notin Less
  <2> HIDE DEF Less
  <2> QED BY <1>1, <1>2, WFMin
<1>4. ASSUME NEW a \in Nat, NEW b \in Nat, a < b PROVE <<a, b>> \in Less
  BY <1>4, Zenon
<1> HIDE DEF Less
<1>5. \A m \in names : ~(m < n)
  BY <1>2, <1>3, <1>4, Zenon
<1>6. \A m \in names : n <= m
  BY <1>2, <1>5
<1> QED BY <1>6 DEF Oldest, Min

-----------------------------------------------------------------------------
(***************************************************************************)
(* What a run knows, and the files.                                        *)
(***************************************************************************)
\* The name it drew is a time from the copy on, and what it is about to
\* publish was verified.
Written(r) ==
  /\ r \in Run /\ IsFiniteSet(r.names)
  /\ r.pc \in {"vacuum", "verify", "publish"} => r.target \in Time
  /\ r.pc = "publish" => r.partial

Runs == run \in [Writer -> Run \union {Idle}] /\ \A w \in Writer : run[w] = Idle \/ Written(run[w])

FilesInv ==
  /\ now \in Time /\ sound \in BOOLEAN
  /\ dir \subseteq File /\ IsFiniteSet(dir) /\ \A f, g \in dir : f.stamp = g.stamp => f = g
  /\ \A f \in dir : f.sound
  /\ published \in Seq(File) /\ Len(published) <= MaxFiles
  /\ \A i \in 1..Len(published) : published[i].sound

SoundInv == Runs /\ FilesInv /\ status \in Status

LEMMA InitSound == Init => SoundInv
<1> SUFFICES ASSUME Init PROVE SoundInv
  OBVIOUS
<1> USE BoundsAssumption DEF Init
<1>1. now \in Time /\ sound \in BOOLEAN
  BY DEF Time
<1>2. dir \subseteq File /\ IsFiniteSet(dir) /\ \A f \in dir : f = [stamp |-> SourceStamp, sound |-> TRUE]
  <2>1. CASE SourceStamp = 0
    BY <2>1, FS_EmptySet
  <2>2. CASE SourceStamp # 0
    <3>1. SourceStamp = 1 /\ 1 \in Time
      BY <2>2 DEF Time
    <3>2. dir = {[stamp |-> SourceStamp, sound |-> TRUE]}
      BY <2>2
    <3>3. IsFiniteSet(dir)
      BY <3>2, FS_Singleton, Zenon
    <3> QED BY <3>1, <3>2, <3>3 DEF File
  <2> QED BY <2>1, <2>2
<1>3. published \in Seq(File) /\ Len(published) <= MaxFiles /\ 1..Len(published) = {}
  OBVIOUS
<1>4. FilesInv
  <2>1. \A f \in dir : f.sound = TRUE
    BY <1>2
  <2>2. \A f, g \in dir : f = g
    BY <1>2, Zenon
  <2> QED BY <1>1, <1>2, <1>3, <2>1, <2>2, Zenon DEF FilesInv
<1>5. Runs /\ status \in Status
  BY DEF Runs, Status
<1> QED BY <1>4, <1>5 DEF SoundInv

LEMMA RunIs ==
  ASSUME Runs, NEW w \in Running
  PROVE  w \in Writer /\ Written(run[w]) /\ run[w] \in Run /\ run[w] # Idle
BY DEF Runs, Running, Written

\* Whoever is beyond the start is running.
LEMMA StepsRun ==
  ASSUME NEW w \in Writer,
         \/ Create(w) \/ Vacuum(w) \/ Verify(w) \/ Publish(w) \/ List(w)
         \/ Rotate(w) \/ Finish(w) \/ Break(w) \/ Kill(w)
  PROVE  w \in Running
BY DEF Create, Vacuum, Verify, Publish, List, Rotate, Finish, Break, Kill, Running, Idle

\* What a failing run becomes.
Failed(r) ==
  [r EXCEPT !.pc = "finish", !.error = TRUE,
            !.target = IF r.pc \in {"list", "rotate"} THEN @ ELSE 0]

(***************************************************************************)
(* A step of a run: which run it becomes and what happens to the files.    *)
(***************************************************************************)
\* The copy that a run publishes.
Copied(r) == [stamp |-> r.target, sound |-> r.partial]

Becomes(w, r) == run' = [run EXCEPT ![w] = r]

\* The steps of a running process other than its end.
Goes(w, r) ==
  \/ /\ r = Failed(run[w]) /\ UNCHANGED <<dir, published>>
  \/ /\ run[w].pc = "create" /\ now \notin Stamps(dir)
     /\ r = [run[w] EXCEPT !.pc = "vacuum", !.target = now] /\ UNCHANGED <<dir, published>>
  \/ /\ run[w].pc = "vacuum" /\ UNCHANGED <<dir, published>>
     /\ \E good \in BOOLEAN : r = [run[w] EXCEPT !.pc = "verify", !.partial = good]
  \/ /\ run[w].pc = "verify" /\ run[w].partial
     /\ r = [run[w] EXCEPT !.pc = "publish"] /\ UNCHANGED <<dir, published>>
  \/ /\ run[w].pc = "publish" /\ Copied(run[w]).stamp \notin Stamps(dir)
     /\ Len(published) < MaxFiles
     /\ dir' = dir \union {Copied(run[w])} /\ published' = Append(published, Copied(run[w]))
     /\ r = [run[w] EXCEPT !.pc = "list"]
  \/ /\ run[w].pc = "list" /\ UNCHANGED <<dir, published>>
     /\ r = [run[w] EXCEPT !.pc = "rotate", !.names = Stamps(dir)]
  \/ /\ run[w].pc = "rotate" /\ ~Surplus(run[w].names) /\ UNCHANGED <<dir, published>>
     /\ r = [run[w] EXCEPT !.pc = "finish"]
  \/ /\ run[w].pc = "rotate" /\ Surplus(run[w].names) /\ UNCHANGED published
     /\ dir' = IF Spared(Oldest(run[w].names)) THEN dir
               ELSE {f \in dir : f.stamp # Oldest(run[w].names)}
     /\ r = [run[w] EXCEPT !.names = @ \ {Oldest(run[w].names)}]

LEMMA GoesOn ==
  ASSUME SoundInv, NEW w \in Writer,
         \/ Create(w) \/ Vacuum(w) \/ Verify(w) \/ Publish(w) \/ List(w)
         \/ Rotate(w) \/ Break(w)
  PROVE  \E r : Becomes(w, r) /\ Goes(w, r) /\ UNCHANGED <<now, sound, status>>
<1>1. w \in Running /\ run \in [Writer -> Run \union {Idle}] /\ run[w] \in Run /\ sound \in BOOLEAN
  BY StepsRun, RunIs DEF SoundInv, Runs, FilesInv
<1>2. UNCHANGED <<now, sound, status>>
  BY DEF Create, Vacuum, Verify, Publish, List, Rotate, Break
<1>3. ASSUME Fail(w) PROVE Becomes(w, Failed(run[w]))
  BY <1>1, <1>3 DEF Fail, Becomes, Failed
<1>4. ASSUME NEW pc, Enter(w, pc) PROVE Becomes(w, [run[w] EXCEPT !.pc = pc])
  BY <1>1, <1>4 DEF Enter, Becomes
<1>5. CASE Fail(w) /\ UNCHANGED <<dir, published>>
  BY <1>2, <1>3, <1>5 DEF Goes
<1>6. CASE Create(w)
  <2>1. CASE now \in Stamps(dir)
    BY <1>5, <1>6, <2>1 DEF Create
  <2>2. CASE now \notin Stamps(dir)
    <3>1. Becomes(w, [run[w] EXCEPT !.pc = "vacuum", !.target = now])
      BY <1>1, <1>6, <2>2 DEF Create, Becomes
    <3> QED BY <1>2, <1>6, <2>2, <3>1 DEF Create, Goes
  <2> QED BY <2>1, <2>2
<1>7. CASE Vacuum(w)
  <2>1. PICK good \in BOOLEAN : run' = [run EXCEPT ![w].pc = "verify", ![w].partial = good]
    BY <1>1, <1>7 DEF Vacuum
  <2>2. Becomes(w, [run[w] EXCEPT !.pc = "verify", !.partial = good])
    BY <1>1, <2>1 DEF Becomes
  <2> QED BY <1>2, <1>7, <2>2 DEF Vacuum, Goes
<1>8. CASE Verify(w)
  BY <1>2, <1>4, <1>5, <1>8 DEF Verify, Goes
<1>9. CASE Publish(w)
  <2>1. CASE run[w].target \in Stamps(dir)
    BY <1>5, <1>9, <2>1 DEF Publish
  <2>2. CASE run[w].target \notin Stamps(dir)
    <3>1. Becomes(w, [run[w] EXCEPT !.pc = "list"])
      BY <1>4, <1>9, <2>2 DEF Publish
    <3> QED BY <1>2, <1>9, <2>2, <3>1 DEF Publish, Copied, Goes
  <2> QED BY <2>1, <2>2
<1>10. CASE List(w)
  <2>1. Becomes(w, [run[w] EXCEPT !.pc = "rotate", !.names = Stamps(dir)])
    BY <1>1, <1>10 DEF List, Becomes
  <2> QED BY <1>2, <1>10, <2>1 DEF List, Goes
<1>11. CASE Rotate(w)
  <2> DEFINE name == Oldest(run[w].names)
  <2>1. CASE ~Surplus(run[w].names) /\ Enter(w, "finish") /\ dir' = dir
    BY <1>2, <1>4, <1>11, <2>1 DEF Rotate, Goes
  <2>2. CASE Fail(w) /\ dir' = dir
    BY <1>5, <1>11, <2>2 DEF Rotate
  <2>3. CASE /\ Surplus(run[w].names)
             /\ dir' = IF Spared(name) THEN dir ELSE {f \in dir : f.stamp # name}
             /\ run' = [run EXCEPT ![w].names = @ \ {name}]
    <3>1. Becomes(w, [run[w] EXCEPT !.names = @ \ {name}])
      BY <1>1, <2>3 DEF Becomes
    <3> QED BY <1>2, <1>11, <2>3, <3>1 DEF Rotate, Goes
  <2> QED BY <1>11, <2>1, <2>2, <2>3 DEF Rotate
<1>12. CASE Break(w)
  BY <1>5, <1>12 DEF Break
<1> QED BY <1>6, <1>7, <1>8, <1>9, <1>10, <1>11, <1>12

-----------------------------------------------------------------------------
(***************************************************************************)
(* Only verified copies, and only new names.                               *)
(***************************************************************************)
LEMMA StampsAre ==
  ASSUME FilesInv
  PROVE  Stamps(dir) \subseteq Time /\ IsFiniteSet(Stamps(dir))
<1> DEFINE stamp == [f \in dir |-> f.stamp]
<1>1. Stamps(dir) \subseteq Time
  BY DEF FilesInv, File, Stamps
<1>2. stamp \in [dir -> Stamps(dir)] /\ \A n \in Stamps(dir) : \E f \in dir : stamp[f] = n
  BY DEF Stamps
<1> HIDE DEF stamp
<1>3. stamp \in Surjection(dir, Stamps(dir))
  BY <1>2, Fun_IsSurj
<1>4. IsFiniteSet(Stamps(dir))
  BY <1>3, FS_Surjection DEF FilesInv
<1> QED BY <1>1, <1>4

\* A step leaves a run that knows as much, and no stranger than it was.
LEMMA GoesWritten ==
  ASSUME SoundInv, NEW w \in Running, NEW r, Goes(w, r)
  PROVE  Written(r) /\ r.alone = run[w].alone
<1>1. Written(run[w]) /\ run[w] \in Run /\ now \in Time
  BY RunIs DEF SoundInv, FilesInv
<1>2. Stamps(dir) \in SUBSET Time /\ IsFiniteSet(Stamps(dir))
  BY StampsAre DEF SoundInv
<1>3. IsFiniteSet(run[w].names \ {Oldest(run[w].names)})
  BY <1>1, FS_Subset DEF Written
<1>4. CASE r = Failed(run[w])
  BY <1>1, <1>4 DEF Failed, Written, Run
<1>5. CASE r = [run[w] EXCEPT !.pc = "vacuum", !.target = now]
  BY <1>1, <1>5 DEF Written, Run
<1>6. CASE \E good \in BOOLEAN : r = [run[w] EXCEPT !.pc = "verify", !.partial = good] /\ run[w].pc = "vacuum"
  BY <1>1, <1>6 DEF Written, Run
<1>7. CASE run[w].pc = "verify" /\ run[w].partial /\ r = [run[w] EXCEPT !.pc = "publish"]
  BY <1>1, <1>7 DEF Written, Run
<1>8. CASE r = [run[w] EXCEPT !.pc = "list"] \/ r = [run[w] EXCEPT !.pc = "finish"]
  BY <1>1, <1>8 DEF Written, Run
<1>9. CASE r = [run[w] EXCEPT !.pc = "rotate", !.names = Stamps(dir)]
  BY <1>1, <1>2, <1>9 DEF Written, Run
<1>10. CASE r = [run[w] EXCEPT !.names = @ \ {Oldest(run[w].names)}]
  BY <1>1, <1>3, <1>10 DEF Written, Run
<1> QED BY <1>4, <1>5, <1>6, <1>7, <1>8, <1>9, <1>10 DEF Goes

\* What a step does to the files: nothing, or it adds a verified copy under a
\* new name, or it removes the oldest of the names it has read.
LEMMA GoesFiles ==
  ASSUME SoundInv, NEW w \in Running, NEW r, Goes(w, r)
  PROVE  \/ UNCHANGED <<dir, published>>
         \/ /\ run[w].pc = "publish"
            /\ Copied(run[w]) \in File /\ Copied(run[w]).sound
            /\ Copied(run[w]).stamp \notin Stamps(dir) /\ Len(published) < MaxFiles
            /\ dir' = dir \union {Copied(run[w])} /\ published' = Append(published, Copied(run[w]))
         \/ /\ run[w].pc = "rotate" /\ Surplus(run[w].names) /\ UNCHANGED published
            /\ dir' = {f \in dir : f.stamp # Oldest(run[w].names)}
            /\ ~Spared(Oldest(run[w].names))
<1>1. Written(run[w]) /\ run[w] \in Run
  BY RunIs DEF SoundInv
<1>2. ASSUME run[w].pc = "publish"
      PROVE  Copied(run[w]) \in File /\ Copied(run[w]).sound
  BY <1>1, <1>2 DEF Written, Run, File, Copied
<1> QED BY <1>2 DEF Goes

LEMMA FilesStep ==
  ASSUME SoundInv, NEW w \in Running, NEW r, Goes(w, r), UNCHANGED <<now, sound>>
  PROVE  /\ FilesInv'
         /\ \A i \in DOMAIN published' \ DOMAIN published : published'[i].stamp \notin Stamps(dir)
<1>1. FilesInv
  BY DEF SoundInv
<1>2. CASE UNCHANGED <<dir, published>>
  BY <1>1, <1>2 DEF FilesInv
<1>3. CASE /\ Copied(run[w]) \in File /\ Copied(run[w]).sound
           /\ Copied(run[w]).stamp \notin Stamps(dir) /\ Len(published) < MaxFiles
           /\ dir' = dir \union {Copied(run[w])} /\ published' = Append(published, Copied(run[w]))
  <2> DEFINE file == Copied(run[w])
  <2>1. file \in File /\ file.sound /\ file.stamp \notin Stamps(dir)
        /\ dir' = dir \union {file} /\ published' = Append(published, file)
    BY <1>3
  <2> HIDE DEF file
  <2>2. IsFiniteSet(dir')
    BY <1>1, <2>1, FS_AddElement DEF FilesInv
  <2>3. dir' \subseteq File /\ \A f, g \in dir' : f.stamp = g.stamp => f = g
    BY <1>1, <2>1 DEF FilesInv, Stamps
  <2>4. \A f \in dir' : f.sound
    BY <1>1, <2>1, Zenon DEF FilesInv
  <2>5. published' \in Seq(File) /\ Len(published') = Len(published) + 1 /\ Len(published) \in Nat
        /\ \A i \in 1..Len(published') : published'[i] =
             IF i <= Len(published) THEN published[i] ELSE file
    BY <1>1, <2>1 DEF FilesInv
  <2>6. \A i \in 1..Len(published') : published'[i].sound
    <3> TAKE i \in 1..Len(published')
    <3>1. i \in 1..Len(published) \/ published'[i] = file
      BY <2>5
    <3>2. CASE i \in 1..Len(published)
      <4>1. published'[i] = published[i]
        BY <2>5, <3>2
      <4> QED BY <1>1, <3>2, <4>1, Zenon DEF FilesInv
    <3>3. CASE published'[i] = file
      BY <2>1, <3>3, Zenon
    <3> QED BY <3>1, <3>2, <3>3
  <2>7. Len(published') <= MaxFiles
    BY <1>1, <1>3, <2>5, BoundsAssumption
  <2>8. \A i \in DOMAIN published' \ DOMAIN published : published'[i] = file
    BY <1>1, <2>5 DEF FilesInv
  <2>9. /\ now' \in Time /\ sound' \in BOOLEAN
    BY <1>1 DEF FilesInv
  <2>10. FilesInv'
    BY <2>2, <2>3, <2>4, <2>5, <2>6, <2>7, <2>9 DEF FilesInv
  <2> QED BY <2>1, <2>8, <2>10
<1>4. CASE dir' = {f \in dir : f.stamp # Oldest(run[w].names)} /\ UNCHANGED published
  <2>1. dir' \subseteq dir
    BY <1>4
  <2>2. IsFiniteSet(dir')
    BY <1>1, <2>1, FS_Subset DEF FilesInv
  <2> QED BY <1>1, <1>4, <2>1, <2>2 DEF FilesInv
<1> QED BY <1>2, <1>3, <1>4, GoesFiles

LEMMA SoundStep == SoundInv /\ [Next]_vars => SoundInv'
<1> SUFFICES ASSUME SoundInv, [Next]_vars PROVE SoundInv'
  OBVIOUS
<1>1. Runs /\ FilesInv /\ status \in Status
  BY DEF SoundInv
<1>2. CASE SetClock \/ Damage \/ UNCHANGED vars
  BY <1>1, <1>2 DEF SetClock, Damage, vars, SoundInv, Runs, FilesInv
<1>3. ASSUME NEW w \in Writer, Start(w) PROVE SoundInv'
  <2> DEFINE fresh == [pc |-> "create", target |-> 0, partial |-> FALSE, names |-> {},
                       error |-> FALSE, alone |-> Running = {}]
  <2>1. /\ run' = [v \in Writer |-> IF v = w THEN fresh
                    ELSE IF v \in Running THEN [run[v] EXCEPT !.alone = FALSE] ELSE Idle]
        /\ status' = [state |-> "running", file |-> 0, alone |-> Running = {}]
        /\ UNCHANGED <<now, sound, dir, published>>
    BY <1>3 DEF Start
  <2>2. Written(fresh) /\ fresh \in Run
    BY FS_EmptySet DEF Written, Run
  <2> HIDE DEF fresh
  <2>3. \A v \in Running : /\ [run[v] EXCEPT !.alone = FALSE] \in Run
                           /\ Written([run[v] EXCEPT !.alone = FALSE])
    <3> TAKE v \in Running
    <3>1. run[v] \in Run /\ Written(run[v])
      BY <1>1, RunIs
    <3> QED BY <3>1 DEF Written, Run
  <2>4. Runs'
    BY <2>1, <2>2, <2>3 DEF Runs
  <2>5. status' \in Status
    BY <2>1 DEF Status
  <2>6. FilesInv'
    BY <1>1, <2>1 DEF FilesInv
  <2> QED BY <2>4, <2>5, <2>6 DEF SoundInv
<1>4. ASSUME NEW w \in Writer, Finish(w) \/ Kill(w) PROVE SoundInv'
  <2>1. run[w] \in Run
    BY <1>1, <1>4, StepsRun, RunIs
  <2>2. run' = [run EXCEPT ![w] = Idle] /\ UNCHANGED <<now, sound, dir, published>>
    BY <1>4 DEF Finish, Kill
  <2>3. status' = status \/
        status' = [state |-> Outcome(w), file |-> run[w].target, alone |-> run[w].alone]
    BY <1>4 DEF Finish, Kill
  <2>4. status' \in Status
    BY <1>1, <2>1, <2>3 DEF Status, Outcome, Run
  <2>5. Runs' /\ FilesInv'
    BY <1>1, <2>2 DEF Runs, FilesInv
  <2> QED BY <2>4, <2>5 DEF SoundInv
<1>5. ASSUME NEW w \in Writer,
             \/ Create(w) \/ Vacuum(w) \/ Verify(w) \/ Publish(w) \/ List(w)
             \/ Rotate(w) \/ Break(w)
      PROVE  SoundInv'
  <2>1. PICK r : Becomes(w, r) /\ Goes(w, r) /\ UNCHANGED <<now, sound, status>>
    BY <1>5, GoesOn
  <2>2. w \in Running
    BY <1>5, StepsRun
  <2>3. Written(r)
    BY <2>1, <2>2, GoesWritten
  <2>4. Runs'
    BY <1>1, <2>1, <2>3 DEF Runs, Becomes, Written
  <2>5. FilesInv'
    BY <2>1, <2>2, FilesStep
  <2> QED BY <1>1, <2>1, <2>4, <2>5 DEF SoundInv
<1> QED BY <1>2, <1>3, <1>4, <1>5 DEF Next

-----------------------------------------------------------------------------
(***************************************************************************)
(* The newest backups are kept.                                            *)
(***************************************************************************)
Newer(files, n) == {f \in files : f.stamp > n}

\* What has the name n is there, or Keep newer files are.
Safe(files, n) == n \in Stamps(files) \/ Cardinality(Newer(files, n)) >= Keep

\* So it is with all that was published, and with all that a run has listed.
KeptInv ==
  /\ \A i \in 1..Len(published) : Safe(dir, published[i].stamp)
  /\ \A w \in Running : \A n \in run[w].names : Safe(dir, n)

LEMMA NewerIs ==
  ASSUME FilesInv, NEW n
  PROVE  IsFiniteSet(Newer(dir, n)) /\ Cardinality(Newer(dir, n)) \in Nat
<1>1. Newer(dir, n) \subseteq dir
  BY DEF Newer
<1> QED BY <1>1, FS_Subset, FS_CardinalityType DEF FilesInv

\* When there are names too many, Keep newer files than the oldest are there,
\* even if another process has removed some of them since.
LEMMA OldestHasNewer ==
  ASSUME SoundInv, KeptInv, NEW w \in Running, Surplus(run[w].names)
  PROVE  /\ Oldest(run[w].names) \in run[w].names /\ Oldest(run[w].names) \in Nat
         /\ \A n \in run[w].names : Oldest(run[w].names) <= n
         /\ Cardinality(Newer(dir, Oldest(run[w].names))) >= Keep
<1> DEFINE names == run[w].names
           oldest == Oldest(names)
           rest == names \ {oldest}
<1>1. names \subseteq Time /\ IsFiniteSet(names) /\ FilesInv
  BY RunIs DEF SoundInv, Written, Run
<1>2. Cardinality(names) \in Nat /\ Cardinality(names) > Keep /\ Keep \in Nat
  BY <1>1, FS_CardinalityType, BoundsAssumption DEF Surplus
<1>3. names # {}
  BY <1>2, FS_EmptySet
<1>4. oldest \in names /\ \A n \in names : oldest <= n
  BY <1>1, <1>3, OldestIs
<1>5. \A n \in names : n \in Nat
  BY <1>1 DEF Time
<1>6. \A n \in names : Safe(dir, n)
  BY DEF KeptInv
<1> HIDE DEF names, oldest
<1>7. IsFiniteSet(rest) /\ Cardinality(rest) = Cardinality(names) - 1
  BY <1>1, <1>4, FS_RemoveElement
<1>8. \A n \in rest : n \in Nat /\ n > oldest /\ Safe(dir, n)
  BY <1>4, <1>5, <1>6
<1> HIDE DEF rest
<1>9. IsFiniteSet(Newer(dir, oldest)) /\ Cardinality(Newer(dir, oldest)) \in Nat
  BY <1>1, NewerIs
<1>10. CASE \A n \in rest : n \in Stamps(dir)
  <2> DEFINE file == [n \in rest |-> CHOOSE f \in dir : f.stamp = n]
  <2>1. \A n \in rest : file[n] \in dir /\ file[n].stamp = n
    BY <1>10 DEF Stamps
  <2>2. file \in [rest -> Newer(dir, oldest)] /\ \A m, n \in rest : file[m] = file[n] => m = n
    BY <1>8, <2>1 DEF Newer
  <2> HIDE DEF file
  <2>3. file \in Injection(rest, Newer(dir, oldest))
    BY <2>2, Fun_IsInj
  <2>4. Cardinality(rest) <= Cardinality(Newer(dir, oldest))
    BY <1>9, <2>3, FS_Injection
  <2> QED BY <1>2, <1>4, <1>5, <1>7, <1>9, <2>4 DEF names, oldest
<1>11. CASE \E n \in rest : n \notin Stamps(dir)
  <2>1. PICK n \in rest : n \notin Stamps(dir)
    BY <1>11
  <2>2. Cardinality(Newer(dir, n)) >= Keep /\ Cardinality(Newer(dir, n)) \in Nat
    BY <1>1, <1>8, <2>1, NewerIs DEF Safe
  <2>3. Newer(dir, n) \subseteq Newer(dir, oldest)
    <3>1. \A f \in dir : f.stamp \in Nat
      BY <1>1 DEF FilesInv, File, Time
    <3> QED BY <1>4, <1>5, <1>8, <3>1 DEF Newer
  <2>4. Cardinality(Newer(dir, n)) <= Cardinality(Newer(dir, oldest))
    BY <1>9, <2>3, FS_Subset
  <2> QED BY <1>2, <1>4, <1>5, <1>9, <2>2, <2>4 DEF names, oldest
<1> QED BY <1>10, <1>11

\* More files do no harm.
LEMMA SafeMore ==
  ASSUME NEW files, NEW more, IsFiniteSet(more), files \subseteq more, NEW n, Safe(files, n)
  PROVE  Safe(more, n)
<1>1. Newer(files, n) \subseteq Newer(more, n) /\ Newer(more, n) \subseteq more
      /\ Stamps(files) \subseteq Stamps(more)
  BY DEF Newer, Stamps
<1>2. IsFiniteSet(Newer(more, n))
  BY <1>1, FS_Subset
<1>3. IsFiniteSet(Newer(files, n)) /\ Cardinality(Newer(files, n)) <= Cardinality(Newer(more, n))
  BY <1>1, <1>2, FS_Subset
<1>4. Cardinality(Newer(files, n)) \in Nat /\ Cardinality(Newer(more, n)) \in Nat
  BY <1>2, <1>3, FS_CardinalityType
<1> QED BY <1>1, <1>3, <1>4, BoundsAssumption DEF Safe

\* Nor does it harm that the oldest name goes, of which Keep newer are there.
LEMMA SafeWithout ==
  ASSUME FilesInv, NEW oldest \in Nat, Cardinality(Newer(dir, oldest)) >= Keep,
         NEW n \in Nat, Safe(dir, n)
  PROVE  Safe({f \in dir : f.stamp # oldest}, n)
<1> DEFINE left == {f \in dir : f.stamp # oldest}
<1>1. \A f \in dir : f.stamp \in Nat
  BY DEF FilesInv, File, Time
<1>2. Newer(left, oldest) = Newer(dir, oldest)
  BY <1>1 DEF Newer
<1>3. IsFiniteSet(left)
  <2>1. left \subseteq dir
    OBVIOUS
  <2> HIDE DEF left
  <2> QED BY <2>1, FS_Subset DEF FilesInv
<1>4. CASE n \in Stamps(dir) /\ n # oldest
  BY <1>4 DEF Safe, Stamps
<1>5. CASE n >= oldest /\ Cardinality(Newer(dir, n)) >= Keep
  <2>1. Newer(left, n) = Newer(dir, n)
    BY <1>1, <1>5 DEF Newer
  <2> QED BY <1>5, <2>1 DEF Safe
<1>6. CASE n <= oldest
  <2>1. Newer(left, oldest) \subseteq Newer(left, n) /\ Newer(left, n) \subseteq left
    BY <1>1, <1>6 DEF Newer
  <2> HIDE DEF left
  <2>2. IsFiniteSet(Newer(left, n)) /\ IsFiniteSet(Newer(left, oldest))
    BY <1>3, <2>1, FS_Subset
  <2>3. Cardinality(Newer(left, oldest)) <= Cardinality(Newer(left, n))
    BY <2>1, <2>2, FS_Subset
  <2>4. Cardinality(Newer(left, n)) \in Nat /\ Cardinality(Newer(left, oldest)) \in Nat
    BY <2>2, FS_CardinalityType
  <2> QED BY <1>2, <2>3, <2>4, BoundsAssumption DEF Safe, left
<1> QED BY <1>4, <1>5, <1>6 DEF Safe

\* A step of a run harms nothing that is safe.
LEMMA GoesSafe ==
  ASSUME SoundInv, KeptInv, NEW w \in Running, NEW r, Goes(w, r), UNCHANGED <<now, sound>>,
         NEW n \in Nat, Safe(dir, n)
  PROVE  Safe(dir', n)
<1>1. FilesInv /\ IsFiniteSet(dir')
  BY FilesStep DEF SoundInv, FilesInv
<1>2. CASE dir \subseteq dir'
  BY <1>1, <1>2, SafeMore
<1>3. CASE Surplus(run[w].names) /\ dir' = {f \in dir : f.stamp # Oldest(run[w].names)}
  <2>1. /\ Oldest(run[w].names) \in Nat
        /\ Cardinality(Newer(dir, Oldest(run[w].names))) >= Keep
    BY <1>3, OldestHasNewer
  <2> QED BY <1>1, <1>3, <2>1, SafeWithout
<1> QED BY <1>2, <1>3, GoesFiles

LEMMA KeptStep == SoundInv /\ KeptInv /\ [Next]_vars => KeptInv'
<1> SUFFICES ASSUME SoundInv, KeptInv, [Next]_vars PROVE KeptInv'
  OBVIOUS
<1>1. Runs /\ FilesInv
  BY DEF SoundInv
<1>2. CASE SetClock \/ Damage \/ UNCHANGED vars
  BY <1>2 DEF SetClock, Damage, vars, KeptInv, Running
<1>3. ASSUME NEW w \in Writer, Start(w) PROVE KeptInv'
  <2>1. UNCHANGED <<dir, published>>
    BY <1>3 DEF Start
  <2>2. \A v \in Running' : run'[v].names = {} \/ (v \in Running /\ run'[v].names = run[v].names)
    <3> TAKE v \in Running'
    <3>1. CASE v = w
      BY <1>3, <3>1 DEF Start, Running
    <3>2. CASE v # w
      <4>1. v \in Running /\ run'[v] = [run[v] EXCEPT !.alone = FALSE]
        BY <1>3, <3>2 DEF Start, Running
      <4>2. run[v] \in Run
        BY <1>1, <4>1, RunIs
      <4> QED BY <4>1, <4>2 DEF Run
    <3> QED BY <3>1, <3>2
  <2> QED BY <2>1, <2>2 DEF KeptInv
<1>4. ASSUME NEW w \in Writer, Finish(w) \/ Kill(w) PROVE KeptInv'
  <2>1. run' = [run EXCEPT ![w] = Idle] /\ UNCHANGED <<dir, published>>
    BY <1>4 DEF Finish, Kill
  <2>2. \A v \in Running' : v \in Running /\ run'[v] = run[v]
    BY <1>1, <2>1 DEF Running, Runs
  <2> QED BY <2>1, <2>2 DEF KeptInv
<1>5. ASSUME NEW w \in Writer,
             \/ Create(w) \/ Vacuum(w) \/ Verify(w) \/ Publish(w) \/ List(w)
             \/ Rotate(w) \/ Break(w)
      PROVE  KeptInv'
  <2>1. PICK r : Becomes(w, r) /\ Goes(w, r) /\ UNCHANGED <<now, sound, status>>
    BY <1>5, GoesOn
  <2>2. w \in Running /\ Written(run[w])
    BY <1>1, <1>5, StepsRun, RunIs
  <2>3. \A n \in Nat : Safe(dir, n) => Safe(dir', n)
    BY <2>1, <2>2, GoesSafe
  <2>4. ASSUME NEW i \in 1..Len(published') PROVE Safe(dir', published'[i].stamp)
    <3>1. CASE i \in 1..Len(published) /\ published'[i] = published[i]
      <4>1. published[i].stamp \in Nat
        <5>1. published \in Seq(File)
          BY <1>1 DEF FilesInv
        <5>2. published[i] \in File
          BY <3>1, <5>1
        <5> QED BY <5>2 DEF File, Time
      <4> QED BY <2>3, <3>1, <4>1 DEF KeptInv
    <3>2. CASE published'[i] = Copied(run[w]) /\ dir' = dir \union {Copied(run[w])}
      BY <3>2 DEF Safe, Stamps
    <3>3. published \in Seq(File)
      BY <1>1 DEF FilesInv
    <3>4. CASE UNCHANGED published
      BY <3>1, <3>4
    <3>5. CASE published' = Append(published, Copied(run[w])) /\ dir' = dir \union {Copied(run[w])}
      BY <3>1, <3>2, <3>3, <3>5
    <3> QED BY <2>1, <2>2, <3>4, <3>5, GoesFiles
  <2>5. \A n \in r.names : n \in run[w].names \/ (n \in Stamps(dir) /\ UNCHANGED dir)
    <3>1. run[w] \in Run
      BY <1>1, <2>2, RunIs
    <3> QED BY <2>1, <3>1 DEF Goes, Failed, Run
  <2>6. ASSUME NEW v \in Running', NEW n \in run'[v].names PROVE Safe(dir', n)
    <3>1. CASE v = w
      <4>1. run'[v] = r
        BY <1>1, <2>1, <3>1 DEF Becomes, Runs
      <4>2. CASE n \in run[w].names
        <5>1. n \in Nat
          BY <2>2, <4>2 DEF Written, Run, Time
        <5> QED BY <2>2, <2>3, <4>2, <5>1 DEF KeptInv
      <4>3. CASE n \in Stamps(dir) /\ UNCHANGED dir
        BY <4>3 DEF Safe
      <4> QED BY <2>5, <2>6, <4>1, <4>2, <4>3
    <3>2. CASE v # w
      <4>1. v \in Running /\ run'[v] = run[v]
        BY <1>1, <2>1, <3>2 DEF Becomes, Runs, Running
      <4>2. n \in Nat
        BY <1>1, <2>6, <4>1, RunIs DEF Run, Time
      <4> QED BY <2>3, <2>6, <4>1, <4>2 DEF KeptInv
    <3> QED BY <3>1, <3>2
  <2> QED BY <2>4, <2>6 DEF KeptInv
<1> QED BY <1>2, <1>3, <1>4, <1>5 DEF Next

LEMMA KeptInit == Init => KeptInv
<1>1. Init => published = <<>> /\ Running = {}
  BY DEF Init, Running
<1> QED BY <1>1 DEF KeptInv

-----------------------------------------------------------------------------
(***************************************************************************)
(* What a process says that runs alone.                                    *)
(***************************************************************************)
Backups(files) == {f \in files : f.stamp # SourceStamp}

\* It has listed all the backups while it removes some, and at its end no
\* more than Keep are left.
Honest(r, files) ==
  /\ r.pc = "rotate" => \A f \in Backups(files) : f.stamp \in r.names
  /\ r.pc = "finish" /\ ~r.error => Cardinality(Backups(files)) <= Keep

AloneInv ==
  /\ \A v, w \in Running : run[w].alone => v = w
  /\ \A w \in Running : run[w].alone => Honest(run[w], dir)
  /\ status.state = "success" /\ status.alone =>
       Running = {} /\ Cardinality(Backups(dir)) <= Keep

LEMMA AloneInit == Init => AloneInv
<1>1. Init => Running = {} /\ status.state # "success"
  BY DEF Init, Running
<1> QED BY <1>1 DEF AloneInv

\* Whoever has listed all backups and counts no more than Keep names is right.
LEMMA CountIs ==
  ASSUME FilesInv, NEW names, IsFiniteSet(names), ~Surplus(names),
         \A f \in Backups(dir) : f.stamp \in names
  PROVE  Cardinality(Backups(dir)) <= Keep
<1> DEFINE stamp == [f \in Backups(dir) |-> f.stamp]
<1>1. Backups(dir) \subseteq dir
  BY DEF Backups
<1>2. IsFiniteSet(Backups(dir))
  BY <1>1, FS_Subset DEF FilesInv
<1>3. stamp \in [Backups(dir) -> names] /\ \A f, g \in Backups(dir) : stamp[f] = stamp[g] => f = g
  BY <1>1 DEF FilesInv
<1> HIDE DEF stamp
<1>4. stamp \in Injection(Backups(dir), names)
  BY <1>3, Fun_IsInj
<1>5. Cardinality(Backups(dir)) <= Cardinality(names)
  BY <1>4, FS_Injection
<1>6. Cardinality(Backups(dir)) \in Nat /\ Cardinality(names) \in Nat /\ Cardinality(names) <= Keep
  BY <1>2, FS_CardinalityType, BoundsAssumption DEF Surplus
<1> QED BY <1>5, <1>6, BoundsAssumption

LEMMA GoesHonest ==
  ASSUME SoundInv, NEW w \in Running, NEW r, Goes(w, r), Honest(run[w], dir)
  PROVE  Honest(r, dir')
<1>1. Written(run[w]) /\ run[w] \in Run /\ FilesInv
  BY RunIs DEF SoundInv
<1>2. CASE r.pc \notin {"rotate", "finish"} \/ (r.pc = "finish" /\ r.error)
  BY <1>2 DEF Honest
<1>3. CASE r = Failed(run[w])
  BY <1>1, <1>2, <1>3 DEF Failed, Run
<1>4. CASE UNCHANGED dir /\ r = [run[w] EXCEPT !.pc = "rotate", !.names = Stamps(dir)]
  BY <1>1, <1>4 DEF Honest, Run, Backups, Stamps
<1>5. CASE /\ run[w].pc = "rotate" /\ ~Surplus(run[w].names) /\ UNCHANGED dir
           /\ r = [run[w] EXCEPT !.pc = "finish"]
  <2>1. Cardinality(Backups(dir)) <= Keep
    BY <1>1, <1>5, CountIs DEF Honest, Written
  <2> QED BY <1>1, <1>5, <2>1 DEF Honest, Run, Backups
<1>6. CASE /\ run[w].pc = "rotate"
           /\ dir' = IF Spared(Oldest(run[w].names)) THEN dir
                     ELSE {f \in dir : f.stamp # Oldest(run[w].names)}
           /\ r = [run[w] EXCEPT !.names = @ \ {Oldest(run[w].names)}]
  <2> DEFINE oldest == Oldest(run[w].names)
  <2>1. /\ r.pc = "rotate" /\ r.names = run[w].names \ {oldest}
        /\ dir' = IF Spared(oldest) THEN dir ELSE {f \in dir : f.stamp # oldest}
    BY <1>1, <1>6 DEF Run
  <2> HIDE DEF oldest
  <2>2. \A f \in Backups(dir') : f \in Backups(dir) /\ f.stamp # oldest
    BY <2>1 DEF Backups, Spared
  <2> QED BY <1>6, <2>1, <2>2 DEF Honest
<1>7. CASE \/ r = [run[w] EXCEPT !.pc = "vacuum", !.target = now]
           \/ \E good \in BOOLEAN : r = [run[w] EXCEPT !.pc = "verify", !.partial = good]
           \/ r = [run[w] EXCEPT !.pc = "publish"]
           \/ r = [run[w] EXCEPT !.pc = "list"]
  BY <1>1, <1>2, <1>7 DEF Run
<1> QED BY <1>3, <1>4, <1>5, <1>6, <1>7 DEF Goes

\* Who runs after a step of a run, and who after the end of one.
LEMMA GoesRunning ==
  ASSUME Runs, NEW w \in Running, NEW r, Becomes(w, r), Written(r)
  PROVE  /\ Running' = Running /\ run'[w] = r
         /\ \A v \in Running : v # w => run'[v] = run[v]
<1>1. r # Idle /\ w \in Writer
  BY DEF Written, Run, Idle, Running
<1> QED BY <1>1 DEF Runs, Becomes, Running

LEMMA EndsRunning ==
  ASSUME Runs, NEW w \in Running, run' = [run EXCEPT ![w] = Idle]
  PROVE  Running' = Running \ {w} /\ \A v \in Running' : run'[v] = run[v]
BY DEF Runs, Running

LEMMA StartsRunning ==
  ASSUME Runs, NEW w \in Writer, Start(w)
  PROVE  /\ Running' = Running \union {w} /\ w \notin Running
         /\ run'[w] = [pc |-> "create", target |-> 0, partial |-> FALSE, names |-> {},
                       error |-> FALSE, alone |-> Running = {}]
         /\ \A v \in Running : run'[v] = [run[v] EXCEPT !.alone = FALSE]
<1> DEFINE fresh == [pc |-> "create", target |-> 0, partial |-> FALSE, names |-> {},
                     error |-> FALSE, alone |-> Running = {}]
<1>1. run' = [v \in Writer |-> IF v = w THEN fresh
               ELSE IF v \in Running THEN [run[v] EXCEPT !.alone = FALSE] ELSE Idle]
      /\ w \notin Running /\ Running \subseteq Writer
  BY DEF Start, Running
<1>2. fresh # Idle
  BY DEF Idle
<1> HIDE DEF fresh
<1>3. \A v \in Running : [run[v] EXCEPT !.alone = FALSE] # Idle
  <2> TAKE v \in Running
  <2>1. run[v] \in Run
    BY RunIs
  <2> QED BY <2>1 DEF Run, Idle
<1>4. run'[w] = fresh /\ \A v \in Running : run'[v] = [run[v] EXCEPT !.alone = FALSE]
  BY <1>1
<1>5. \A v \in Writer : run'[v] # Idle <=> v \in Running \union {w}
  BY <1>1, <1>2, <1>3
<1>6. Running' = Running \union {w}
  BY <1>1, <1>5 DEF Running
<1> QED BY <1>1, <1>4, <1>6 DEF fresh

LEMMA AloneStep == SoundInv /\ AloneInv /\ [Next]_vars => AloneInv'
<1> SUFFICES ASSUME SoundInv, AloneInv, [Next]_vars PROVE AloneInv'
  OBVIOUS
<1>1. Runs /\ status \in Status
  BY DEF SoundInv
<1>2. CASE SetClock \/ Damage \/ UNCHANGED vars
  <2>1. UNCHANGED <<dir, status, run, published>>
    BY <1>2 DEF SetClock, Damage, vars
  <2> QED BY <2>1 DEF AloneInv, Running, Honest, Backups
<1>3. ASSUME NEW w \in Writer, Start(w) PROVE AloneInv'
  <2>1. status'.state # "success"
    BY <1>3 DEF Start
  <2>2. /\ Running' = Running \union {w} /\ run'[w].pc = "create"
        /\ run'[w].alone = (Running = {})
        /\ \A v \in Running : run'[v] = [run[v] EXCEPT !.alone = FALSE]
    <3>1. run'[w] = [pc |-> "create", target |-> 0, partial |-> FALSE, names |-> {},
                     error |-> FALSE, alone |-> Running = {}]
      BY <1>1, <1>3, StartsRunning
    <3> QED BY <1>1, <1>3, <3>1, StartsRunning
  <2>3. \A v \in Running : run'[v].alone = FALSE
    BY <1>1, <2>2, RunIs DEF Run
  <2>4. ASSUME run'[w].alone PROVE Running' = {w}
    BY <2>2, <2>4
  <2>5. \A v \in Running' : v = w \/ v \in Running
    BY <2>2
  <2>6. ASSUME NEW u \in Running', NEW v \in Running', run'[v].alone PROVE u = v
    BY <2>3, <2>4, <2>5, <2>6
  <2>7. ASSUME NEW v \in Running', run'[v].alone PROVE Honest(run'[v], dir')
    BY <2>2, <2>3, <2>5, <2>7 DEF Honest
  <2> QED BY <2>1, <2>6, <2>7, Zenon DEF AloneInv
<1>4. ASSUME NEW w \in Writer, Finish(w) \/ Kill(w) PROVE AloneInv'
  <2>1. w \in Running /\ run' = [run EXCEPT ![w] = Idle] /\ UNCHANGED dir
    BY <1>4, StepsRun DEF Finish, Kill
  <2>2. Running' = Running \ {w} /\ \A v \in Running' : run'[v] = run[v]
    BY <1>1, <2>1, EndsRunning
  <2>3. /\ \A u, v \in Running' : run'[v].alone => u = v
        /\ \A v \in Running' : run'[v].alone => Honest(run'[v], dir')
    BY <2>1, <2>2 DEF AloneInv
  <2>4. ASSUME status'.state = "success", status'.alone
        PROVE  Running' = {} /\ Cardinality(Backups(dir')) <= Keep
    <3>1. CASE status' = status
      BY <2>1, <2>4, <3>1 DEF AloneInv
    <3>2. CASE /\ run[w].pc = "finish"
               /\ status' = [state |-> Outcome(w), file |-> run[w].target, alone |-> run[w].alone]
      <4>1. run[w].alone /\ ~run[w].error
        BY <2>4, <3>2 DEF Outcome
      <4>2. Running' = {} /\ Honest(run[w], dir)
        BY <2>1, <2>2, <4>1 DEF AloneInv
      <4> QED BY <2>1, <3>2, <4>1, <4>2 DEF Honest
    <3> QED BY <1>4, <3>1, <3>2 DEF Finish, Kill
  <2> QED BY <2>3, <2>4, Zenon DEF AloneInv
<1>5. ASSUME NEW w \in Writer,
             \/ Create(w) \/ Vacuum(w) \/ Verify(w) \/ Publish(w) \/ List(w)
             \/ Rotate(w) \/ Break(w)
      PROVE  AloneInv'
  <2>1. PICK r : Becomes(w, r) /\ Goes(w, r) /\ UNCHANGED <<now, sound, status>>
    BY <1>5, GoesOn
  <2>2. w \in Running
    BY <1>5, StepsRun
  <2>3. Written(r) /\ r.alone = run[w].alone
    BY <2>1, <2>2, GoesWritten
  <2>4. /\ Running' = Running /\ run'[w] = r
        /\ \A v \in Running : v # w => run'[v] = run[v]
    BY <1>1, <2>1, <2>2, <2>3, GoesRunning
  <2>5. \A v \in Running' : run'[v].alone = run[v].alone
    BY <2>3, <2>4
  <2>6. \A u, v \in Running' : run'[v].alone => u = v
    BY <2>4, <2>5 DEF AloneInv
  <2>7. ASSUME NEW v \in Running', run'[v].alone PROVE Honest(run'[v], dir')
    <3>1. v = w /\ run[w].alone
      BY <2>2, <2>4, <2>5, <2>6, <2>7
    <3>2. Honest(run[w], dir)
      BY <2>2, <3>1 DEF AloneInv
    <3> QED BY <2>1, <2>2, <2>4, <3>1, <3>2, GoesHonest
  <2>8. ~(status'.state = "success" /\ status'.alone)
    BY <2>1, <2>2 DEF AloneInv
  <2> QED BY <2>6, <2>7, <2>8, Zenon DEF AloneInv
<1> QED BY <1>2, <1>3, <1>4, <1>5 DEF Next

-----------------------------------------------------------------------------
(***************************************************************************)
(* What its status.json names, while the clock is not set back.            *)
(***************************************************************************)
\* The name it drew is later than all others, so that the first names of the
\* list, which go, are others.
Latest(r, files) ==
  /\ r.pc \in {"vacuum", "verify", "publish"} => \A f \in files : f.stamp < r.target
  /\ r.pc \in {"list", "rotate"} =>
       r.target \in Stamps(files) /\ \A f \in files : f.stamp <= r.target
  /\ r.pc = "rotate" => r.target \in r.names /\ \A n \in r.names : n <= r.target
  /\ r.pc = "finish" /\ ~r.error => r.target \in Stamps(files)

LatestInv ==
  /\ \A f \in dir : f.stamp <= now
  /\ \A w \in Running : run[w].target <= now
  /\ \A w \in Running : run[w].alone => Latest(run[w], dir)
  /\ RecordedFileExists

LEMMA LatestInit == Init => LatestInv
<1> SUFFICES ASSUME Init PROVE LatestInv
  OBVIOUS
<1>1. Running = {} /\ status.state # "success"
  BY DEF Init, Running
<1>2. \A f \in dir : f.stamp <= now
  BY BoundsAssumption DEF Init
<1> QED BY <1>1, <1>2 DEF LatestInv, RecordedFileExists

\* The clock: no file, and no run, is of the future.
LEMMA GoesPast ==
  ASSUME SoundInv, LatestInv, NEW w \in Running, NEW r, Goes(w, r), UNCHANGED now
  PROVE  r.target <= now /\ \A f \in dir' : f.stamp <= now
<1>1. Written(run[w]) /\ run[w] \in Run /\ now \in Time /\ FilesInv /\ run[w].target <= now
  BY RunIs DEF SoundInv, FilesInv, LatestInv
<1>2. \A f \in dir : f.stamp <= now
  BY DEF LatestInv
<1>3. \A f \in dir' : f.stamp <= now
  <2>1. CASE dir' \subseteq dir
    BY <1>2, <2>1
  <2>2. CASE dir' = dir \union {Copied(run[w])}
    BY <1>1, <1>2, <2>2 DEF Copied
  <2> QED BY <2>1, <2>2, GoesFiles
<1>4. r.target \in {0, now, run[w].target}
  BY <1>1 DEF Goes, Failed, Run
<1> QED BY <1>1, <1>3, <1>4 DEF Time

LEMMA GoesLatest ==
  ASSUME SoundInv, LatestInv, NEW w \in Running, NEW r, Goes(w, r), Latest(run[w], dir)
  PROVE  Latest(r, dir')
<1>1. Written(run[w]) /\ run[w] \in Run /\ FilesInv /\ now \in Time
  BY RunIs DEF SoundInv, FilesInv
<1>2. \A f \in dir : f.stamp \in Nat /\ f.stamp <= now
  BY <1>1 DEF FilesInv, File, Time, LatestInv
<1>3. CASE r = Failed(run[w])
  BY <1>1, <1>3 DEF Failed, Run, Latest
<1>4. CASE /\ now \notin Stamps(dir) /\ UNCHANGED dir
           /\ r = [run[w] EXCEPT !.pc = "vacuum", !.target = now]
  <2>1. \A f \in dir : f.stamp < now
    BY <1>1, <1>2, <1>4 DEF Stamps, Time
  <2> QED BY <1>1, <1>4, <2>1 DEF Latest, Run
<1>5. CASE /\ run[w].pc \in {"vacuum", "verify"} /\ UNCHANGED dir
           /\ \/ \E good \in BOOLEAN : r = [run[w] EXCEPT !.pc = "verify", !.partial = good]
              \/ r = [run[w] EXCEPT !.pc = "publish"]
  BY <1>1, <1>5 DEF Latest, Run
<1>6. CASE /\ run[w].pc = "publish" /\ dir' = dir \union {Copied(run[w])}
           /\ r = [run[w] EXCEPT !.pc = "list"]
  <2>1. Copied(run[w]) \in dir' /\ Copied(run[w]).stamp = run[w].target
    BY <1>6 DEF Copied
  <2>2. run[w].target \in Stamps(dir')
    BY <2>1 DEF Stamps
  <2>3. run[w].target \in Nat /\ \A f \in dir : f.stamp < run[w].target
    BY <1>1, <1>6 DEF Latest, Run, Time
  <2>4. \A f \in dir' : f.stamp <= run[w].target
    BY <1>2, <1>6, <2>1, <2>3
  <2> QED BY <1>1, <1>6, <2>2, <2>4 DEF Latest, Run
<1>7. CASE /\ run[w].pc = "list" /\ UNCHANGED dir
           /\ r = [run[w] EXCEPT !.pc = "rotate", !.names = Stamps(dir)]
  BY <1>1, <1>7 DEF Latest, Run, Stamps
<1>8. CASE /\ run[w].pc = "rotate" /\ UNCHANGED dir /\ r = [run[w] EXCEPT !.pc = "finish"]
  BY <1>1, <1>8 DEF Latest, Run
<1>9. CASE /\ run[w].pc = "rotate" /\ Surplus(run[w].names)
           /\ dir' = IF Spared(Oldest(run[w].names)) THEN dir
                     ELSE {f \in dir : f.stamp # Oldest(run[w].names)}
           /\ r = [run[w] EXCEPT !.names = @ \ {Oldest(run[w].names)}]
  <2> DEFINE oldest == Oldest(run[w].names)
             target == run[w].target
             names == run[w].names
  <2>1. /\ target \in names /\ target \in Stamps(dir) /\ \A n \in names : n <= target
        /\ \A f \in dir : f.stamp <= target
    BY <1>9 DEF Latest
  <2>2. names \subseteq Time /\ IsFiniteSet(names)
    BY <1>1 DEF Written, Run
  <2>3. oldest \in names /\ \A n \in names : oldest <= n
    BY <2>1, <2>2, OldestIs
  <2>4. oldest # target
    <3> SUFFICES ASSUME oldest = target PROVE FALSE
      OBVIOUS
    <3>1. \A n \in names : n \in Nat /\ n <= target /\ target <= n
      BY <2>1, <2>2, <2>3 DEF Time
    <3>2. names = {target}
      BY <2>1, <3>1
    <3>3. Cardinality(names) = 1
      BY <3>2, FS_Singleton, Zenon
    <3> QED BY <1>9, <3>3, BoundsAssumption DEF Surplus
  <2>5. r.pc = "rotate" /\ r.target = target /\ r.names = names \ {oldest}
        /\ dir' = IF Spared(oldest) THEN dir ELSE {f \in dir : f.stamp # oldest}
    BY <1>1, <1>9 DEF Run
  <2> HIDE DEF oldest, target, names
  <2>6. dir' \subseteq dir /\ target \in Stamps(dir')
    BY <2>1, <2>4, <2>5 DEF Stamps
  <2> QED BY <2>1, <2>4, <2>5, <2>6 DEF Latest
<1> QED BY <1>3, <1>4, <1>5, <1>6, <1>7, <1>8, <1>9 DEF Goes

LEMMA LatestStep ==
  ASSUME ~ClockStepsBack
  PROVE  SoundInv /\ AloneInv /\ LatestInv /\ [Next]_vars => LatestInv'
<1> SUFFICES ASSUME SoundInv, AloneInv, LatestInv, [Next]_vars PROVE LatestInv'
  OBVIOUS
<1>1. Runs /\ status \in Status /\ FilesInv /\ now \in Time
  BY DEF SoundInv, FilesInv
<1>2. CASE SetClock \/ Damage \/ UNCHANGED vars
  <2>1. UNCHANGED <<dir, status, run>> /\ now <= now' /\ now' \in Nat /\ now \in Nat
    BY <1>1, <1>2 DEF SetClock, Damage, vars, Time
  <2>2. \A f \in dir : f.stamp \in Nat /\ f.stamp <= now
    BY <1>1 DEF FilesInv, File, Time, LatestInv
  <2>3. \A w \in Running : run[w].target \in Nat /\ run[w].target <= now
    BY <1>1, RunIs DEF Run, Time, LatestInv
  <2>4. Running' = Running
    BY <2>1 DEF Running
  <2>5. \A w \in Running' : run'[w].alone => Latest(run'[w], dir')
    BY <2>1, <2>4 DEF LatestInv
  <2>6. RecordedFileExists'
    BY <2>1 DEF LatestInv, RecordedFileExists
  <2>7. (\A f \in dir' : f.stamp <= now') /\ (\A w \in Running' : run'[w].target <= now')
    BY <2>1, <2>2, <2>3, <2>4
  <2> QED BY <2>5, <2>6, <2>7 DEF LatestInv
<1>3. ASSUME NEW w \in Writer, Start(w) PROVE LatestInv'
  <2>1. status'.state # "success" /\ UNCHANGED <<now, dir>>
    BY <1>3 DEF Start
  <2>2. /\ Running' = Running \union {w} /\ run'[w].pc = "create" /\ run'[w].target = 0
        /\ \A v \in Running : run'[v] = [run[v] EXCEPT !.alone = FALSE]
    <3>1. run'[w] = [pc |-> "create", target |-> 0, partial |-> FALSE, names |-> {},
                     error |-> FALSE, alone |-> Running = {}]
      BY <1>1, <1>3, StartsRunning
    <3> QED BY <1>1, <1>3, <3>1, StartsRunning
  <2>3. \A v \in Running : run'[v].alone = FALSE /\ run'[v].target = run[v].target
    BY <1>1, <2>2, RunIs DEF Run
  <2>4. 0 <= now
    BY <1>1 DEF Time
  <2>5. \A v \in Running' : run'[v].target <= now'
    BY <2>1, <2>2, <2>3, <2>4 DEF LatestInv
  <2>6. \A v \in Running' : run'[v].alone => Latest(run'[v], dir')
    BY <2>2, <2>3 DEF Latest
  <2> QED BY <2>1, <2>5, <2>6 DEF LatestInv, RecordedFileExists
<1>4. ASSUME NEW w \in Writer, Finish(w) \/ Kill(w) PROVE LatestInv'
  <2>1. w \in Running /\ run' = [run EXCEPT ![w] = Idle] /\ UNCHANGED <<now, dir>>
    BY <1>4, StepsRun DEF Finish, Kill
  <2>2. Running' = Running \ {w} /\ \A v \in Running' : run'[v] = run[v]
    BY <1>1, <2>1, EndsRunning
  <2>3. RecordedFileExists'
    <3>1. CASE status' = status
      BY <2>1, <3>1 DEF LatestInv, RecordedFileExists
    <3>2. CASE /\ run[w].pc = "finish"
               /\ status' = [state |-> Outcome(w), file |-> run[w].target, alone |-> run[w].alone]
      <4>1. run[w].alone => Latest(run[w], dir)
        BY <2>1 DEF LatestInv
      <4> QED BY <2>1, <3>2, <4>1 DEF RecordedFileExists, Outcome, Latest
    <3> QED BY <1>4, <3>1, <3>2 DEF Finish, Kill
  <2> QED BY <2>1, <2>2, <2>3 DEF LatestInv
<1>5. ASSUME NEW w \in Writer,
             \/ Create(w) \/ Vacuum(w) \/ Verify(w) \/ Publish(w) \/ List(w)
             \/ Rotate(w) \/ Break(w)
      PROVE  LatestInv'
  <2>1. PICK r : Becomes(w, r) /\ Goes(w, r) /\ UNCHANGED <<now, sound, status>>
    BY <1>5, GoesOn
  <2>2. w \in Running
    BY <1>5, StepsRun
  <2>3. Written(r) /\ r.alone = run[w].alone
    BY <2>1, <2>2, GoesWritten
  <2>4. /\ Running' = Running /\ run'[w] = r
        /\ \A v \in Running : v # w => run'[v] = run[v]
    BY <1>1, <2>1, <2>2, <2>3, GoesRunning
  <2>5. r.target <= now' /\ \A f \in dir' : f.stamp <= now'
    BY <2>1, <2>2, GoesPast
  <2>6. \A v \in Running' : run'[v].target <= now'
    BY <2>1, <2>4, <2>5 DEF LatestInv
  <2>7. ASSUME NEW v \in Running', run'[v].alone PROVE Latest(run'[v], dir')
    <3>1. run[v].alone
      BY <2>3, <2>4, <2>7
    <3>2. v = w
      BY <2>2, <2>4, <3>1 DEF AloneInv
    <3>3. Latest(run[w], dir)
      BY <2>2, <3>1, <3>2 DEF LatestInv
    <3> QED BY <2>1, <2>2, <2>4, <3>2, <3>3, GoesLatest
  <2>8. ~(status'.state = "success" /\ status'.alone)
    BY <2>1, <2>2 DEF AloneInv
  <2>9. RecordedFileExists'
    BY <2>8 DEF RecordedFileExists
  <2> QED BY <2>5, <2>6, <2>7, <2>9 DEF LatestInv
<1> QED BY <1>2, <1>3, <1>4, <1>5 DEF Next

-----------------------------------------------------------------------------
(***************************************************************************)
(* The theorems.                                                           *)
(***************************************************************************)
BackupInv == SoundInv /\ KeptInv /\ AloneInv

\* The inductive invariant: only what was verified is published, whatever has
\* a known name is there or has Keep newer files, and a process that runs
\* alone knows what is there.
THEOREM BackupInvariant == Spec => []BackupInv
<1>1. Init => BackupInv
  BY InitSound, KeptInit, AloneInit DEF BackupInv
<1>2. BackupInv /\ [Next]_vars => BackupInv'
  BY SoundStep, KeptStep, AloneStep DEF BackupInv
<1> QED BY <1>1, <1>2, PTL DEF Spec

\* The files have one name each, and every process is at a step of the backup
\* with the data of that step (TypeOK).
THEOREM TypeCorrect == Spec => []TypeOK
<1>1. BackupInv => TypeOK
  BY DEF BackupInv, SoundInv, FilesInv, Runs, TypeOK
<1> QED BY <1>1, BackupInvariant, PTL

\* Every published backup passed the integrity check (PublishedAreSound).
THEOREM SoundPublished == Spec => []PublishedAreSound
<1>1. BackupInv => PublishedAreSound
  BY DEF BackupInv, SoundInv, FilesInv, PublishedAreSound
<1> QED BY <1>1, BackupInvariant, PTL

\* No backup takes the name of a file that is there (NeverReplaced), not even
\* if two processes drew the same one.
THEOREM NothingReplaced == Spec => NeverReplaced
<1> DEFINE New == \A i \in DOMAIN published' \ DOMAIN published :
                    published'[i].stamp \notin Stamps(dir)
<1>1. ASSUME BackupInv, [Next]_vars PROVE New
  <2>1. CASE UNCHANGED published
    BY <2>1
  <2>2. ASSUME NEW w \in Writer,
               \/ Create(w) \/ Vacuum(w) \/ Verify(w) \/ Publish(w) \/ List(w)
               \/ Rotate(w) \/ Break(w)
        PROVE  New
    <3>1. SoundInv
      BY <1>1 DEF BackupInv
    <3>2. PICK r : Goes(w, r) /\ UNCHANGED <<now, sound>>
      BY <2>2, <3>1, GoesOn
    <3> QED BY <2>2, <3>1, <3>2, StepsRun, FilesStep
  <2> QED BY <1>1, <2>1, <2>2 DEF Next, SetClock, Damage, Start, Finish, Kill, vars
<1> HIDE DEF New
<1>2. BackupInv /\ [Next]_vars => [New]_vars
  BY <1>1
<1>3. Spec => [][New]_vars
  BY <1>2, BackupInvariant, PTL DEF Spec
<1> QED BY <1>3 DEF New, NeverReplaced

\* However the runs fail, crash and meet, a backup is gone only if Keep newer
\* files are there (NewestKept).
THEOREM NewestAreKept == Spec => []NewestKept
<1>1. ASSUME BackupInv PROVE NewestKept
  <2>1. FilesInv /\ KeptInv
    BY <1>1 DEF BackupInv, SoundInv
  <2>2. ASSUME NEW i \in 1..Len(published), published[i] \notin dir
        PROVE  Cardinality({f \in dir : f.stamp > published[i].stamp}) >= Keep
    <3>1. published \in Seq(File) /\ published[i].sound
      BY <2>1 DEF FilesInv
    <3>2. published[i] \in File
      BY <3>1
    <3>3. published[i].stamp \notin Stamps(dir)
      <4> SUFFICES ASSUME NEW f \in dir, f.stamp = published[i].stamp PROVE FALSE
        BY DEF Stamps
      <4>1. f \in File /\ f.sound
        BY <2>1 DEF FilesInv
      <4>2. f = published[i]
        BY <3>1, <3>2, <4>1 DEF File
      <4> QED BY <2>2, <4>2
    <3>4. Safe(dir, published[i].stamp)
      BY <2>1 DEF KeptInv
    <3> QED BY <3>3, <3>4 DEF Safe, Newer
  <2>3. DOMAIN published = 1..Len(published)
    BY <2>1 DEF FilesInv
  <2> QED BY <2>2, <2>3 DEF NewestKept
<1> QED BY <1>1, BackupInvariant, PTL

\* A success reported by a process that was alone leaves no more than Keep
\* backups, whatever earlier failures had left (SurplusTrimmed).
THEOREM Trimmed == Spec => []SurplusTrimmed
<1>1. BackupInv => SurplusTrimmed
  BY DEF BackupInv, AloneInv, SurplusTrimmed, Backups
<1> QED BY <1>1, BackupInvariant, PTL

\* While the clock is not set back, the file that such a success names is
\* there (RecordedFileExists): rotation never takes the run's own backup.
THEOREM RecordedFile ==
  ASSUME ~ClockStepsBack
  PROVE  Spec => []RecordedFileExists
<1>1. Init => BackupInv /\ LatestInv
  BY InitSound, KeptInit, AloneInit, LatestInit DEF BackupInv
<1>2. BackupInv /\ LatestInv /\ [Next]_vars => (BackupInv /\ LatestInv)'
  BY SoundStep, KeptStep, AloneStep, LatestStep DEF BackupInv
<1>3. LatestInv => RecordedFileExists
  BY DEF LatestInv
<1> QED BY <1>1, <1>2, <1>3, PTL DEF Spec
=============================================================================
