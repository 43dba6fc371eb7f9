---------------------------- MODULE Rollout_proofs ----------------------------
(***************************************************************************)
(* What Rollout guarantees for any set of timers.                          *)
(*                                                                         *)
(* A switch begins only from what the switches before it left: that makes  *)
(* the last check of either direction speak of both programs.              *)
(***************************************************************************)
EXTENDS Rollout, TLAPS

\* A component was switched to a build, and nothing is left beside it.
Done(c, build) == live[c] = build /\ temp[c] = "none"

\* Until a rollback point is made nothing of the services was changed.
Before ==
  /\ pc \in {"pause", "tasks", "prepare"} => phase = "hub" /\ ~changed
  /\ pc \in {"pause", "tasks", "prepare"} \/ bundle = "none" =>
       live = AllOld /\ temp = NoTemp /\ service = AllActive

\* What the switches before this one did, and how far this one is.
Switching ==
  pc \in Switch \union {"check"} =>
    /\ changed /\ bundle = "whole"
    /\ phase = "hub" => Done("agent", "old")
    /\ phase = "agent" => Done("hub", "new")
    /\ phase = "backHub" => Done("agent", "old")
    /\ pc \in {"start", "check"} => Done(Part(phase), Wanted(phase))
    /\ pc = "check" => phase # "backAgent"

\* A new agent is installed only over a new hub, running or not.
PairInv == ~Incompatible

\* A verdict is given at the end only.
Verdict == pc \in Try => status = "RUNNING"

\* From the stop of the timers to the end of the switch nothing starts a task.
Calm ==
  /\ pc \in Try \ {"pause"} => \A t \in Timer : timer[t] = "stopped"
  /\ pc \in {"prepare", "check"} \union Switch => task = {}

\* The timers that the finally clause is done with.
Resumed ==
  /\ pc \in Try => todo = Timer
  /\ pc # "idle" => ~report.written
  /\ pc = "resume" => \A t \in Timer \ todo : timer[t] = "active" \/ t \in report.errors

RollInv ==
  /\ TypeOK /\ Before /\ Switching /\ PairInv /\ Verdict /\ Calm /\ Resumed
  /\ StatusIsTrue /\ TimersResumed

-----------------------------------------------------------------------------
\* At first both old programs run.
LEMMA InitRoll == Init => RollInv
<1> SUFFICES ASSUME Init PROVE RollInv
  OBVIOUS
<1> USE DEF Init, Try, Switch, AllOld, AllActive, NoTemp, NoReport, Component
<1>1. TypeOK
  BY DEF TypeOK, Forward, Back
<1>2. Before /\ Switching /\ PairInv /\ Verdict /\ StatusIsTrue
  BY DEF Before, Switching, PairInv, Incompatible, Verdict, StatusIsTrue
<1>3. Calm /\ Resumed /\ TimersResumed
  BY DEF Calm, Resumed, TimersResumed
<1> QED BY <1>1, <1>2, <1>3 DEF RollInv

\* What HalfDone leaves alone, by the step it happens in.
LEMMA Halves ==
  ASSUME TypeOK, HalfDone
  PROVE  /\ live' = live /\ task' = task
         /\ service' \in [Component -> {"active", "stopped", "failed"}]
         /\ pc \notin {"stop", "start"} => service' = service
         /\ temp' \in [Component -> {"none", "torn", "old", "new"}]
         /\ pc # "copy" => temp' = temp
         /\ bundle' \in {"none", "partial", "whole"}
         /\ pc # "prepare" => bundle' = bundle
         /\ bundle' = "none" => bundle = "none"
         /\ timer' \in [Timer -> {"active", "stopped"}]
         /\ pc # "pause" => timer' = timer
  BY DEF TypeOK, HalfDone, Component, Part

\* The types are kept.
LEMMA TypeStep == TypeOK /\ [Next]_vars => TypeOK'
<1> SUFFICES ASSUME TypeOK, [Next]_vars PROVE TypeOK'
  OBVIOUS
<1> USE DEF TypeOK, Try, Switch, Component, Forward, Back
<1>1. CASE Begin
  BY <1>1 DEF Begin, programs, background, NoReport
<1>2. CASE Paused \/ NoTaskRuns \/ Prepared
  BY <1>2 DEF Paused, NoTaskRuns, Prepared, programs, background, outcome
<1>3. CASE Stop \/ Copy \/ Replace \/ Start
  BY <1>3 DEF Stop, Copy, Replace, Start, GoTo, Part, Wanted, background, outcome
<1>4. CASE Checked
  BY <1>4 DEF Checked, programs, background
<1>5. CASE Except \/ GiveUp \/ Kill
  BY <1>5, Halves DEF Except, GiveUp, Kill
<1>6. CASE Report
  BY <1>6 DEF Report, programs, background
<1>7. ASSUME NEW t \in Timer,
             TaskStarts(t) \/ TaskEnds(t) \/ PauseTimer(t) \/ ResumeTimer(t) \/ ResumeFails(t)
      PROVE  TypeOK'
  BY <1>7 DEF TaskStarts, TaskEnds, PauseTimer, ResumeTimer, ResumeFails, programs, outcome
<1>8. CASE UNCHANGED vars
  BY <1>8 DEF vars
<1> QED BY <1>1, <1>2, <1>3, <1>4, <1>5, <1>6, <1>7, <1>8 DEF Next

\* Each step keeps the parts about the programs.
LEMMA ProgramStep ==
  RollInv /\ [Next]_vars => (Before /\ Switching /\ PairInv /\ Verdict /\ StatusIsTrue)'
<1> DEFINE Goal == Before /\ Switching /\ PairInv /\ Verdict /\ StatusIsTrue
<1> SUFFICES ASSUME RollInv, [Next]_vars PROVE Goal'
  OBVIOUS
<1> USE DEF RollInv, TypeOK, Before, Switching, PairInv, Incompatible, Verdict, StatusIsTrue, Done,
            Try, Switch, Component, Forward, Back, AllOld, AllNew, NoTemp, AllActive
<1>1. CASE Begin
  BY <1>1 DEF Begin, programs
<1>2. CASE Paused \/ NoTaskRuns \/ Prepared
  BY <1>2 DEF Paused, NoTaskRuns, Prepared, programs, outcome
<1>3. CASE Stop
  BY <1>3 DEF Stop, GoTo, Part, outcome
<1>4. CASE Copy
  BY <1>4 DEF Copy, GoTo, Part, outcome
<1>5. CASE Replace
  BY <1>5 DEF Replace, GoTo, Part, Wanted, outcome
<1>6. CASE Start
  BY <1>6 DEF Start, Part, Wanted, outcome
<1>7. CASE Checked
  BY <1>7 DEF Checked, Observed, Part, Wanted, programs
<1>8. CASE Except
  BY <1>8, Halves DEF Except
<1>9. CASE GiveUp \/ Kill
  BY <1>9, Halves DEF GiveUp, Kill
<1>10. CASE Report
  BY <1>10 DEF Report, programs
<1>11. ASSUME NEW t \in Timer,
              TaskStarts(t) \/ TaskEnds(t) \/ PauseTimer(t) \/ ResumeTimer(t) \/ ResumeFails(t)
       PROVE  Goal'
  BY <1>11 DEF TaskStarts, TaskEnds, PauseTimer, ResumeTimer, ResumeFails, programs, outcome
<1>12. CASE UNCHANGED vars
  BY <1>12 DEF vars
<1> QED
  BY <1>1, <1>2, <1>3, <1>4, <1>5, <1>6, <1>7, <1>8, <1>9, <1>10, <1>11, <1>12 DEF Next

\* Each step keeps the parts about the timers.
LEMMA TimerStep == RollInv /\ [Next]_vars => (Calm /\ Resumed /\ TimersResumed)'
<1> DEFINE Goal == Calm /\ Resumed /\ TimersResumed
<1> SUFFICES ASSUME RollInv, [Next]_vars PROVE Goal'
  OBVIOUS
<1> USE DEF RollInv, TypeOK, Before, Switching, Calm, Resumed, TimersResumed, Try, Switch, Forward,
            Back
<1>1. CASE Begin
  BY <1>1 DEF Begin, programs, background, NoReport
<1>2. CASE Paused \/ NoTaskRuns \/ Prepared
  BY <1>2 DEF Paused, NoTaskRuns, Prepared, programs, background, outcome
<1>3. CASE Stop \/ Copy \/ Replace \/ Start
  BY <1>3 DEF Stop, Copy, Replace, Start, GoTo, background, outcome
<1>4. CASE Checked
  BY <1>4 DEF Checked, programs, background
<1>5. CASE Except \/ GiveUp
  BY <1>5, Halves DEF Except, GiveUp
<1>6. CASE Kill
  BY <1>6, Halves DEF Kill
<1>7. CASE Report
  BY <1>7 DEF Report, programs, background
<1>8. ASSUME NEW t \in Timer, TaskStarts(t) \/ TaskEnds(t) \/ PauseTimer(t)
      PROVE  Goal'
  BY <1>8 DEF TaskStarts, TaskEnds, PauseTimer, programs, outcome
<1>9. ASSUME NEW t \in Timer, ResumeTimer(t) \/ ResumeFails(t)
      PROVE  Goal'
  BY <1>9 DEF ResumeTimer, ResumeFails, programs
<1>10. CASE UNCHANGED vars
  BY <1>10 DEF vars
<1> QED BY <1>1, <1>2, <1>3, <1>4, <1>5, <1>6, <1>7, <1>8, <1>9, <1>10 DEF Next

-----------------------------------------------------------------------------
(***************************************************************************)
(* The theorems.                                                           *)
(***************************************************************************)

\* The phases, commands, programs and timers stay in step: the inductive invariant.
THEOREM RolloutInvariant == Spec => []RollInv
<1>1. RollInv /\ [Next]_vars => RollInv'
  BY TypeStep, ProgramStep, TimerStep DEF RollInv
<1> QED BY <1>1, InitRoll, PTL DEF Spec

\* The types; what is installed is always a whole program of one of the two builds.
THEOREM TypeCorrect == Spec => []TypeOK
<1>1. RollInv => TypeOK
  BY DEF RollInv
<1> QED BY <1>1, RolloutInvariant, PTL

\* PASS, ROLLED_BACK and ABORTED say what the run left (StatusIsTrue).
THEOREM TrueStatus == Spec => []StatusIsTrue
<1>1. RollInv => StatusIsTrue
  BY DEF RollInv
<1> QED BY <1>1, RolloutInvariant, PTL

\* The new agent does not run beside the old hub (CompatiblePair).
THEOREM Compatible == Spec => []CompatiblePair
<1>1. RollInv => CompatiblePair
  BY DEF RollInv, PairInv, CompatiblePair
<1> QED BY <1>1, RolloutInvariant, PTL

\* A run that reported left each timer running or named it (TimersResumed).
THEOREM ResumedTimers == Spec => []TimersResumed
<1>1. RollInv => TimersResumed
  BY DEF RollInv
<1> QED BY <1>1, RolloutInvariant, PTL

\* No background task runs during the switch (TasksKeptOut).
THEOREM KeptOut == Spec => []TasksKeptOut
<1>1. RollInv => TasksKeptOut
  BY DEF RollInv, Calm, TasksKeptOut
<1> QED BY <1>1, RolloutInvariant, PTL
=============================================================================
