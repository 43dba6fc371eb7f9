------------------------------- MODULE Rollout -------------------------------
(***************************************************************************)
(* deploy-secret-fix-20260927.py: hub and agent are taken to a new build   *)
(* as a pair, the hub first, because the new agent does not work with the  *)
(* old hub; on the way back the agent goes first.  The script does not     *)
(* take the lock of Maintenance during the switch (the installed           *)
(* maintenance script does not know it): it pauses the timers instead.     *)
(*                                                                         *)
(* Each command may fail, or time out with or without its effect; the      *)
(* script may be interrupted from the keyboard or killed anywhere.  How    *)
(* upgrade-prepare.py makes the rollback point is in Maintenance.          *)
(***************************************************************************)
CONSTANT Timer  \* the timers of backup and maintenance

VARIABLES
  pc,        \* where the script is
  phase,     \* which switch it is at
  changed,   \* has it begun to change the services
  status,    \* report['status']
  live,      \* the installed programs
  temp,      \* the .secret-fix-next files beside them
  service,   \* the two services
  timer,     \* the timers
  task,      \* whose background service is running
  bundle,    \* the rollback directory
  todo,      \* timers still to be started again
  report     \* deployment-result.json of this run, if it has been written

vars == <<pc, phase, changed, status, live, temp, service, timer, task, bundle, todo,
          report>>

programs == <<live, temp, service>>
background == <<timer, task>>
outcome == <<status, changed, todo, report>>

-----------------------------------------------------------------------------
Component == {"hub", "agent"}
Forward == {"hub", "agent"}
Back == {"backAgent", "backHub"}

\* The component a switch replaces, and the build it installs.
Part(p) == IF p \in {"hub", "backHub"} THEN "hub" ELSE "agent"
Wanted(p) == IF p \in Forward THEN "new" ELSE "old"

Switch == {"stop", "copy", "replace", "start"}
Try == {"pause", "tasks", "prepare", "check"} \union Switch

NoReport == [written |-> FALSE, errors |-> {}]

TypeOK ==
  /\ pc \in {"idle", "resume"} \union Try
  /\ phase \in Forward \union Back
  /\ changed \in BOOLEAN
  /\ status \in {"RUNNING", "PASS", "ROLLED_BACK", "ABORTED"}
  /\ live \in [Component -> {"old", "new"}]
  /\ temp \in [Component -> {"none", "torn", "old", "new"}]
  /\ service \in [Component -> {"active", "stopped", "failed"}]
  /\ timer \in [Timer -> {"active", "stopped"}]
  /\ task \subseteq Timer
  /\ bundle \in {"none", "partial", "whole"}
  /\ todo \subseteq Timer
  /\ report \in [written: BOOLEAN, errors: SUBSET Timer]

AllOld == [c \in Component |-> "old"]
AllNew == [c \in Component |-> "new"]
NoTemp == [c \in Component |-> "none"]
AllActive == [c \in Component |-> "active"]

Init ==
  /\ pc = "idle" /\ phase = "hub" /\ changed = FALSE /\ status = "RUNNING"
  /\ live = AllOld /\ temp = NoTemp /\ service = AllActive
  /\ timer = [t \in Timer |-> "active"] /\ task = {}
  /\ bundle = "none" /\ todo = {} /\ report = NoReport

-----------------------------------------------------------------------------
(***************************************************************************)
(* The background tasks that the timers start.                             *)
(***************************************************************************)
TaskStarts(t) ==
  /\ timer[t] = "active" /\ t \notin task
  /\ task' = task \union {t}
  /\ UNCHANGED <<pc, phase, outcome, programs, timer, bundle>>

TaskEnds(t) ==
  /\ t \in task
  /\ task' = task \ {t}
  /\ UNCHANGED <<pc, phase, outcome, programs, timer, bundle>>

-----------------------------------------------------------------------------
(***************************************************************************)
(* Up to the rollback point.                                               *)
(***************************************************************************)

\* The release is new, the expected builds are installed and everything runs.
Begin ==
  /\ pc = "idle" /\ bundle = "none"
  /\ live = AllOld /\ service = AllActive
  /\ \A t \in Timer : timer[t] = "active"
  /\ pc' = "pause" /\ phase' = "hub" /\ changed' = FALSE
  /\ status' = "RUNNING" /\ todo' = Timer /\ report' = NoReport
  /\ UNCHANGED <<programs, background, bundle>>

PauseTimer(t) ==
  /\ pc = "pause" /\ timer[t] = "active"
  /\ timer' = [timer EXCEPT ![t] = "stopped"]
  /\ UNCHANGED <<pc, phase, outcome, programs, task, bundle>>

\* (Faulty variant: not all the timers are stopped when the tasks are looked at.)
SomePaused ==
  /\ pc = "pause" /\ \E t \in Timer : timer[t] = "stopped"
  /\ pc' = "tasks"
  /\ UNCHANGED <<phase, outcome, programs, background, bundle>>

Paused ==
  /\ pc = "pause" /\ \A t \in Timer : timer[t] = "stopped"
  /\ pc' = "tasks"
  /\ UNCHANGED <<phase, outcome, programs, background, bundle>>

\* A stopped timer starts nothing, but what it started may be running.
NoTaskRuns ==
  /\ pc = "tasks" /\ task = {}
  /\ pc' = "prepare"
  /\ UNCHANGED <<phase, outcome, programs, background, bundle>>

\* (Faulty variant: the flag is set when the hub has been switched.)
PreparedUnflagged ==
  /\ pc = "prepare"
  /\ bundle' = "whole" /\ pc' = "stop"
  /\ UNCHANGED <<phase, outcome, programs, background>>

\* The rollback point is made and checked, by upgrade-prepare.py.
Prepared ==
  /\ pc = "prepare"
  /\ bundle' = "whole" /\ changed' = TRUE /\ pc' = "stop"
  /\ UNCHANGED <<phase, status, todo, report, programs, background>>

-----------------------------------------------------------------------------
(***************************************************************************)
(* switch, replace, observe, api_check.                                    *)
(***************************************************************************)
GoTo(next) == pc' = next /\ UNCHANGED <<phase, outcome, background, bundle>>

Stop ==
  /\ pc = "stop"
  /\ service' = [service EXCEPT ![Part(phase)] = "stopped"]
  /\ GoTo("copy") /\ UNCHANGED <<live, temp>>

\* A file that was left beside the program is a collision (see Except).
Copy ==
  /\ pc = "copy" /\ temp[Part(phase)] = "none"
  /\ \E content \in {"torn", Wanted(phase)} :
       temp' = [temp EXCEPT ![Part(phase)] = content]
  /\ GoTo("replace") /\ UNCHANGED <<live, service>>

\* Only with the expected hash is the copy renamed.
Replace ==
  /\ pc = "replace" /\ temp[Part(phase)] = Wanted(phase)
  /\ live' = [live EXCEPT ![Part(phase)] = temp[Part(phase)]]
  /\ temp' = [temp EXCEPT ![Part(phase)] = "none"]
  /\ GoTo("start") /\ UNCHANGED service

\* On the way back the hub follows the agent at once.
Start ==
  /\ pc = "start"
  /\ \E state \in {"active", "failed"} :
       service' = [service EXCEPT ![Part(phase)] = state]
  /\ IF phase = "backAgent"
     THEN phase' = "backHub" /\ pc' = "stop"
     ELSE phase' = phase /\ pc' = "check"
  /\ UNCHANGED <<outcome, live, temp, background, bundle>>

\* The new agent's reports are refused by the old hub.
Incompatible == live["agent"] = "new" /\ live["hub"] = "old"

\* observe: samples keep arriving.
Observed == service = AllActive /\ ~Incompatible

\* api_check: the interface of the hub answers as it should.
ApiChecked == service["hub"] = "active"

Checked ==
  /\ pc = "check" /\ Observed /\ ApiChecked
  /\ \/ phase = "hub" /\ phase' = "agent" /\ pc' = "stop" /\ status' = status
     \/ phase = "agent" /\ phase' = phase /\ pc' = "resume" /\ status' = "PASS"
     \/ phase = "backHub" /\ phase' = phase /\ pc' = "resume" /\ status' = "ROLLED_BACK"
  /\ UNCHANGED <<changed, todo, report, programs, background, bundle>>

-----------------------------------------------------------------------------
(***************************************************************************)
(* What goes wrong.                                                        *)
(***************************************************************************)

\* What the command that fails, or is cut short, may have done.
HalfDone ==
  LET c == Part(phase) IN
  /\ service' \in {service}
       \union (IF pc = "stop" THEN {[service EXCEPT ![c] = "stopped"]} ELSE {})
       \union (IF pc = "start" THEN {[service EXCEPT ![c] = "active"]} ELSE {})
  /\ temp' \in {temp}
       \union (IF pc = "copy" /\ temp[c] = "none" THEN {[temp EXCEPT ![c] = "torn"]} ELSE {})
  /\ bundle' \in {bundle} \union (IF pc = "prepare" THEN {"partial", "whole"} ELSE {})
  /\ timer' \in {timer} \union
       (IF pc = "pause" THEN {[timer EXCEPT ![t] = "stopped"] : t \in Timer} ELSE {})
  /\ UNCHANGED <<live, task>>

\* (Faulty variant: the hub goes back first.)
ExceptHubFirst ==
  /\ pc \in Try /\ phase \in Forward
  /\ HalfDone
  /\ IF changed
     THEN phase' = "backHub" /\ pc' = "stop" /\ status' = status
     ELSE phase' = phase /\ pc' = "resume" /\ status' = "ABORTED"
  /\ UNCHANGED <<changed, todo, report>>

\* except Exception: back if anything was changed.
Except ==
  /\ pc \in Try /\ phase \in Forward
  /\ HalfDone
  /\ IF changed
     THEN phase' = "backAgent" /\ pc' = "stop" /\ status' = status
     ELSE phase' = phase /\ pc' = "resume" /\ status' = "ABORTED"
  /\ UNCHANGED <<changed, todo, report>>

\* The way back fails, or Ctrl+C, which the except clause does not catch.
GiveUp ==
  /\ pc \in Try
  /\ HalfDone
  /\ pc' = "resume"
  /\ UNCHANGED <<phase, status, changed, todo, report>>

\* Killed, or interrupted again in the finally clause.
Kill ==
  /\ pc # "idle"
  /\ HalfDone
  /\ pc' = "idle"
  /\ UNCHANGED <<phase, status, changed, todo, report>>

-----------------------------------------------------------------------------
(***************************************************************************)
(* finally: the timers are started again, and the report is written.       *)
(***************************************************************************)
ResumeTimer(t) ==
  /\ pc = "resume" /\ t \in todo
  /\ todo' = todo \ {t}
  /\ timer' = [timer EXCEPT ![t] = "active"]
  /\ UNCHANGED <<pc, phase, status, changed, report, programs, task, bundle>>

\* (Faulty variant: an error ends the loop.)
ResumeFailsAtOnce(t) ==
  /\ pc = "resume" /\ t \in todo
  /\ todo' = {}
  /\ timer' \in {timer, [timer EXCEPT ![t] = "active"]}
  /\ report' = [report EXCEPT !.errors = @ \union {t}]
  /\ UNCHANGED <<pc, phase, status, changed, programs, task, bundle>>

ResumeFails(t) ==
  /\ pc = "resume" /\ t \in todo
  /\ todo' = todo \ {t}
  /\ timer' \in {timer, [timer EXCEPT ![t] = "active"]}
  /\ report' = [report EXCEPT !.errors = @ \union {t}]
  /\ UNCHANGED <<pc, phase, status, changed, programs, task, bundle>>

\* The report is written, unless that fails, and the run ends.
Report ==
  /\ pc = "resume" /\ todo = {}
  /\ \E written \in BOOLEAN : report' = [report EXCEPT !.written = written]
  /\ pc' = "idle"
  /\ UNCHANGED <<phase, status, changed, todo, programs, background, bundle>>

Next ==
  \/ Begin \/ Paused \/ NoTaskRuns \/ Prepared
  \/ Stop \/ Copy \/ Replace \/ Start \/ Checked
  \/ Except \/ GiveUp \/ Kill \/ Report
  \/ \E t \in Timer :
       TaskStarts(t) \/ TaskEnds(t) \/ PauseTimer(t) \/ ResumeTimer(t) \/ ResumeFails(t)

Spec == Init /\ [][Next]_vars

-----------------------------------------------------------------------------
(***************************************************************************)
(* Properties.                                                             *)
(***************************************************************************)

\* What the run reports is what it leaves, whatever failed or was interrupted on
\* the way: PASS a new pair that runs, ROLLED_BACK and ABORTED the old one, and no
\* file that would block another switch.  All else is left as RUNNING, to be looked
\* at.
StatusIsTrue ==
  /\ status # "RUNNING" => service = AllActive /\ temp = NoTemp
  /\ status = "PASS" => live = AllNew
  /\ status \in {"ROLLED_BACK", "ABORTED"} => live = AllOld

\* The new agent never runs beside the old hub, in either direction and wherever a
\* switch is cut short (docs/PRODUCTION-SECRET-FIX-PLAN.md: hub then agent,
\* and back agent then hub; the reverse order is forbidden).
CompatiblePair == service = AllActive => ~Incompatible

\* A run that reported left each timer running or named it, however far it came.
TimersResumed ==
  report.written => \A t \in Timer : timer[t] = "active" \/ t \in report.errors

\* No backup or maintenance task runs while programs are replaced, without the
\* lock: none is left from before the timers were stopped, and none is started
\* until the switch is over.
TasksKeptOut == pc \in {"prepare", "check"} \union Switch => task = {}
=============================================================================
