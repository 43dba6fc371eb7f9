----------------------------- MODULE AtomicUpdate -----------------------------
(***************************************************************************)
(* What the administrator is promised of an update: seen from outside, the *)
(* agent goes from one package to another in one step, when the old one is *)
(* the package that is retained, or it does not go at all; and an update   *)
(* that could be neither finished nor taken back is left as it is, and no  *)
(* other begins over it.  AgentUpdate implements it file by file.          *)
(*                                                                         *)
(* A package is the set of the versions of its files: one version if it is *)
(* whole, None for a file that is missing.                                 *)
(***************************************************************************)
CONSTANTS Version, None

VARIABLES
  package,   \* what is installed; during an update what was before it
  retained,  \* the package that is kept for going back later
  target,    \* what the update is for, or None
  place,     \* how far it is: "quiet", "trying", "switching", "left"
  told       \* what the last one ended with

vars == <<package, retained, target, place, told>>

Init ==
  /\ \E v \in Version : package = {v}
  /\ retained = {None} /\ target = None
  /\ place = "quiet" /\ told = "nothing"

Refuse ==
  /\ place \in {"quiet", "left"} /\ told' = "refused"
  /\ UNCHANGED <<package, retained, target, place>>

Begin(v) ==
  /\ place = "quiet" /\ package # {v}
  /\ place' = "trying" /\ target' = v /\ told' = "nothing"
  /\ UNCHANGED <<package, retained>>

\* The candidate is refused, or did not work: all is as it was.
GoBack ==
  /\ place = "trying"
  /\ place' = "quiet" /\ target' = None /\ told' \in {"cancelled", "failed", "restored"}
  /\ UNCHANGED <<package, retained>>

\* It works, and the old package is to be retained in place of an older one.
Accept ==
  /\ place = "trying" /\ place' = "switching"
  /\ UNCHANGED <<package, retained, target, told>>

\* The older one is removed, and the old one moves in.
Exchange ==
  /\ place = "switching"
  /\ retained' = package \/ retained' \subseteq retained \union {None}
  /\ UNCHANGED <<package, target, place, told>>

Switch ==
  /\ place = "switching" /\ retained = package
  /\ place' = "quiet" /\ package' = {target} /\ target' = None
  /\ told' \in {"updated", "failed"}
  /\ UNCHANGED retained

Leave ==
  /\ place \in {"trying", "switching"}
  /\ place' = "left" /\ target' = None /\ told' = "failed"
  /\ UNCHANGED <<package, retained>>

Next ==
  \/ Refuse \/ \E v \in Version : Begin(v)
  \/ GoBack \/ Accept \/ Exchange \/ Switch \/ Leave

Spec == Init /\ [][Next]_vars
=============================================================================
