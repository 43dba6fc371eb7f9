--------------------------- MODULE DeviceLifecycle ---------------------------
(***************************************************************************)
(* What the hub promises about the life of a device id, without tables,    *)
(* tokens or requests: an id becomes active only on an invitation, must be *)
(* revoked before it is deleted, and has no history while it is deleted.   *)
(***************************************************************************)
CONSTANT Device

VARIABLES
  status,   \* "unknown", "active", "revoked" or "deleted"
  history,  \* the ids something is kept of
  invited   \* the ids with a code out

vars == <<status, history, invited>>

Init ==
  /\ status = [d \in Device |-> "unknown"]
  /\ history = {}
  /\ invited = {}

Invite(d) ==
  /\ invited' = invited \union {d}
  /\ UNCHANGED <<status, history>>

\* Registering is the only way out of any other status, and uses the
\* invitation up.
Activate(d) ==
  /\ d \in invited
  /\ status' = [status EXCEPT ![d] = "active"]
  /\ invited' = invited \ {d}
  /\ UNCHANGED history

\* Revoking withdraws the invitation; a deleted id stays deleted.
Withdraw(d) ==
  /\ status[d] # "unknown"
  /\ status' = [status EXCEPT ![d] = IF @ = "deleted" THEN @ ELSE "revoked"]
  /\ invited' = invited \ {d}
  /\ UNCHANGED history

Erase(d) ==
  /\ status[d] = "revoked"
  /\ status' = [status EXCEPT ![d] = "deleted"]
  /\ history' = history \ {d}
  /\ invited' = invited \ {d}

Record(d) ==
  /\ status[d] # "deleted"
  /\ history' = history \union {d}
  /\ UNCHANGED <<status, invited>>

\* Retention: what is kept of some ids is gone.
Age ==
  /\ \E old \in SUBSET history : history' = history \ old
  /\ UNCHANGED <<status, invited>>

Next ==
  \/ \E d \in Device : Invite(d) \/ Activate(d) \/ Withdraw(d) \/ Erase(d) \/ Record(d)
  \/ Age

Spec == Init /\ [][Next]_vars
=============================================================================
