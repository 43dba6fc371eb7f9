----------------------------- MODULE HubDevices -----------------------------
(***************************************************************************)
(* Device identity in the hub: the tables of its SQLite database that say  *)
(* who may report and what is kept of a device, the administrator's        *)
(* operations on them, and the agents' uploads that race with those        *)
(* operations.                                                             *)
(*                                                                         *)
(* The database has a single connection, so each statement and each        *)
(* transaction is one step.  An upload is NOT one step: it asks the        *)
(* database up to three times whether its credential is good and then      *)
(* writes in a transaction of its own; every other handler may run in      *)
(* between.                                                                *)
(***************************************************************************)
CONSTANTS
  Device,         \* agent ids
  Token,          \* the per-device credentials the hub can draw (secret())
  NoDevice,       \* owner of a token that was not issued
  NoToken,        \* token_hash of an id that has no row in devices
  Legacy,         \* the shared agent token of the old deployments
  LegacyEnabled,  \* is that token configured (s.token # "")
  Kind,           \* the reports that are uploaded
  Slot            \* requests the hub serves at the same time

ASSUME DistinctValues ==
  /\ NoToken \notin Token
  /\ Legacy \notin Token \union {NoToken}
  /\ NoDevice \notin Device
  /\ LegacyEnabled \in BOOLEAN
  /\ Kind \subseteq {"heartbeat", "disk"}

Table == {"servers", "metric_samples", "disk_snapshots", "disk_events"}

VARIABLES
  token_hash,       \* devices.token_hash, NoToken where there is no row
  revoked,          \* ids whose devices row has revoked = 1
  deleted_devices,  \* the tombstones
  enrollments,      \* the enrollment row of an id: "none", "live", "expired"
  rows,             \* rows[t]: the ids that have rows in table t
  req,              \* the uploads being served
  owner,            \* history: the id a token was issued to
  seen              \* history: the device as it was when its code was issued

vars == <<token_hash, revoked, deleted_devices, enrollments, rows, req, owner,
          seen>>

identity == <<token_hash, revoked, deleted_devices, enrollments, owner, seen>>

-----------------------------------------------------------------------------
Credential == Token \union {Legacy}

\* What an administrator's page shows of an id.
DeviceState == [token: Token \union {NoToken}, revoked: BOOLEAN, deleted: BOOLEAN]

Idle == [pc |-> "idle"]

\* stale: the credential was not good for the device when the request came.
\* outlived: the device was deleted between the grant and the write.
Upload == [pc: {"authorized", "authorizedFor", "fallback", "granted"},
           kind: Kind, device: Device, cred: Credential,
           stale: BOOLEAN, outlived: BOOLEAN]

\* Types, and the two constraints of the schema: only a devices row carries
\* a revoked flag, and a metric sample references a servers row.
TypeOK ==
  /\ token_hash \in [Device -> Token \union {NoToken}]
  /\ revoked \subseteq {d \in Device : token_hash[d] # NoToken}
  /\ deleted_devices \subseteq Device
  /\ enrollments \in [Device -> {"none", "live", "expired"}]
  /\ rows \in [Table -> SUBSET Device]
  /\ rows["metric_samples"] \subseteq rows["servers"]
  /\ req \in [Slot -> Upload \union {Idle}]
  /\ owner \in [Token -> Device \union {NoDevice}]
  /\ seen \in [Device -> DeviceState]

Registered(d) == token_hash[d] # NoToken

StateOf(d) == [token |-> token_hash[d], revoked |-> d \in revoked,
               deleted |-> d \in deleted_devices]

HasRows(d) == \E t \in Table : d \in rows[t]

Init ==
  /\ token_hash = [d \in Device |-> NoToken]
  /\ revoked = {}
  /\ deleted_devices = {}
  /\ enrollments = [d \in Device |-> "none"]
  /\ rows = [t \in Table |-> {}]
  /\ req = [r \in Slot |-> Idle]
  /\ owner = [t \in Token |-> NoDevice]
  /\ seen = [d \in Device |-> StateOf(d)]

-----------------------------------------------------------------------------
(***************************************************************************)
(* The administrator's operations.                                         *)
(***************************************************************************)

\* A new code for the id replaces the one it had.
Enroll(d) ==
  /\ enrollments' = [enrollments EXCEPT ![d] = "live"]
  /\ seen' = [seen EXCEPT ![d] = StateOf(d)]
  /\ UNCHANGED <<token_hash, revoked, deleted_devices, rows, req, owner>>

\* Ten minutes pass.
Expire(d) ==
  /\ enrollments[d] = "live"
  /\ enrollments' = [enrollments EXCEPT ![d] = "expired"]
  /\ UNCHANGED <<token_hash, revoked, deleted_devices, rows, req, owner, seen>>

\* (Faulty variant: a device that had a token keeps it.)
RegisterKeepsToken(d) ==
  /\ enrollments[d] = "live"
  /\ \E t \in Token :
       /\ owner[t] = NoDevice
       /\ owner' = [owner EXCEPT ![t] = d]
       /\ token_hash' = [token_hash EXCEPT ![d] = IF @ = NoToken THEN t ELSE @]
  /\ revoked' = revoked \ {d}
  /\ deleted_devices' = deleted_devices \ {d}
  /\ enrollments' = [enrollments EXCEPT ![d] = "none"]
  /\ UNCHANGED <<rows, req, seen>>

\* The id's current code is exchanged for a token that was never issued.
Register(d) ==
  /\ enrollments[d] = "live"
  /\ \E t \in Token :
       /\ owner[t] = NoDevice
       /\ owner' = [owner EXCEPT ![t] = d]
       /\ token_hash' = [token_hash EXCEPT ![d] = t]
  /\ revoked' = revoked \ {d}
  /\ deleted_devices' = deleted_devices \ {d}
  /\ enrollments' = [enrollments EXCEPT ![d] = "none"]
  /\ UNCHANGED <<rows, req, seen>>

\* (Faulty variant: the code survives.)
RevokeKeepsCode(d) ==
  /\ Registered(d)
  /\ revoked' = revoked \union {d}
  /\ UNCHANGED <<token_hash, deleted_devices, enrollments, rows, req, owner, seen>>

\* Revoking also withdraws the pending code; it is accepted for a revoked
\* id and for a deleted one.
Revoke(d) ==
  /\ Registered(d)
  /\ revoked' = revoked \union {d}
  /\ enrollments' = [enrollments EXCEPT ![d] = "none"]
  /\ UNCHANGED <<token_hash, deleted_devices, rows, req, owner, seen>>

MarkOutlived(d) ==
  req' = [r \in Slot |->
            IF req[r].pc = "granted" /\ req[r].device = d
            THEN [req[r] EXCEPT !.outlived = TRUE] ELSE req[r]]

\* (Faulty variant: the alerts are forgotten.)
DeleteKeepsEvents(d) ==
  /\ Registered(d) /\ d \notin deleted_devices
  /\ d \in revoked
  /\ deleted_devices' = deleted_devices \union {d}
  /\ rows' = [t \in Table |-> IF t = "disk_events" THEN rows[t] ELSE rows[t] \ {d}]
  /\ enrollments' = [enrollments EXCEPT ![d] = "none"]
  /\ MarkOutlived(d)
  /\ UNCHANGED <<token_hash, revoked, owner, seen>>

\* The transaction that leaves the tombstone and removes everything else.
Delete(d) ==
  /\ Registered(d) /\ d \notin deleted_devices
  /\ d \in revoked
  /\ deleted_devices' = deleted_devices \union {d}
  /\ rows' = [t \in Table |-> rows[t] \ {d}]
  /\ enrollments' = [enrollments EXCEPT ![d] = "none"]
  /\ MarkOutlived(d)
  /\ UNCHANGED <<token_hash, revoked, owner, seen>>

-----------------------------------------------------------------------------
(***************************************************************************)
(* The uploads.                                                            *)
(***************************************************************************)

\* Is c a credential d may report with now.
Fits(c, d) ==
  IF c = Legacy THEN LegacyEnabled /\ ~Registered(d)
  ELSE token_hash[d] = c /\ d \notin revoked

\* A request arrives with any credential that exists.
Submit(r, kind, d, c) ==
  /\ req[r] = Idle
  /\ c \in Token => owner[c] # NoDevice
  /\ req' = [req EXCEPT ![r] =
               [pc |-> "authorized", kind |-> kind, device |-> d, cred |-> c,
                stale |-> ~Fits(c, d), outlived |-> FALSE]]
  /\ UNCHANGED <<identity, rows>>

GoTo(r, pc) == req' = [req EXCEPT ![r].pc = pc]

\* The answer is sent; nothing of the request is left.
Answer(r) == req' = [req EXCEPT ![r] = Idle]

\* authorized(r): before the body is read, any device's token will do.
Authorize(r) ==
  /\ req[r].pc = "authorized"
  /\ IF \/ \E d \in Device : token_hash[d] = req[r].cred /\ d \notin revoked
        \/ LegacyEnabled /\ req[r].cred = Legacy
     THEN GoTo(r, "authorizedFor")
     ELSE Answer(r)
  /\ UNCHANGED <<identity, rows>>

\* authorizedFor(r, id), first query: the token of this very device.
AuthorizeFor(r) ==
  /\ req[r].pc = "authorizedFor"
  /\ LET d == req[r].device IN
     IF token_hash[d] = req[r].cred /\ d \notin revoked
     THEN GoTo(r, "granted")
     ELSE GoTo(r, "fallback")
  /\ UNCHANGED <<identity, rows>>

\* (Faulty variant: the shared token serves every id.)
FallbackForAll(r) ==
  /\ req[r].pc = "fallback"
  /\ IF LegacyEnabled /\ req[r].cred = Legacy
     THEN GoTo(r, "granted")
     ELSE Answer(r)
  /\ UNCHANGED <<identity, rows>>

\* authorizedFor(r, id), second query: the shared token serves an id that
\* was never registered.
Fallback(r) ==
  /\ req[r].pc = "fallback"
  /\ IF ~Registered(req[r].device) /\ LegacyEnabled /\ req[r].cred = Legacy
     THEN GoTo(r, "granted")
     ELSE Answer(r)
  /\ UNCHANGED <<identity, rows>>

\* The tables a report of kind k adds to.  A snapshot raises growth events
\* only against an earlier one.
Written(k, d) ==
  IF k = "heartbeat" THEN {{"servers", "metric_samples"}}
  ELSE {{"disk_snapshots"}} \union
       (IF d \in rows["disk_snapshots"]
        THEN {{"disk_snapshots", "disk_events"}} ELSE {})

Write(k, d) ==
  \E W \in Written(k, d) :
    rows' = [t \in Table |-> IF t \in W THEN rows[t] \union {d} ELSE rows[t]]

\* (Faulty variant: the transaction does not look for a tombstone.)
StoreBlindly(r) ==
  /\ req[r].pc = "granted"
  /\ Write(req[r].kind, req[r].device)
  /\ Answer(r)
  /\ UNCHANGED identity

\* Upsert or SaveDiskEvents: one transaction, refused for a tombstoned id.
Store(r) ==
  /\ req[r].pc = "granted"
  /\ IF req[r].device \in deleted_devices
     THEN rows' = rows
     ELSE Write(req[r].kind, req[r].device)
  /\ Answer(r)
  /\ UNCHANGED identity

\* The body does not validate, the client goes away or the database fails:
\* the open transaction, if any, is rolled back.
Abort(r) ==
  /\ req[r] # Idle
  /\ Answer(r)
  /\ UNCHANGED <<identity, rows>>

-----------------------------------------------------------------------------
\* A retention batch, one transaction over the three tables that age: the
\* last old rows of some ids go.
Cleanup ==
  /\ \E samples \in SUBSET rows["metric_samples"],
        snapshots \in SUBSET rows["disk_snapshots"],
        events \in SUBSET rows["disk_events"] :
       rows' = [rows EXCEPT !["metric_samples"] = samples,
                            !["disk_snapshots"] = snapshots,
                            !["disk_events"] = events]
  /\ UNCHANGED <<identity, req>>

\* The hub stops, or is killed, and starts again on the same database.
Restart ==
  /\ req' = [r \in Slot |-> Idle]
  /\ UNCHANGED <<identity, rows>>

Serve(r) == Authorize(r) \/ AuthorizeFor(r) \/ Fallback(r) \/ Store(r)

Next ==
  \/ \E d \in Device : Enroll(d) \/ Expire(d) \/ Register(d) \/ Revoke(d) \/ Delete(d)
  \/ \E r \in Slot, k \in Kind, d \in Device, c \in Credential :
       Submit(r, k, d, c)
  \/ \E r \in Slot : Serve(r) \/ Abort(r)
  \/ Cleanup
  \/ Restart

\* A handler that was started runs to its answer; nothing else is promised.
Fairness == \A r \in Slot : WF_vars(Serve(r))

Spec == Init /\ [][Next]_vars /\ Fairness

-----------------------------------------------------------------------------
(***************************************************************************)
(* Properties.                                                             *)
(***************************************************************************)

\* A tombstone means that nothing is kept: while an id is deleted, no table
\* has a row of it, whatever uploads were past their checks when it was
\* deleted (device_delete.go and the re-checks in Upsert, SaveDiskEvents).
TombstoneErasesHistory == \A d \in deleted_devices : ~HasRows(d)

\* A deleted id keeps a revoked credential row, which is what stops both its
\* last token and the shared token from reporting for it again.
DeletedStaysRevoked ==
  \A d \in deleted_devices : Registered(d) /\ d \in revoked

\* A report whose credential was not good for the device when the report
\* came - revoked, superseded, of another device, or the shared token of a
\* registered id - is never let through, whatever happens while it is served.
StaleReportRefused ==
  \A r \in Slot : req[r].pc = "granted" => ~req[r].stale

\* A pending code answers to the device as the administrator saw it: every
\* revocation, deletion and registration of the id has withdrawn the code
\* issued before it, so that redeeming can undo only what was known then.
CodeMatchesDevice ==
  \A d \in Device : enrollments[d] # "none" => seen[d] = StateOf(d)

\* A token that stopped being good for its device never becomes good again:
\* revocation is undone by a new token only.
DeadTokensStayDead ==
  [][\A d \in Device, t \in Token :
       owner[t] # NoDevice /\ ~Fits(t, d) => ~Fits(t, d)']_vars

\* Once a device stays revoked, uploads for it dry up: no request for it is
\* left between its grant and its write.
RevocationTakesEffect ==
  \A d \in Device :
    <>[](d \in revoked)
      => <>[](\A r \in Slot : req[r].pc = "granted" => req[r].device # d)

\* The documentation's promise for deletion: a request that was past its
\* checks when its device was deleted writes nothing.  docs/DEVICE-DELETION.md
LateReportDropped ==
  [][\A r \in Slot :
       req[r].pc = "granted" /\ req'[r] = Idle =>
         (req[r].outlived => \A t \in Table : rows'[t] \subseteq rows[t])]_vars

\* The status of an id as the device list and the refusals show it.
Status(d) ==
  CASE d \in deleted_devices -> "deleted"
    [] d \in revoked \ deleted_devices -> "revoked"
    [] OTHER -> IF Registered(d) THEN "active" ELSE "unknown"

Lifecycle == INSTANCE DeviceLifecycle WITH
  status <- [d \in Device |-> Status(d)],
  history <- {d \in Device : HasRows(d)},
  invited <- {d \in Device : enrollments[d] # "none"}

\* What an administrator is promised of a device's life (activation only by
\* invitation, deletion only after revocation, no history while deleted) is
\* what the tables and the racing handlers implement.
ImplementsLifecycle == Lifecycle!Spec
=============================================================================
