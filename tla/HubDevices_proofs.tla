-------------------------- MODULE HubDevices_proofs --------------------------
(***************************************************************************)
(* What HubDevices guarantees for any number of devices, tokens and        *)
(* concurrent requests.                                                    *)
(***************************************************************************)
EXTENDS HubDevices, TLAPS

\* A token in use was issued to the device that uses it.
OwnedTokens == \A d \in Device : Registered(d) => owner[token_hash[d]] = d

\* A request carries a credential that existed when it came.
IssuedCredentials ==
  \A r \in Slot :
    req[r] # Idle => (req[r].cred \in Token => owner[req[r].cred] # NoDevice)

\* What is stale stays stale: the reason a stale request is never granted.
StaleStays ==
  \A r \in Slot : req[r] # Idle /\ req[r].stale => ~Fits(req[r].cred, req[r].device)

\* The inductive invariant of the credentials.
CredentialInv == TypeOK /\ OwnedTokens /\ IssuedCredentials /\ StaleStays

-----------------------------------------------------------------------------
LEMMA IdleIsNoUpload == Idle \notin Upload /\ \A u \in Upload : u.pc # "idle"
  BY DEF Idle, Upload

LEMMA InitType == Init => TypeOK
  BY DistinctValues DEF Init, TypeOK, DeviceState, StateOf, Table

\* Each step of the specification keeps the types.
LEMMA NextType == TypeOK /\ [Next]_vars => TypeOK'
<1> SUFFICES ASSUME TypeOK, [Next]_vars PROVE TypeOK'
  OBVIOUS
<1> USE DistinctValues
<1>1. ASSUME NEW d \in Device, Enroll(d) PROVE TypeOK'
  BY <1>1 DEF TypeOK, Enroll, StateOf, DeviceState
<1>2. ASSUME NEW d \in Device, Expire(d) PROVE TypeOK'
  BY <1>2 DEF TypeOK, Expire
<1>3. ASSUME NEW d \in Device, Register(d) PROVE TypeOK'
  BY <1>3 DEF TypeOK, Register
<1>4. ASSUME NEW d \in Device, Revoke(d) PROVE TypeOK'
  BY <1>4 DEF TypeOK, Revoke, Registered
<1>5. ASSUME NEW d \in Device, Delete(d) PROVE TypeOK'
  <2>1. req' \in [Slot -> Upload \union {Idle}]
    <3>1. ASSUME NEW r \in Slot PROVE req'[r] \in Upload \union {Idle}
      <4>1. CASE req[r] \in Upload
        BY <1>5, <4>1 DEF TypeOK, Delete, MarkOutlived, Upload
      <4>2. CASE req[r] = Idle
        BY <1>5, <4>2 DEF TypeOK, Delete, MarkOutlived, Idle
      <4> QED BY <4>1, <4>2 DEF TypeOK
    <3> QED BY <1>5, <3>1 DEF Delete, MarkOutlived
  <2>2. rows' \in [Table -> SUBSET Device] /\ rows'["metric_samples"] \subseteq rows'["servers"]
    BY <1>5 DEF TypeOK, Delete, Table
  <2> QED BY <1>5, <2>1, <2>2 DEF TypeOK, Delete
<1>6. ASSUME NEW r \in Slot, NEW k \in Kind, NEW d \in Device, NEW c \in Credential,
             Submit(r, k, d, c)
      PROVE TypeOK'
  <2>1. Fits(c, d) \in BOOLEAN
    BY DEF Fits, Registered
  <2> QED BY <1>6, <2>1 DEF TypeOK, Submit, Upload, identity, Credential
<1>7. ASSUME NEW r \in Slot, Serve(r) \/ Abort(r) PROVE TypeOK'
  <2>1. req' \in [Slot -> Upload \union {Idle}]
    BY <1>7 DEF TypeOK, Serve, Abort, Authorize, AuthorizeFor, Fallback, Store, GoTo,
                Answer, Upload, Idle
  <2>2. rows' \in [Table -> SUBSET Device] /\ rows'["metric_samples"] \subseteq rows'["servers"]
    BY <1>7 DEF TypeOK, Serve, Abort, Authorize, AuthorizeFor, Fallback, Store, Write,
                Written, Table, Upload, Idle
  <2> QED
    BY <1>7, <2>1, <2>2 DEF TypeOK, Serve, Abort, Authorize, AuthorizeFor, Fallback, Store,
                            identity
<1>8. CASE Cleanup
  BY <1>8 DEF TypeOK, Cleanup, Table, identity
<1>9. CASE Restart
  BY <1>9 DEF TypeOK, Restart, identity
<1>10. CASE UNCHANGED vars
  BY <1>10 DEF TypeOK, vars
<1> QED
  BY <1>1, <1>2, <1>3, <1>4, <1>5, <1>6, <1>7, <1>8, <1>9, <1>10 DEF Next

\* Type correctness: every table keeps its shape and its constraints.
THEOREM TypeCorrect == Spec => []TypeOK
  BY InitType, NextType, PTL DEF Spec

-----------------------------------------------------------------------------
(***************************************************************************)
(* Credentials.  Tokens are issued once, so an id's token can only be      *)
(* replaced by one no request can yet carry; and nothing removes a         *)
(* devices row.  Hence a credential that is not good for an id stays so.   *)
(***************************************************************************)
LEMMA InitCredential == Init => CredentialInv
  BY InitType DEF Init, CredentialInv, OwnedTokens, IssuedCredentials, StaleStays, Registered,
                  Idle

\* A step never makes a credential good again that existed and was not good.
LEMMA UnfitStaysUnfit ==
  ASSUME CredentialInv, [Next]_vars, NEW d \in Device, NEW c \in Credential,
         c \in Token => owner[c] # NoDevice, ~Fits(c, d)
  PROVE  ~Fits(c, d)'
<1> USE DistinctValues DEF CredentialInv, TypeOK
<1>1. CASE c = Legacy
  <2>1. (Registered(d) => Registered(d)')
    BY DEF Next, Enroll, Expire, Register, Revoke, Delete, Submit, Serve, Abort, Authorize,
           AuthorizeFor, Fallback, Store, Cleanup, Restart, identity, vars, Registered
  <2> QED BY <1>1, <2>1 DEF Fits
<1>2. CASE c \in Token
  <2>1. ASSUME NEW e \in Device, Register(e) PROVE ~Fits(c, d)'
    <3>1. PICK t \in Token : owner[t] = NoDevice /\ token_hash' = [token_hash EXCEPT ![e] = t]
      BY <2>1 DEF Register
    <3>2. c # t
      BY <1>2, <3>1
    <3> QED BY <1>2, <2>1, <3>1, <3>2 DEF Fits, Register
  <2>2. ASSUME NEW e \in Device, Enroll(e) \/ Expire(e) \/ Revoke(e) \/ Delete(e)
        PROVE ~Fits(c, d)'
    BY <1>2, <2>2 DEF Fits, Enroll, Expire, Revoke, Delete
  <2>3. CASE UNCHANGED <<token_hash, revoked>>
    BY <1>2, <2>3 DEF Fits
  <2>4. ASSUME NEW r \in Slot, Serve(r) \/ Abort(r) PROVE UNCHANGED <<token_hash, revoked>>
    BY <2>4 DEF Serve, Abort, Authorize, AuthorizeFor, Fallback, Store, identity
  <2>5. ASSUME NEW r \in Slot, NEW k \in Kind, NEW e \in Device, NEW b \in Credential,
               Submit(r, k, e, b)
        PROVE UNCHANGED <<token_hash, revoked>>
    BY <2>5 DEF Submit, identity
  <2>6. Cleanup \/ Restart \/ UNCHANGED vars
          => UNCHANGED <<token_hash, revoked>>
    BY DEF Cleanup, Restart, identity, vars
  <2> QED BY <2>1, <2>2, <2>3, <2>4, <2>5, <2>6 DEF Next
<1> QED BY <1>1, <1>2 DEF Credential

\* An issued token stays issued to the same device.
LEMMA OwnersStay ==
  ASSUME TypeOK, [Next]_vars, NEW t \in Token, owner[t] # NoDevice
  PROVE  owner'[t] = owner[t]
<1>1. ASSUME NEW d \in Device, Register(d) PROVE owner'[t] = owner[t]
  BY <1>1 DEF Register, TypeOK
<1>2. (\A d \in Device : ~Register(d)) => owner' = owner
  BY DEF Next, Enroll, Expire, Revoke, Delete, Submit, Serve, Abort, Authorize,
         AuthorizeFor, Fallback, Store, Cleanup, Restart, identity, vars
<1> QED BY <1>1, <1>2

\* A request keeps its device, its credential and its stale mark until it is
\* answered; one that begins carries a credential that exists.
LEMMA RequestsKeep ==
  ASSUME TypeOK, [Next]_vars, NEW r \in Slot, req'[r] # Idle
  PROVE  \/ /\ req[r] # Idle
            /\ req'[r].device = req[r].device
            /\ req'[r].cred = req[r].cred
            /\ req'[r].stale = req[r].stale
         \/ /\ req[r] = Idle
            /\ req'[r].device \in Device
            /\ req'[r].cred \in Credential
            /\ req'[r].cred \in Token => owner[req'[r].cred] # NoDevice
            /\ req'[r].stale = ~Fits(req'[r].cred, req'[r].device)
            /\ req'[r].pc = "authorized"
            /\ UNCHANGED identity
<1> USE DEF TypeOK
<1> DEFINE Kept == /\ req[r] # Idle
                   /\ req'[r].device = req[r].device
                   /\ req'[r].cred = req[r].cred
                   /\ req'[r].stale = req[r].stale
<1>1. CASE req' = req
  BY <1>1
<1>2. ASSUME NEW d \in Device, Delete(d) PROVE Kept
  <2>1. req[r] \in Upload
    <3>1. CASE req[r] = Idle
      BY <1>2, <3>1 DEF Delete, MarkOutlived, Idle
    <3> QED BY <3>1
  <2> QED BY <1>2, <2>1 DEF Delete, MarkOutlived, Upload, Idle
<1>3. ASSUME NEW s \in Slot, NEW k \in Kind, NEW d \in Device, NEW c \in Credential,
             Submit(s, k, d, c), s = r
      PROVE /\ req[r] = Idle
            /\ req'[r].device \in Device
            /\ req'[r].cred \in Credential
            /\ req'[r].cred \in Token => owner[req'[r].cred] # NoDevice
            /\ req'[r].stale = ~Fits(req'[r].cred, req'[r].device)
            /\ req'[r].pc = "authorized"
            /\ UNCHANGED identity
  <2>1. req'[r] = [pc |-> "authorized", kind |-> k, device |-> d, cred |-> c,
                   stale |-> ~Fits(c, d), outlived |-> FALSE]
    BY <1>3 DEF Submit
  <2> QED BY <1>3, <2>1 DEF Submit
<1>4. ASSUME NEW s \in Slot, NEW k \in Kind, NEW d \in Device, NEW c \in Credential,
             Submit(s, k, d, c), s # r
      PROVE Kept
  BY <1>4 DEF Submit
<1>5. ASSUME NEW s \in Slot, Serve(s) \/ Abort(s) PROVE Kept
  <2>1. CASE s # r
    BY <1>5, <2>1 DEF Serve, Abort, Authorize, AuthorizeFor, Fallback, Store, GoTo, Answer
  <2>2. CASE s = r
    <3>1. req[r] \in Upload
      BY <1>5, <2>2 DEF Serve, Abort, Authorize, AuthorizeFor, Fallback, Store, Idle
    <3>2. PICK pc : GoTo(r, pc)
      BY <1>5, <2>2 DEF Serve, Abort, Authorize, AuthorizeFor, Fallback, Store, Answer
    <3> QED BY <3>1, <3>2 DEF GoTo, Upload, Idle
  <2> QED BY <2>1, <2>2
<1>6. ASSUME NEW d \in Device, Enroll(d) \/ Expire(d) \/ Register(d) \/ Revoke(d)
      PROVE req' = req
  BY <1>6 DEF Enroll, Expire, Register, Revoke
<1>7. Cleanup \/ UNCHANGED vars => req' = req
  BY DEF Cleanup, vars
<1>8. ~Restart
  BY DEF Restart
<1> QED BY <1>1, <1>2, <1>3, <1>4, <1>5, <1>6, <1>7, <1>8 DEF Next

LEMMA NextCredential == CredentialInv /\ [Next]_vars => CredentialInv'
<1> SUFFICES ASSUME CredentialInv, [Next]_vars PROVE CredentialInv'
  OBVIOUS
<1>1. TypeOK /\ TypeOK'
  BY NextType DEF CredentialInv
<1>2. OwnedTokens'
  <2> SUFFICES ASSUME NEW d \in Device, Registered(d)' PROVE owner'[token_hash'[d]] = d
    BY DEF OwnedTokens
  <2>1. ASSUME NEW e \in Device, Register(e), d = e PROVE owner'[token_hash'[d]] = d
    BY <1>1, <2>1 DEF Register, TypeOK
  <2>2. CASE token_hash'[d] = token_hash[d]
    <3>1. owner[token_hash[d]] = d /\ token_hash[d] \in Token
      BY <1>1, <2>2 DEF CredentialInv, OwnedTokens, TypeOK, Registered
    <3> QED BY <1>1, <2>2, <3>1, OwnersStay, DistinctValues
  <2>3. (\A e \in Device : ~(Register(e) /\ d = e)) => token_hash'[d] = token_hash[d]
    BY <1>1 DEF TypeOK, Next, Enroll, Expire, Register, Revoke, Delete, Submit, Serve, Abort,
           Authorize, AuthorizeFor, Fallback, Store, Cleanup, Restart, identity, vars
  <2> QED BY <2>1, <2>2, <2>3
<1>3. IssuedCredentials'
  <2> SUFFICES ASSUME NEW r \in Slot, req'[r] # Idle, req'[r].cred \in Token
               PROVE  owner'[req'[r].cred] # NoDevice
    BY DEF IssuedCredentials
  <2>1. owner[req'[r].cred] # NoDevice
    BY <1>1, RequestsKeep DEF CredentialInv, IssuedCredentials
  <2> QED BY <1>1, <2>1, OwnersStay
<1>4. StaleStays'
  <2> SUFFICES ASSUME NEW r \in Slot, req'[r] # Idle, req'[r].stale
               PROVE  ~Fits(req[r].cred, req[r].device)'
    BY DEF StaleStays
  <2>1. /\ ~Fits(req'[r].cred, req'[r].device)
        /\ req'[r].cred \in Token => owner[req'[r].cred] # NoDevice
    BY <1>1, RequestsKeep DEF CredentialInv, IssuedCredentials, StaleStays
  <2>2. req'[r].device \in Device /\ req'[r].cred \in Credential
    BY <1>1 DEF TypeOK, Upload
  <2>3. ASSUME NEW d \in Device, NEW c \in Credential, ~Fits(c, d),
               c \in Token => owner[c] # NoDevice
        PROVE ~Fits(c, d)'
    BY <2>3, UnfitStaysUnfit
  <2> QED BY <2>1, <2>2, <2>3 DEF Fits, Registered
<1> QED BY <1>1, <1>2, <1>3, <1>4 DEF CredentialInv

LEMMA CredentialCorrect == Spec => []CredentialInv
  BY InitCredential, NextCredential, PTL DEF Spec

-----------------------------------------------------------------------------
\* No upload whose credential was not good on arrival is let through: the
\* grant tests the very condition that a stale credential fails for ever.
THEOREM StaleRefused == Spec => []StaleReportRefused
<1>1. Init => StaleReportRefused
  BY DEF Init, StaleReportRefused, Idle
<1>2. CredentialInv /\ StaleReportRefused /\ [Next]_vars => StaleReportRefused'
  <2> SUFFICES ASSUME CredentialInv, StaleReportRefused, [Next]_vars,
                      NEW r \in Slot, req'[r].pc = "granted", req'[r].stale
               PROVE  FALSE
    BY DEF StaleReportRefused
  <2> USE DEF CredentialInv, TypeOK
  <2>1. req'[r] # Idle
    BY DEF Idle
  <2>2. /\ req[r] # Idle /\ req[r].stale
        /\ req[r].device = req'[r].device /\ req[r].cred = req'[r].cred
    BY <2>1, RequestsKeep
  <2>3. ~Fits(req[r].cred, req[r].device) /\ req[r].pc # "granted"
    BY <2>2 DEF StaleStays, StaleReportRefused
  <2>4. req[r] \in Upload
    BY <2>2
  <2>5. AuthorizeFor(r) \/ Fallback(r)
    <3>1. ASSUME NEW s \in Slot, Serve(s) \/ Abort(s) PROVE AuthorizeFor(r) \/ Fallback(r)
      BY <2>1, <2>3, <2>4, <3>1 DEF Serve, Abort, Authorize, AuthorizeFor, Fallback, Store,
                              GoTo, Answer, Idle, Upload
    <3>2. ASSUME NEW s \in Slot, NEW k \in Kind, NEW d \in Device, NEW c \in Credential,
                 Submit(s, k, d, c)
          PROVE FALSE
      BY <2>1, <2>2, <2>3, <3>2 DEF Submit
    <3>3. ASSUME NEW d \in Device, Delete(d) PROVE FALSE
      BY <2>3, <2>4, <3>3 DEF Delete, MarkOutlived, Upload
    <3>4. (\E d \in Device : Enroll(d) \/ Expire(d) \/ Register(d) \/ Revoke(d))
            \/ Cleanup \/ UNCHANGED vars => req' = req
      BY DEF Enroll, Expire, Register, Revoke, Cleanup, vars
    <3> QED BY <2>1, <2>3, <3>1, <3>2, <3>3, <3>4 DEF Next, Restart
  <2>6. Fits(req[r].cred, req[r].device)
    BY <2>4, <2>5, DistinctValues DEF AuthorizeFor, Fallback, GoTo, Answer, Fits, Upload, Idle,
                      Credential
  <2> QED BY <2>3, <2>6
<1> QED BY <1>1, <1>2, CredentialCorrect, PTL DEF Spec

\* Revocation and re-registration kill a token for good.
THEOREM DeadTokens == Spec => DeadTokensStayDead
<1>1. CredentialInv /\ [Next]_vars =>
        [\A d \in Device, t \in Token :
           owner[t] # NoDevice /\ ~Fits(t, d) => ~Fits(t, d)']_vars
  BY UnfitStaysUnfit DEF Credential
<1> QED BY <1>1, CredentialCorrect, PTL DEF Spec, DeadTokensStayDead

-----------------------------------------------------------------------------
(***************************************************************************)
(* The life of a device.  These invariants support each other: a device is *)
(* deleted only while revoked, so its tombstone is set together with the   *)
(* removal of its rows, and the writers' look at the tombstone keeps them  *)
(* out until registration lifts it.                                        *)
(***************************************************************************)
LifeInv ==
  /\ TypeOK
  /\ DeletedStaysRevoked
  /\ TombstoneErasesHistory
  /\ CodeMatchesDevice

LEMMA InitLife == Init => LifeInv
  BY InitType DEF Init, LifeInv, DeletedStaysRevoked, TombstoneErasesHistory,
                  CodeMatchesDevice

\* Steps that are none of the administrator's leave the identity tables.
LEMMA ServingKeepsIdentity ==
  ASSUME NEW r \in Slot, Serve(r) \/ Abort(r)
  PROVE  UNCHANGED identity
  BY DEF Serve, Abort, Authorize, AuthorizeFor, Fallback, Store

\* What a served request may add to the tables: rows of its own device, and
\* only if that is not deleted.
LEMMA ServingRows ==
  ASSUME TypeOK, NEW r \in Slot, Serve(r) \/ Abort(r), NEW d \in Device, HasRows(d)'
  PROVE  HasRows(d) \/ (d = req[r].device /\ d \notin deleted_devices)
<1>1. CASE rows' = rows
  BY <1>1 DEF HasRows
<1>2. CASE rows' # rows
  <2>1. Write(req[r].kind, req[r].device) /\ req[r].device \notin deleted_devices
    BY <1>2 DEF Serve, Abort, Authorize, AuthorizeFor, Fallback, Store
  <2>2. PICK W : rows' = [t \in Table |->
                            IF t \in W THEN rows[t] \union {req[r].device} ELSE rows[t]]
    BY <2>1 DEF Write
  <2> QED BY <2>1, <2>2 DEF HasRows, TypeOK
<1> QED BY <1>1, <1>2

LEMMA NextLife == LifeInv /\ [Next]_vars => LifeInv'
<1> SUFFICES ASSUME LifeInv, [Next]_vars PROVE LifeInv'
  OBVIOUS
<1> USE DistinctValues
<1>1. TypeOK /\ TypeOK'
  BY NextType DEF LifeInv
<1> DEFINE Rest == DeletedStaysRevoked' /\ TombstoneErasesHistory' /\ CodeMatchesDevice'
<1>2. ASSUME NEW d \in Device, Enroll(d) PROVE Rest
  BY <1>1, <1>2 DEF Enroll, LifeInv, TypeOK, DeletedStaysRevoked, TombstoneErasesHistory,
                    CodeMatchesDevice, HasRows, Registered, StateOf
<1>3. ASSUME NEW d \in Device, Expire(d) PROVE Rest
  BY <1>1, <1>3 DEF Expire, LifeInv, TypeOK, DeletedStaysRevoked, TombstoneErasesHistory,
                    CodeMatchesDevice, HasRows, Registered, StateOf
<1>4. ASSUME NEW d \in Device, Register(d) PROVE Rest
  <2>1. \A e \in Device : e # d => (StateOf(e)' = StateOf(e) /\ (Registered(e)' <=> Registered(e)))
    BY <1>1, <1>4 DEF Register, TypeOK, StateOf, Registered
  <2>2. DeletedStaysRevoked'
    BY <1>1, <1>4, <2>1 DEF Register, LifeInv, TypeOK, DeletedStaysRevoked
  <2>3. TombstoneErasesHistory'
    BY <1>4 DEF Register, LifeInv, TombstoneErasesHistory, HasRows
  <2>4. CodeMatchesDevice'
    BY <1>1, <1>4, <2>1 DEF Register, LifeInv, TypeOK, CodeMatchesDevice
  <2> QED BY <2>2, <2>3, <2>4
<1>5. ASSUME NEW d \in Device, Revoke(d) PROVE Rest
  <2>1. CodeMatchesDevice'
    BY <1>1, <1>5 DEF Revoke, LifeInv, TypeOK, CodeMatchesDevice, StateOf
  <2> QED
    BY <1>1, <1>5, <2>1 DEF Revoke, LifeInv, DeletedStaysRevoked, TombstoneErasesHistory,
                            HasRows, Registered
<1>6. ASSUME NEW d \in Device, Delete(d) PROVE Rest
  <2>1. CodeMatchesDevice'
    BY <1>1, <1>6 DEF Delete, LifeInv, TypeOK, CodeMatchesDevice, StateOf
  <2>2. TombstoneErasesHistory'
    BY <1>1, <1>6 DEF Delete, LifeInv, TypeOK, TombstoneErasesHistory, HasRows
  <2> QED
    BY <1>1, <1>6, <2>1, <2>2 DEF Delete, LifeInv, DeletedStaysRevoked, Registered
<1>7. ASSUME UNCHANGED identity, \A d \in Device : HasRows(d)' => HasRows(d) \/ d \notin deleted_devices
      PROVE Rest
  BY <1>1, <1>7 DEF identity, LifeInv, TypeOK, DeletedStaysRevoked, TombstoneErasesHistory,
                    CodeMatchesDevice, Registered, StateOf
<1>8. ASSUME NEW r \in Slot, Serve(r) \/ Abort(r) PROVE Rest
  BY <1>1, <1>7, <1>8, ServingKeepsIdentity, ServingRows
<1>9. ASSUME NEW r \in Slot, NEW k \in Kind, NEW d \in Device, NEW c \in Credential,
             Submit(r, k, d, c)
      PROVE Rest
  BY <1>7, <1>9 DEF Submit, HasRows
<1>10. ASSUME Cleanup PROVE Rest
  BY <1>1, <1>7, <1>10 DEF Cleanup, HasRows, TypeOK
<1>11. Restart \/ UNCHANGED vars => Rest
  BY <1>7 DEF Restart, vars, identity, HasRows
<1> QED
  BY <1>1, <1>2, <1>3, <1>4, <1>5, <1>6, <1>8, <1>9, <1>10, <1>11 DEF Next, LifeInv

LEMMA LifeCorrect == Spec => []LifeInv
  BY InitLife, NextLife, PTL DEF Spec

\* While an id is tombstoned the database keeps nothing else of it.
THEOREM TombstoneErases == Spec => []TombstoneErasesHistory
  BY LifeCorrect, PTL DEF LifeInv

\* A tombstone always stands on a revoked credential row.
THEOREM DeletedRevoked == Spec => []DeletedStaysRevoked
  BY LifeCorrect, PTL DEF LifeInv

\* A pending code was issued for the device as it is now.
THEOREM CodesMatch == Spec => []CodeMatchesDevice
  BY LifeCorrect, PTL DEF LifeInv

-----------------------------------------------------------------------------
(***************************************************************************)
(* The tables implement DeviceLifecycle.                                   *)
(***************************************************************************)
LEMMA InitMaps == Init => Lifecycle!Init
  BY DEF Init, Lifecycle!Init, Status, Registered, HasRows

\* A step that leaves the identity tables leaves what an id shows.
LEMMA IdentityShows ==
  ASSUME UNCHANGED identity
  PROVE  /\ \A d \in Device : Status(d)' = Status(d)
         /\ UNCHANGED enrollments
  BY DEF identity, Status, Registered

\* Every step of the hub is a step of the lifecycle, or none.
LEMMA NextMaps == LifeInv /\ [Next]_vars => [Lifecycle!Next]_(Lifecycle!vars)
<1> SUFFICES ASSUME LifeInv, [Next]_vars
             PROVE  Lifecycle!Next \/ UNCHANGED Lifecycle!vars
  OBVIOUS
<1> USE DistinctValues DEF LifeInv, TypeOK
<1>1. ASSUME NEW d \in Device, Enroll(d) PROVE Lifecycle!Invite(d)
  BY <1>1 DEF Enroll, Lifecycle!Invite, Status, Registered, HasRows
<1>2. ASSUME NEW d \in Device, Expire(d) PROVE UNCHANGED Lifecycle!vars
  BY <1>2 DEF Expire, Lifecycle!vars, Status, Registered, HasRows
<1>3. ASSUME NEW d \in Device, Register(d) PROVE Lifecycle!Activate(d)
  <2>1. \A e \in Device : Status(e)' = IF e = d THEN "active" ELSE Status(e)
    BY <1>3 DEF Register, Status, Registered
  <2>2. UNCHANGED rows
    BY <1>3 DEF Register
  <2>3. /\ d \in {e \in Device : enrollments[e] # "none"}
        /\ {e \in Device : enrollments'[e] # "none"}
             = {e \in Device : enrollments[e] # "none"} \ {d}
    BY <1>3 DEF Register
  <2>4. [e \in Device |-> Status(e)]' = [[e \in Device |-> Status(e)] EXCEPT ![d] = "active"]
    BY <2>1
  <2> QED
    BY <2>2, <2>3, <2>4 DEF Lifecycle!Activate, HasRows
<1>4. ASSUME NEW d \in Device, Revoke(d) PROVE Lifecycle!Withdraw(d)
  <2>1. \A e \in Device : Status(e)' =
          IF e = d THEN IF Status(d) = "deleted" THEN "deleted" ELSE "revoked" ELSE Status(e)
    BY <1>4 DEF Revoke, Status, Registered
  <2>2. Status(d) # "unknown"
    BY <1>4 DEF Revoke, Status
  <2> QED
    BY <1>4, <2>1, <2>2 DEF Revoke, Lifecycle!Withdraw, HasRows
<1>5. ASSUME NEW d \in Device, Delete(d) PROVE Lifecycle!Erase(d)
  <2>1. \A e \in Device : Status(e)' = IF e = d THEN "deleted" ELSE Status(e)
    BY <1>5 DEF Delete, Status, Registered
  <2>2. Status(d) = "revoked"
    BY <1>5 DEF Delete, Status
  <2>3. \A e \in Device : HasRows(e)' <=> HasRows(e) /\ e # d
    BY <1>5 DEF Delete, HasRows
  <2> QED
    BY <1>5, <2>1, <2>2, <2>3 DEF Delete, Lifecycle!Erase
<1>6. ASSUME UNCHANGED <<identity, rows>> PROVE UNCHANGED Lifecycle!vars
  BY <1>6, IdentityShows DEF Lifecycle!vars, HasRows, identity
<1>7. ASSUME NEW r \in Slot, Serve(r) \/ Abort(r)
      PROVE Lifecycle!Next \/ UNCHANGED Lifecycle!vars
  <2>1. UNCHANGED identity
    BY <1>7, ServingKeepsIdentity
  <2>2. CASE UNCHANGED rows
    BY <1>6, <2>1, <2>2
  <2>3. CASE rows' # rows
    <3>1. /\ req[r].pc = "granted"
          /\ Write(req[r].kind, req[r].device) /\ req[r].device \notin deleted_devices
      BY <1>7, <2>3 DEF Serve, Abort, Authorize, AuthorizeFor, Fallback, Store
    <3>2. req[r].device \in Device
      BY <3>1 DEF Upload, Idle
    <3>3. PICK W \in Written(req[r].kind, req[r].device) :
            rows' = [t \in Table |-> IF t \in W THEN rows[t] \union {req[r].device} ELSE rows[t]]
      BY <3>1 DEF Write
    <3>4. W \intersect Table # {}
      BY <3>3 DEF Written, Table
    <3>5. \A e \in Device : HasRows(e)' <=> HasRows(e) \/ e = req[r].device
      BY <3>3, <3>4 DEF HasRows
    <3>6. Status(req[r].device) # "deleted"
      BY <3>1 DEF Status
    <3>7. Lifecycle!Record(req[r].device)
      BY <2>1, <3>2, <3>5, <3>6, IdentityShows DEF Lifecycle!Record, identity
    <3> QED BY <3>2, <3>7 DEF Lifecycle!Next
  <2> QED BY <2>2, <2>3
<1>8. ASSUME Cleanup PROVE Lifecycle!Age
  <2>1. \A e \in Device : HasRows(e)' => HasRows(e)
    BY <1>8 DEF Cleanup, HasRows
  <2>2. UNCHANGED identity
    BY <1>8 DEF Cleanup
  <2> DEFINE Gone == {e \in Device : HasRows(e) /\ ~HasRows(e)'}
  <2>3. {e \in Device : HasRows(e)}' = {e \in Device : HasRows(e)} \ Gone
    BY <2>1
  <2> QED BY <2>2, <2>3, IdentityShows DEF Lifecycle!Age, identity
<1>9. ASSUME NEW r \in Slot, NEW k \in Kind, NEW d \in Device, NEW c \in Credential,
             Submit(r, k, d, c)
      PROVE UNCHANGED Lifecycle!vars
  BY <1>6, <1>9 DEF Submit
<1>10. Restart \/ UNCHANGED vars => UNCHANGED Lifecycle!vars
  BY <1>6 DEF Restart, vars, identity
<1> QED
  BY <1>1, <1>2, <1>3, <1>4, <1>5, <1>7, <1>8, <1>9, <1>10 DEF Next, Lifecycle!Next

\* The tables, the transactions and the racing uploads together give the
\* administrator the life of a device that DeviceLifecycle describes.
THEOREM LifecycleImplemented == Spec => ImplementsLifecycle
  BY InitMaps, NextMaps, LifeCorrect, PTL DEF Spec, ImplementsLifecycle, Lifecycle!Spec
=============================================================================
