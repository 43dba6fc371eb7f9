------------------------------ MODULE Enrollment ------------------------------
(***************************************************************************)
(* A device gets its credential: the administrator issues a one-time code, *)
(* the installer's register action asks for it and starts the enrolment    *)
(* client, the client reserves the credential file, redeems the code at the *)
(* hub and writes the token it is answered with.                           *)
(*                                                                         *)
(* The code is consumed by the hub before the token is on disk.  Answers   *)
(* may be lost, a request may reach the hub after its client has given up, *)
(* and a client may outlive the register that started it; the operator     *)
(* tries again with a new code or an old one, and may withdraw what the    *)
(* device was given.  A lock admits one register at a time, but not one    *)
(* client.  The codes are typed on this machine only.                      *)
(***************************************************************************)
EXTENDS Integers

CONSTANTS
  Code,      \* the codes the hub can draw (secret())
  NoCode,    \* no code is out
  Client,    \* enrolment clients that can live at the same time
  NoClient,  \* register waits for none
  MaxToken   \* tokens that are issued at most

ASSUME DistinctValues ==
  /\ NoCode \notin Code
  /\ NoClient \notin Client
  /\ MaxToken \in Nat

VARIABLES
  code,      \* the hub: the device's pending code
  active,    \* the hub: the token it accepts, 0 if none; tokens are numbered
  file,      \* agent.token: Absent, Empty, or the token in it
  unit,      \* the service: "absent", "written", "enabled"
  register,  \* what the installer is doing
  client,    \* the enrolment clients
  late,      \* codes in requests whose clients have given up
  drawn,     \* history: codes that were issued
  issued     \* history: tokens that were issued

vars == <<code, active, file, unit, register, client, late, drawn, issued>>
hub == <<code, active, drawn, issued>>

-----------------------------------------------------------------------------
Absent == -1
Empty == 0
HasToken == file > 0

Idle == [pc |-> "idle"]

\* linked: is the file this client opened the one at the path.
Running == [pc: {"open", "post", "answer", "sync"}, code: Code,
            token: 0..MaxToken, linked: BOOLEAN]

TypeOK ==
  /\ code \in drawn \union {NoCode} /\ drawn \subseteq Code
  /\ active \in 0..issued /\ issued \in 0..MaxToken
  /\ file \in Absent..issued
  /\ unit \in {"absent", "written", "enabled"}
  /\ register.pc \in 
       {"idle", "clear", "unlink", "look", "ask", "wait", "validate", "unit", "enable"}
  /\ register.client \in Client \union {NoClient}
  /\ client \in [Client -> Running \union {Idle}]
  /\ late \subseteq drawn
  /\ \A k \in Client : client[k] # Idle => client[k].code \in drawn /\ client[k].token <= issued
  /\ \A k, l \in Client :  \* the path has one file
       /\ client[k] # Idle /\ client[k].linked => file # Absent
       /\ client[k] # Idle /\ client[l] # Idle /\ client[k].linked /\ client[l].linked => k = l

Init ==
  /\ code = NoCode /\ active = 0
  /\ file = Absent /\ unit = "absent"
  /\ register = [pc |-> "idle", client |-> NoClient]
  /\ client = [k \in Client |-> Idle]
  /\ late = {} /\ drawn = {} /\ issued = 0

-----------------------------------------------------------------------------
(***************************************************************************)
(* The hub.                                                                *)
(***************************************************************************)
\* A new code replaces the one before it.
Issue ==
  /\ \E c \in Code \ drawn : code' = c /\ drawn' = drawn \union {c}
  /\ UNCHANGED <<active, file, unit, register, client, late, issued>>

Expire ==
  /\ code # NoCode /\ code' = NoCode
  /\ UNCHANGED <<active, file, unit, register, client, late, drawn, issued>>

\* handleRevoke, and the deletion of the device that may follow it: its token is
\* not accepted any more, and a code that is out for it goes too.
Withdraw ==
  /\ issued > 0
  /\ active' = 0 /\ code' = NoCode
  /\ UNCHANGED <<file, unit, register, client, late, drawn, issued>>

\* (Faulty variant: the code is looked up, not consumed.)
RedeemKeepingCode(c, token) ==
  \/ /\ c = code /\ issued < MaxToken
     /\ token = issued + 1
     /\ issued' = token /\ active' = token /\ UNCHANGED code
  \/ token = 0 /\ UNCHANGED <<code, active, issued>>

\* handleRegister: the token it answers with, 0 if the code is not good or the
\* transaction fails.
Redeem(c, token) ==
  \/ /\ c = code /\ issued < MaxToken
     /\ token = issued + 1
     /\ issued' = token /\ active' = token /\ code' = NoCode
  \/ token = 0 /\ UNCHANGED <<code, active, issued>>

\* A request whose client is gone is served all the same.
ServeLate ==
  /\ \E c \in late : late' = late \ {c} /\ \E t \in 0..MaxToken : Redeem(c, t)
  /\ UNCHANGED <<file, unit, register, client, drawn>>

-----------------------------------------------------------------------------
(***************************************************************************)
(* The enrolment client.                                                   *)
(***************************************************************************)
Go(k, pc) == client' = [client EXCEPT ![k].pc = pc]

\* The client ends; register learns of it if it still waits.
Exit(k, good) ==
  /\ client' = [client EXCEPT ![k] = Idle]
  /\ register' = IF register.client # k THEN register
                 ELSE [pc |-> IF good THEN "validate" ELSE "idle", client |-> NoClient]

\* The file is reserved before the code is used; O_EXCL refuses an old one.
Open(k) ==
  /\ client[k].pc = "open"
  /\ IF file = Absent
     THEN /\ file' = Empty
          /\ client' = [client EXCEPT ![k].pc = "post", ![k].linked = TRUE]
          /\ UNCHANGED register
     ELSE Exit(k, FALSE) /\ UNCHANGED file
  /\ UNCHANGED <<hub, unit, late>>

Post(k) ==
  /\ client[k].pc = "post"
  /\ \E t \in 0..MaxToken :
       /\ Redeem(client[k].code, t)
       /\ client' = [client EXCEPT ![k].pc = "answer", ![k].token = t]
  /\ UNCHANGED <<file, unit, register, late, drawn>>

\* The answer: a refusal, or the token, which goes into the file the client
\* has open, wherever that is by now.
Answer(k) ==
  /\ client[k].pc = "answer"
  /\ IF client[k].token = 0
     THEN Exit(k, FALSE) /\ UNCHANGED file
     ELSE /\ file' = IF client[k].linked THEN client[k].token ELSE file
          /\ Go(k, "sync") /\ UNCHANGED register
  /\ UNCHANGED <<hub, unit, late>>

Sync(k) ==
  /\ client[k].pc = "sync"
  /\ Exit(k, TRUE)
  /\ UNCHANGED <<hub, file, unit, late>>

\* The client times out, cannot write, or is killed; a request that was not
\* served yet may still be.
GiveUp(k) ==
  /\ client[k] # Idle
  /\ late' \in {late} \union (IF client[k].pc = "post" THEN {late \union {client[k].code}} ELSE {})
  /\ Exit(k, FALSE)
  /\ UNCHANGED <<hub, file, unit>>

-----------------------------------------------------------------------------
(***************************************************************************)
(* register.                                                               *)
(***************************************************************************)
At(pc) == register.pc = pc
GoTo(pc) == register' = [pc |-> pc, client |-> NoClient]

\* A device with a unit file is not registered again.
Begin ==
  /\ At("idle") /\ unit = "absent"
  /\ GoTo("clear")
  /\ UNCHANGED <<hub, file, unit, client, late>>

Unlinked == [k \in Client |->
               IF client[k] = Idle THEN Idle ELSE [client[k] EXCEPT !.linked = FALSE]]

\* Is it a reservation that was never filled?
Clear ==
  /\ At("clear")
  /\ GoTo(IF file = Empty THEN "unlink" ELSE "look")
  /\ UNCHANGED <<hub, file, unit, client, late>>

\* It goes - with the credential, if a client left over has filled it by now.
Unlink ==
  /\ At("unlink")
  /\ file' = Absent /\ client' = Unlinked
  /\ GoTo("look")
  /\ UNCHANGED <<hub, unit, late>>

Look ==
  /\ At("look")
  /\ GoTo(IF file = Absent THEN "ask" ELSE "validate")
  /\ UNCHANGED <<hub, file, unit, client, late>>

\* The operator types a code, perhaps one that was used before, and the client
\* is started with it.
Ask ==
  /\ At("ask")
  /\ \E k \in Client, c \in drawn :
       /\ client[k] = Idle
       /\ client' = [client EXCEPT ![k] = [pc |-> "open", code |-> c, token |-> 0, linked |-> FALSE]]
       /\ register' = [pc |-> "wait", client |-> k]
  /\ UNCHANGED <<hub, file, unit, late>>

\* (Faulty variant: it is enough that the file is there.)
ValidatePresence ==
  /\ At("validate")
  /\ GoTo(IF file # Absent THEN "unit" ELSE "idle")
  /\ UNCHANGED <<hub, file, unit, client, late>>

Validate ==
  /\ At("validate")
  /\ GoTo(IF HasToken THEN "unit" ELSE "idle")
  /\ UNCHANGED <<hub, file, unit, client, late>>

WriteUnit ==
  /\ At("unit")
  /\ unit' = "written"
  /\ GoTo("enable")
  /\ UNCHANGED <<hub, file, client, late>>

Enable ==
  /\ At("enable")
  /\ unit' = "enabled"
  /\ GoTo("idle")
  /\ UNCHANGED <<hub, file, client, late>>

\* An error, a cancellation, a kill, or the 30 seconds for the client are over:
\* register ends and the client, if it has one, is on its own.
Abandon ==
  /\ ~At("idle")
  /\ GoTo("idle")
  /\ UNCHANGED <<hub, file, unit, client, late>>

-----------------------------------------------------------------------------
Next ==
  \/ Issue \/ Expire \/ Withdraw \/ ServeLate
  \/ \E k \in Client : Open(k) \/ Post(k) \/ Answer(k) \/ Sync(k) \/ GiveUp(k)
  \/ Begin \/ Clear \/ Unlink \/ Look \/ Ask \/ Validate \/ WriteUnit \/ Enable
  \/ Abandon

Spec == Init /\ [][Next]_vars

-----------------------------------------------------------------------------
(***************************************************************************)
(* Properties.                                                             *)
(***************************************************************************)

\* A token in the credential file is the last one the hub gave out, and the hub
\* accepts it or, after a withdrawal, none: no late request, no client left over
\* from an earlier attempt and no retry with an old code exchanges it for one that
\* is not in the file (cmd/enroll reserves the file before it uses the code).
CredentialIsCurrent == HasToken => file = issued /\ active \in {0, file}

\* Once the service is set up it has a credential, and keeps it: register refuses
\* to run again, so nothing would repair it.  Only a withdrawal makes it useless.
ServiceHasCredential == unit # "absent" => HasToken /\ file = issued /\ active \in {0, file}
=============================================================================
