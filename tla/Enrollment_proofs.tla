-------------------------- MODULE Enrollment_proofs --------------------------
(***************************************************************************)
(* What Enrollment guarantees for any number of codes, clients and tokens. *)
(*                                                                         *)
(* Once a token is in the file, or on its way to the client that holds the *)
(* file, no request that is still to be served carries the code that is    *)
(* out, and none will: later codes are drawn afresh, and a client gets as  *)
(* far as a request only over an absent file.                              *)
(***************************************************************************)
EXTENDS Enrollment, TLAPS

Linked(k) == client[k] # Idle /\ client[k].linked
Awarded(k) == Linked(k) /\ client[k].pc = "answer" /\ client[k].token > 0

\* No request to come can redeem the code that is out.
NoneHeld ==
  /\ code \notin late
  /\ \A k \in Client : client[k].pc = "post" => client[k].code # code

\* A client that has the file open has reserved it or filled it.
Reserved ==
  \A k \in Client : Linked(k) =>
    /\ client[k].pc \in {"post", "answer", "sync"}
    /\ client[k].pc \in {"post", "answer"} => file = Empty
    /\ client[k].pc = "sync" => HasToken

FileCurrent == HasToken => file = issued /\ NoneHeld
AwardCurrent == \A k \in Client : Awarded(k) => client[k].token = issued /\ NoneHeld

\* The hub accepts the last token or, after a withdrawal, none.
LastAccepted == active \in {0, issued}

\* register comes to remove a file only if no unit was written, and goes on from a
\* client only while it waits for it.
NotSetUp ==
  /\ register.pc \notin {"idle", "enable"} => unit = "absent"
  /\ register.client # NoClient => At("wait")
UnitBacked == register.pc \in {"unit", "enable"} \/ unit # "absent" => HasToken

InStep ==
  /\ Reserved
  /\ FileCurrent /\ AwardCurrent /\ LastAccepted
  /\ NotSetUp /\ UnitBacked

EnrollInv == TypeOK /\ InStep

\* Nobody runs at first.
LEMMA InitEnroll == Init => EnrollInv
<1> SUFFICES ASSUME Init PROVE EnrollInv
  OBVIOUS
<1> USE DistinctValues DEF Init, Idle
<1>1. TypeOK
  BY DEF TypeOK, Absent
<1>2. \A k \in Client : client[k] = Idle
  OBVIOUS
<1> QED BY <1>1, <1>2 DEF EnrollInv, InStep, Reserved, FileCurrent, AwardCurrent,
         LastAccepted, NotSetUp, UnitBacked, At, Linked, Awarded, HasToken, Absent

\* A client that runs is one of Running, and the others are Idle.
LEMMA Shapes ==
  ASSUME TypeOK, NEW k \in Client
  PROVE  /\ client[k].pc # "idle" => client[k] # Idle
         /\ client[k] # Idle => client[k] \in Running /\ client[k].pc # "idle"
  BY DEF TypeOK, Running, Idle

\* The lengthy cases are those that set fields of a client.
LEMMA TypeStep == TypeOK /\ [Next]_vars => TypeOK'
<1> SUFFICES ASSUME TypeOK, [Next]_vars PROVE TypeOK'
  OBVIOUS
<1> USE DistinctValues, Shapes DEF TypeOK, Absent, Empty
<1>1. CASE Issue
  BY <1>1 DEF Issue, hub, Running, Idle
<1>2. CASE Expire
  BY <1>2 DEF Expire, hub, Running, Idle
<1>3. CASE ServeLate
  BY <1>3 DEF ServeLate, Redeem, hub, Running, Idle
<1>4. CASE Begin
  BY <1>4 DEF Begin, GoTo, At, hub, Running, Idle
<1>5. CASE Clear
  BY <1>5 DEF Clear, GoTo, At, hub, Running, Idle
<1>18. CASE Unlink
  <2>1. client' = Unlinked /\ file' = Absent
    BY <1>18 DEF Unlink
  <2>2. ASSUME NEW k \in Client PROVE Unlinked[k] \in Running \union {Idle}
    <3>1. CASE client[k] = Idle
      BY <3>1 DEF Unlinked
    <3>2. CASE client[k] # Idle
      <4>1. client[k] \in Running
        BY <3>2
      <4>2. [client[k] EXCEPT !.linked = FALSE] \in Running
        BY <4>1 DEF Running
      <4> QED BY <3>2, <4>2 DEF Unlinked
    <3> QED BY <3>1, <3>2
  <2>3. ASSUME NEW k \in Client, Unlinked[k] # Idle PROVE ~Unlinked[k].linked
    <3>1. client[k] # Idle /\ client[k] \in Running
      BY <2>3 DEF Unlinked
    <3> QED BY <3>1 DEF Unlinked, Running
  <2> HIDE DEF Idle
  <2>4. client' \in [Client -> Running \union {Idle}]
    BY <2>1, <2>2 DEF Unlinked
  <2>5. UNCHANGED <<code, active, drawn, issued, unit, late>>
        /\ register' = [pc |-> "look", client |-> NoClient]
    BY <1>18 DEF Unlink, GoTo, hub
  <2>6. ASSUME NEW k \in Client, Unlinked[k] # Idle
        PROVE  client[k] # Idle /\ Unlinked[k].code = client[k].code /\ Unlinked[k].token = client[k].token
    BY <2>6 DEF Unlinked, Running
  <2> QED BY <2>1, <2>3, <2>4, <2>5, <2>6
<1>19. CASE Withdraw
  BY <1>19 DEF Withdraw, Running, Idle
<1>6. CASE Look
  BY <1>6 DEF Look, GoTo, At, hub, Running, Idle
<1>7. CASE Ask
  BY <1>7 DEF Ask, At, hub, Running, Idle
<1>8. CASE Validate
  BY <1>8 DEF Validate, GoTo, At, HasToken, hub, Running, Idle
<1>9. CASE WriteUnit
  BY <1>9 DEF WriteUnit, GoTo, At, hub, Running, Idle
<1>10. CASE Enable
  BY <1>10 DEF Enable, GoTo, At, hub, Running, Idle
<1>11. CASE Abandon
  BY <1>11 DEF Abandon, GoTo, At, hub, Running, Idle
<1>12. ASSUME NEW k \in Client, Open(k) PROVE TypeOK'
  BY <1>12 DEF Open, Exit, hub, Running, Idle
<1>13. ASSUME NEW k \in Client, Post(k) PROVE TypeOK'
  <2>1. PICK t \in 0..MaxToken :
          /\ Redeem(client[k].code, t)
          /\ client' = [client EXCEPT ![k].pc = "answer", ![k].token = t]
    BY <1>13 DEF Post
  <2>2. client[k] \in Running
    BY <1>13 DEF Post
  <2>3. [client[k] EXCEPT !.pc = "answer", !.token = t] \in Running
    BY <2>2 DEF Running
  <2>4. client' \in [Client -> Running \union {Idle}]
    BY <2>1, <2>3
  <2>5. \A l \in Client : /\ client'[l] # Idle => client[l] # Idle
                          /\ client'[l].linked = client[l].linked
                          /\ client'[l].code = client[l].code
                          /\ client'[l].token \in {client[l].token, t}
    BY <2>1, <2>2, <1>13 DEF Post, Running
  <2>6. UNCHANGED <<file, unit, register, late, drawn>>
    BY <1>13 DEF Post
  <2>7. code' \in drawn \union {NoCode} /\ active' \in 0..issued' /\ issued' \in 0..MaxToken
        /\ issued <= issued' /\ t <= issued'
    BY <2>1 DEF Redeem
  <2>8. \A l \in Client : client'[l] # Idle => client'[l].code \in drawn /\ client'[l].token <= issued'
    <3> SUFFICES ASSUME NEW l \in Client, client'[l] # Idle
                 PROVE  client'[l].code \in drawn /\ client'[l].token <= issued'
      OBVIOUS
    <3>1. client[l].code \in drawn /\ client[l].token \in 0..MaxToken /\ client[l].token <= issued
      BY <2>5 DEF Running
    <3> QED BY <2>5, <2>7, <3>1
  <2> HIDE DEF Idle
  <2> QED BY <2>4, <2>5, <2>6, <2>7, <2>8
<1>14. ASSUME NEW k \in Client, Answer(k) PROVE TypeOK'
  <2>1. CASE client[k].token = 0
    BY <1>14, <2>1 DEF Answer, Exit, hub
  <2>2. CASE client[k].token # 0
    <3>1. client[k] \in Running
      BY <1>14 DEF Answer
    <3>2. /\ client' = [client EXCEPT ![k].pc = "sync"]
          /\ file' = IF client[k].linked THEN client[k].token ELSE file
          /\ UNCHANGED <<code, active, drawn, issued, unit, register, late>>
      BY <1>14, <2>2 DEF Answer, Go, hub
    <3>3. [client[k] EXCEPT !.pc = "sync"] \in Running
      BY <3>1 DEF Running
    <3>4. client' \in [Client -> Running \union {Idle}]
      BY <3>2, <3>3
    <3>5. \A l \in Client : /\ client'[l] # Idle => client[l] # Idle
                            /\ client'[l].linked = client[l].linked
                            /\ client'[l].code = client[l].code
                            /\ client'[l].token = client[l].token
      BY <1>14, <3>2, <3>1 DEF Answer, Running
    <3>6. file' \in Absent..issued
      <4>1. client[k].token \in 0..MaxToken /\ client[k].token <= issued
        BY <1>14, <3>1 DEF Answer, Running
      <4> QED BY <3>2, <4>1
    <3>7. file # Absent => file' # Absent
      BY <3>1, <3>2 DEF Running
    <3> QED BY <3>2, <3>4, <3>5, <3>6, <3>7
  <2> QED BY <2>1, <2>2
<1>15. ASSUME NEW k \in Client, Sync(k) PROVE TypeOK'
  BY <1>15 DEF Sync, Exit, hub, Running, Idle
<1>16. ASSUME NEW k \in Client, GiveUp(k) PROVE TypeOK'
  <2>1. late' \subseteq drawn
    BY <1>16 DEF GiveUp
  <2> QED BY <1>16, <2>1 DEF GiveUp, Exit, hub, Running, Idle
<1>17. CASE UNCHANGED vars
  BY <1>17 DEF vars
<1> QED BY <1>1, <1>2, <1>3, <1>4, <1>5, <1>6, <1>7, <1>8, <1>9, <1>10,
       <1>11, <1>12, <1>13, <1>14, <1>15, <1>16, <1>17, <1>18, <1>19 DEF Next

\* Only Post and ServeLate make a token, and NoneHeld keeps them from making one
\* while the file has one; a withdrawal leaves no code to hold.  Only Unlink
\* removes a file, perhaps one with a token by then, and no unit is there yet.
LEMMA InvStep == EnrollInv /\ [Next]_vars => EnrollInv'
<1> SUFFICES ASSUME EnrollInv, [Next]_vars PROVE InStep'
  BY TypeStep DEF EnrollInv
<1>0. TypeOK /\ TypeOK'
  BY TypeStep DEF EnrollInv
<1> USE <1>0, DistinctValues, Shapes DEF EnrollInv, InStep, Reserved, FileCurrent, AwardCurrent,
     LastAccepted, NotSetUp, UnitBacked, At, NoneHeld, Linked, Awarded, HasToken, Absent, Empty
<1>1. CASE Issue
  BY <1>1 DEF Issue, hub, TypeOK, Running, Idle
<1>2. CASE Expire
  BY <1>2 DEF Expire, hub, TypeOK, Running, Idle
<1>3. CASE ServeLate
  BY <1>3 DEF ServeLate, Redeem, hub, TypeOK, Running, Idle
<1>4. CASE Begin
  BY <1>4 DEF Begin, GoTo, At, hub, TypeOK, Running, Idle
<1>5. CASE Clear
  BY <1>5 DEF Clear, GoTo, At, hub, TypeOK, Running, Idle
<1>18. CASE Unlink
  BY <1>18 DEF Unlink, GoTo, At, Unlinked, hub, TypeOK, Running, Idle
<1>19. CASE Withdraw
  BY <1>19 DEF Withdraw, TypeOK, Running, Idle
<1>6. CASE Look
  BY <1>6 DEF Look, GoTo, At, hub, TypeOK, Running, Idle
<1>7. CASE Ask
  BY <1>7 DEF Ask, At, hub, TypeOK, Running, Idle
<1>8. CASE Validate
  BY <1>8 DEF Validate, GoTo, At, hub, TypeOK, Running, Idle
<1>9. CASE WriteUnit
  BY <1>9 DEF WriteUnit, GoTo, At, hub, TypeOK, Running, Idle
<1>10. CASE Enable
  BY <1>10 DEF Enable, GoTo, At, hub, TypeOK, Running, Idle
<1>11. CASE Abandon
  BY <1>11 DEF Abandon, GoTo, At, hub, TypeOK, Running, Idle
<1>12. ASSUME NEW k \in Client, Open(k) PROVE InStep'
  BY <1>12 DEF Open, Exit, hub, TypeOK, Running, Idle
<1>13. ASSUME NEW k \in Client, Post(k) PROVE InStep'
  BY <1>13 DEF Post, Redeem, hub, TypeOK, Running, Idle
<1>14. ASSUME NEW k \in Client, Answer(k) PROVE InStep'
  BY <1>14 DEF Answer, Exit, Go, hub, TypeOK, Running, Idle
<1>15. ASSUME NEW k \in Client, Sync(k) PROVE InStep'
  BY <1>15 DEF Sync, Exit, hub, TypeOK, Running, Idle
<1>16. ASSUME NEW k \in Client, GiveUp(k) PROVE InStep'
  BY <1>16 DEF GiveUp, Exit, hub, TypeOK, Running, Idle
<1>17. CASE UNCHANGED vars
  BY <1>17 DEF vars
<1> QED BY <1>1, <1>2, <1>3, <1>4, <1>5, <1>6, <1>7, <1>8, <1>9, <1>10,
       <1>11, <1>12, <1>13, <1>14, <1>15, <1>16, <1>17, <1>18, <1>19 DEF Next

(***************************************************************************)
(* The theorems.                                                           *)
(***************************************************************************)

\* Redemption, the file and the unit stay in step (cmd/enroll, handleRegister and
\* register together): the inductive invariant.
THEOREM EnrollInvariant == Spec => []EnrollInv
<1> QED BY InitEnroll, InvStep, PTL DEF Spec

\* The types, and what there is of the credential file: one client at most has
\* the file at the path open, and none holds a token that was not issued.
THEOREM TypeCorrect == Spec => []TypeOK
<1>1. EnrollInv => TypeOK
  BY DEF EnrollInv
<1> QED BY <1>1, EnrollInvariant, PTL

\* A token in the credential file is the last the hub gave out, and the one it
\* accepts unless it was withdrawn, whatever was lost, delayed or tried again
\* (CredentialIsCurrent).
THEOREM CurrentCredential == Spec => []CredentialIsCurrent
<1>1. EnrollInv => CredentialIsCurrent
  BY DEF EnrollInv, InStep, FileCurrent, LastAccepted, CredentialIsCurrent
<1> QED BY <1>1, EnrollInvariant, PTL

\* A service that was set up keeps the last credential the hub gave out; only a
\* withdrawal, before or after, makes the hub refuse it (ServiceHasCredential).
THEOREM BackedService == Spec => []ServiceHasCredential
<1>1. EnrollInv => ServiceHasCredential
  BY DEF EnrollInv, InStep, FileCurrent, LastAccepted, UnitBacked, ServiceHasCredential
<1> QED BY <1>1, EnrollInvariant, PTL
=============================================================================
