------------------------- MODULE AuthSessions_proofs -------------------------
(***************************************************************************)
(* What AuthSessions guarantees for any limits and any number of logins    *)
(* and requests at once.                                                   *)
(***************************************************************************)
EXTENDS AuthSessions, FiniteSetTheorems, TLAPS

\* The table is finite because it grows by one entry at a time.
TableInv == TypeOK /\ IsFiniteSet(Stored) /\ SessionCap

LEMMA InitTable == Init => TableInv
<1> SUFFICES ASSUME Init PROVE TableInv
  OBVIOUS
<1> USE BoundsAssumption DEF Init
<1>1. TypeOK
  BY DEF TypeOK, Time, Stored
<1>2. Stored = {}
  BY DEF Stored
<1>3. IsFiniteSet(Stored) /\ Cardinality(Stored) = 0
  BY <1>2, FS_EmptySet
<1> QED BY <1>1, <1>3 DEF TableInv, SessionCap

LEMMA NextType == TypeOK /\ [Next]_vars => TypeOK'
<1> SUFFICES ASSUME TypeOK, [Next]_vars PROVE TypeOK'
  OBVIOUS
<1> USE BoundsAssumption DEF TypeOK, Time
<1>1. CASE Tick
  BY <1>1 DEF Tick, table, throttle, Stored
<1>2. ASSUME NEW l \in Login, NEW good \in BOOLEAN, BeginLogin(l, good) PROVE TypeOK'
  <2>1. window' \in Time /\ window' <= now /\ attempts' \in Nat
    <3>1. /\ window' = IF now - window >= Window THEN now ELSE window
          /\ attempts' = IF now - window >= Window THEN 1 ELSE attempts + 1
          /\ now' = now
      BY <1>2 DEF BeginLogin, Count
    <3>2. CASE now - window >= Window
      BY <3>1, <3>2
    <3>3. CASE ~(now - window >= Window)
      BY <3>1, <3>3
    <3> QED BY <3>2, <3>3
  <2>2. login' \in [Login -> Pending \union {Idle}] /\ admitted' \in Seq(Time)
    <3>1. [pc |-> "admitted", at |-> now, good |-> good] \in Pending
      BY DEF Pending
    <3>2. Append(admitted, now) \in Seq(Time)
      OBVIOUS
    <3> QED BY <1>2, <3>1, <3>2 DEF BeginLogin
  <2> QED BY <1>2, <2>1, <2>2 DEF BeginLogin, table, Stored
<1>3. ASSUME NEW l \in Login, RefuseLogin(l) PROVE TypeOK'
  BY <1>3 DEF RefuseLogin, table, throttle, Stored
<1>4. ASSUME NEW l \in Login, Mint(l) PROVE TypeOK'
  <2>1. login[l] \in Pending
    BY <1>4 DEF Mint, Idle
  <2>2. login[l].at \in Nat
    BY <2>1 DEF Pending
  <2>3. Purged(login[l].at) \in [Session -> Nat]
        /\ \A s \in Session : Purged(login[l].at)[s] # 0 => s \in Stored
    BY <2>2 DEF Purged, Stored
  <2>4. /\ sessions' \in [Session -> Nat] /\ drawn' \subseteq Session
        /\ \A s \in Session : sessions'[s] # 0 => s \in drawn'
    <3>1. CASE sessions' = Purged(login[l].at) /\ drawn' = drawn
      BY <2>3, <3>1
    <3>2. ASSUME NEW s \in Session \ drawn,
                 sessions' = [Purged(login[l].at) EXCEPT ![s] = login[l].at + TTL],
                 drawn' = drawn \union {s}
          PROVE  <2>4
      BY <2>2, <2>3, <3>2
    <3> QED BY <1>4, <3>1, <3>2 DEF Mint
  <2> QED BY <1>4, <2>4 DEF Mint, throttle, Stored
<1>5. ASSUME NEW q \in Request, NEW kind \in {"read", "write", "logout"}, NEW s \in Session,
             Send(q, kind, s)
      PROVE TypeOK'
  <2>1. PICK stale \in BOOLEAN : stale = ~Valid(s)
    OBVIOUS
  <2>2. [pc |-> "protect", kind |-> kind, session |-> s, stale |-> stale] \in Served
    BY DEF Served
  <2>3. request' \in [Request -> Served \union {Idle}]
    BY <1>5, <2>1, <2>2 DEF Send
  <2> QED BY <1>5, <2>3 DEF Send, table, throttle, Stored
<1>6. ASSUME NEW q \in Request, Protect(q) \/ CheckAgain(q) PROVE TypeOK'
  <2>1. request' \in [Request -> Served \union {Idle}]
    <3>1. \/ request' = [request EXCEPT ![q] = Idle]
          \/ \E pc \in {"handler", "acting"} : request' = [request EXCEPT ![q].pc = pc]
      BY <1>6 DEF Protect, CheckAgain, Proceed, Finish
    <3>2. request[q] \in Served
      BY <1>6 DEF Protect, CheckAgain, Idle
    <3>3. \A pc \in {"handler", "acting"} : [request[q] EXCEPT !.pc = pc] \in Served
      BY <3>2 DEF Served
    <3> QED BY <3>1, <3>3
  <2> QED BY <1>6, <2>1 DEF Protect, CheckAgain, table, throttle, Stored
<1>7. ASSUME NEW q \in Request, Act(q) PROVE TypeOK'
  BY <1>7 DEF Act, Finish, throttle, Stored
<1>8. CASE Restart
  BY <1>8 DEF Restart, Stored
<1>9. CASE UNCHANGED vars
  BY <1>9 DEF vars, table, throttle, Stored
<1> QED BY <1>1, <1>2, <1>3, <1>4, <1>5, <1>6, <1>7, <1>8, <1>9 DEF Next

\* What a login leaves in the table: what it kept, and at most one more.
LEMMA MintStores ==
  ASSUME TypeOK, IsFiniteSet(Stored), NEW l \in Login, Mint(l)
  PROVE  \/ Stored' \subseteq Stored
         \/ \E s \in Session, K \in SUBSET Stored :
              Stored' = K \union {s} /\ Cardinality(K) < MaxSessions
<1> DEFINE kept == Purged(login[l].at)
           K == {s \in Session : kept[s] # 0}
<1> USE BoundsAssumption DEF TypeOK
<1>1. login[l].at \in Nat
  BY DEF Mint, Pending, Idle, Time
<1>2. K \subseteq Stored /\ kept \in [Session -> Nat]
  BY <1>1 DEF Purged, Stored
<1>3. CASE sessions' = kept
  BY <1>2, <1>3 DEF Stored
<1>4. ASSUME NEW s \in Session, ~Full(kept), sessions' = [kept EXCEPT ![s] = login[l].at + TTL]
      PROVE Stored' = K \union {s} /\ ~(Cardinality(K) >= MaxSessions)
  BY <1>1, <1>2, <1>4 DEF Stored, Full
<1>5. sessions' = kept \/ \E s \in Session :
                             ~Full(kept) /\ sessions' = [kept EXCEPT ![s] = login[l].at + TTL]
  BY DEF Mint
<1>6. Cardinality(K) \in Nat
  BY <1>2, FS_Subset, FS_CardinalityType
<1> HIDE DEF TypeOK, K, kept
<1> QED BY <1>2, <1>3, <1>4, <1>5, <1>6

LEMMA NextTable == TableInv /\ [Next]_vars => TableInv'
<1> SUFFICES ASSUME TableInv, [Next]_vars PROVE TableInv'
  OBVIOUS
<1> USE BoundsAssumption
<1>1. TypeOK /\ TypeOK' /\ IsFiniteSet(Stored) /\ Cardinality(Stored) <= MaxSessions
  BY NextType DEF TableInv, SessionCap
<1>2. ASSUME Stored' \subseteq Stored PROVE IsFiniteSet(Stored)' /\ SessionCap'
  <2>1. IsFiniteSet(Stored') /\ Cardinality(Stored') <= Cardinality(Stored)
    BY <1>1, <1>2, FS_Subset
  <2>2. Cardinality(Stored') \in Nat /\ Cardinality(Stored) \in Nat
    BY <1>1, <2>1, FS_CardinalityType
  <2> QED BY <1>1, <2>1, <2>2 DEF SessionCap
<1>3. ASSUME NEW s \in Session, NEW K \in SUBSET Stored, Stored' = K \union {s},
             Cardinality(K) < MaxSessions
      PROVE  IsFiniteSet(Stored)' /\ SessionCap'
  <2>1. IsFiniteSet(K)
    BY <1>1, FS_Subset
  <2>2. /\ IsFiniteSet(K \union {s})
        /\ Cardinality(K \union {s}) = Cardinality(K)
             \/ Cardinality(K \union {s}) = Cardinality(K) + 1
    BY <2>1, FS_AddElement
  <2>3. Cardinality(K) \in Nat
    BY <2>1, FS_CardinalityType
  <2> QED BY <1>3, <2>2, <2>3 DEF SessionCap
<1>4. ASSUME NEW l \in Login, Mint(l) PROVE IsFiniteSet(Stored)' /\ SessionCap'
  BY <1>1, <1>2, <1>3, <1>4, MintStores
<1>5. ASSUME NEW q \in Request, Act(q) PROVE Stored' \subseteq Stored
  BY <1>1, <1>5 DEF Act, Stored, TypeOK
<1>6. ASSUME Restart PROVE Stored' \subseteq Stored
  BY <1>6 DEF Restart, Stored
<1>7. (\A l \in Login : ~Mint(l)) /\ (\A q \in Request : ~Act(q)) /\ ~Restart
        => Stored' = Stored
  BY DEF Next, Tick, BeginLogin, RefuseLogin, Send, Protect, CheckAgain, table, vars, Stored
<1> QED BY <1>1, <1>2, <1>4, <1>5, <1>6, <1>7 DEF TableInv

LEMMA TableCorrect == Spec => []TableInv
  BY InitTable, NextTable, PTL DEF Spec

\* However many logins hold a checked credential at once, the session table
\* stays within its limit.
THEOREM CapHolds == Spec => []SessionCap
  BY TableCorrect, PTL DEF TableInv

-----------------------------------------------------------------------------
(***************************************************************************)
(* Sessions end once.  Tokens are drawn once and time does not go back.    *)
(***************************************************************************)
LEMMA EndedStaysEnded ==
  ASSUME TypeOK, [Next]_vars, NEW s \in drawn, ~Valid(s)
  PROVE  ~Valid(s)'
<1> USE BoundsAssumption DEF TypeOK, Time
<1>1. s \in Session /\ now' \in Nat
  BY NextType
<1>2. ASSUME now' >= now, sessions'[s] = sessions[s] \/ sessions'[s] = 0 PROVE ~Valid(s)'
  BY <1>1, <1>2 DEF Valid, Stored
<1>3. CASE Tick
  BY <1>2, <1>3 DEF Tick, table
<1>4. ASSUME NEW l \in Login, Mint(l) PROVE ~Valid(s)'
  <2>1. sessions'[s] = Purged(login[l].at)[s]
    <3>1. ASSUME NEW x \in Session \ drawn,
                 sessions' = [Purged(login[l].at) EXCEPT ![x] = login[l].at + TTL]
          PROVE  sessions'[s] = Purged(login[l].at)[s]
      BY <1>1, <3>1 DEF Purged
    <3> QED BY <1>4, <3>1 DEF Mint
  <2>2. Purged(login[l].at)[s] \in {0, sessions[s]}
    BY <1>1 DEF Purged
  <2> QED BY <1>2, <1>4, <2>1, <2>2 DEF Mint
<1>5. ASSUME NEW q \in Request, Act(q) PROVE ~Valid(s)'
  BY <1>1, <1>2, <1>5 DEF Act
<1>6. CASE Restart
  BY <1>1, <1>2, <1>6 DEF Restart
<1>7. (\A l \in Login : ~Mint(l)) /\ (\A q \in Request : ~Act(q)) /\ ~Restart /\ ~Tick
        => sessions' = sessions /\ now' = now
  BY DEF Next, BeginLogin, RefuseLogin, Send, Protect, CheckAgain, table, vars
<1> QED BY <1>2, <1>3, <1>4, <1>5, <1>6, <1>7

\* What was issued only grows.
LEMMA DrawnGrows == [Next]_vars => drawn \subseteq drawn'
  BY DEF Next, Tick, BeginLogin, RefuseLogin, Mint, Send, Protect, CheckAgain, Act, Restart,
         table, vars

\* An expired, withdrawn or lost session is never valid again.
THEOREM DeadSessions == Spec => DeadSessionsStayDead
<1>1. TableInv /\ [Next]_vars => [\A s \in drawn : ~Valid(s) => ~Valid(s)']_vars
  BY EndedStaysEnded DEF TableInv
<1> QED BY <1>1, TableCorrect, PTL DEF Spec, DeadSessionsStayDead

-----------------------------------------------------------------------------
(***************************************************************************)
(* No session ends early: the time a login uses is never ahead.            *)
(***************************************************************************)
PendingInv == \A l \in Login : login[l] # Idle => login[l].at <= now

LEMMA NextPending == TypeOK /\ PendingInv /\ [Next]_vars => PendingInv'
<1> SUFFICES ASSUME TypeOK, PendingInv, [Next]_vars, NEW l \in Login, login'[l] # Idle
             PROVE  login'[l].at <= now'
  BY DEF PendingInv
<1> USE DEF TypeOK, Time
<1>1. CASE login'[l] = login[l]
  <2>1. login[l].at \in Nat /\ login[l].at <= now
    BY <1>1 DEF PendingInv, Pending
  <2>2. now' \in Nat /\ now <= now'
    BY BoundsAssumption DEF Next, Tick, BeginLogin, RefuseLogin, Mint, Send, Protect, CheckAgain,
          Act, Restart, vars
  <2> QED BY <1>1, <2>1, <2>2, BoundsAssumption
<1>2. ASSUME NEW x \in Login, NEW good \in BOOLEAN, BeginLogin(x, good) PROVE login'[l].at <= now'
  <2>1. CASE login'[l] = [pc |-> "admitted", at |-> now, good |-> good]
    BY <1>2, <2>1, BoundsAssumption DEF BeginLogin
  <2> QED BY <1>1, <1>2, <2>1 DEF BeginLogin
<1>3. \/ login'[l] = login[l]
      \/ \E x \in Login, good \in BOOLEAN : BeginLogin(x, good)
  BY DEF Next, Tick, RefuseLogin, Mint, Send, Protect, CheckAgain, Act, Restart, throttle, vars
<1> QED BY <1>1, <1>2, <1>3

\* A login that purges the table with the time it read earlier takes nothing
\* that is still valid, and a fresh token is none of those stored.
LEMMA MintKeeps ==
  ASSUME TypeOK, PendingInv, NEW l \in Login, Mint(l), NEW s \in Session, Valid(s)
  PROVE  sessions'[s] = sessions[s]
<1> USE DEF TypeOK, Time
<1>1. login[l] # Idle /\ login[l].at \in Nat /\ login[l].at <= now
  BY DEF Mint, Idle, Pending, PendingInv
<1>2. s \in drawn /\ sessions[s] \in Nat /\ now < sessions[s]
  BY DEF Valid
<1>3. Purged(login[l].at)[s] = sessions[s]
  BY <1>1, <1>2, BoundsAssumption DEF Purged
<1>4. ASSUME NEW x \in Session \ drawn,
             sessions' = [Purged(login[l].at) EXCEPT ![x] = login[l].at + TTL]
      PROVE  sessions'[s] = Purged(login[l].at)[s]
  BY <1>2, <1>4 DEF Purged
<1> QED BY <1>3, <1>4 DEF Mint

\* No valid session ends but by its own logout or a restart (ValidSessionsKept).
THEOREM SessionsKept == Spec => ValidSessionsKept
<1> DEFINE Kept ==
      \A s \in Session :
        Valid(s) /\ sessions'[s] # sessions[s] =>
          \/ \E q \in Request : request[q].pc = "acting" /\ request[q].kind = "logout"
                                  /\ request[q].session = s
          \/ sessions' = [x \in Session |-> 0] /\ attempts' = 0
<1>1. ASSUME TypeOK, PendingInv, [Next]_vars PROVE Kept
  <2> SUFFICES ASSUME NEW s \in Session, Valid(s), sessions'[s] # sessions[s]
               PROVE  \/ \E q \in Request : request[q].pc = "acting" /\ request[q].kind = "logout"
                                               /\ request[q].session = s
                      \/ sessions' = [x \in Session |-> 0] /\ attempts' = 0
    OBVIOUS
  <2>1. \A l \in Login : ~Mint(l)
    BY <1>1, MintKeeps
  <2>2. (\E q \in Request : Act(q)) \/ Restart
    BY <1>1, <2>1 DEF Next, Tick, BeginLogin, RefuseLogin, Send, Protect, CheckAgain, table, vars
  <2>3. CASE \E q \in Request : Act(q)
    BY <1>1, <2>3 DEF Act, TypeOK
  <2>4. CASE Restart
    BY <2>4 DEF Restart
  <2> QED BY <2>2, <2>3, <2>4
<1>2. Init => PendingInv
  BY DEF Init, PendingInv
<1>3. TypeOK /\ PendingInv /\ [Next]_vars => PendingInv' /\ [Kept]_vars
  BY <1>1, NextPending
<1> HIDE DEF Kept
<1>4. Spec => [][Kept]_vars
  BY <1>2, <1>3, TableCorrect, PTL DEF Spec, TableInv
<1> QED BY <1>4 DEF Kept, ValidSessionsKept

-----------------------------------------------------------------------------
(***************************************************************************)
(* The check before a handler acts.                                        *)
(***************************************************************************)
\* A request that came with an ended session finds it ended at each check.
RequestInv ==
  /\ \A q \in Request : request[q] # Idle => request[q].session \in drawn
  /\ \A q \in Request : request[q] # Idle /\ request[q].stale => ~Valid(request[q].session)
  /\ StaleRequestRefused

LEMMA NextRequest == TypeOK /\ RequestInv /\ [Next]_vars => RequestInv'
<1> SUFFICES ASSUME TypeOK, RequestInv, [Next]_vars, NEW q \in Request, request'[q] # Idle
             PROVE  /\ request'[q].session \in drawn'
                    /\ request'[q].stale => ~Valid(request[q].session)'
                    /\ request'[q].pc = "acting" => ~request'[q].stale
  BY DEF RequestInv, StaleRequestRefused, Idle
<1> USE DEF TypeOK
<1>1. CASE request'[q] = request[q]
  BY <1>1, DrawnGrows, EndedStaysEnded DEF RequestInv, StaleRequestRefused
<1>2. ASSUME NEW kind \in {"read", "write", "logout"}, NEW s \in Session, Send(q, kind, s)
      PROVE  /\ request'[q].pc = "protect" /\ request'[q].session = s /\ s \in drawn
             /\ request'[q].stale = ~Valid(s) /\ sessions' = sessions /\ now' = now
  BY <1>2 DEF Send, table
<1>3. ASSUME Protect(q) \/ CheckAgain(q)
      PROVE  /\ Valid(request[q].session) /\ request[q] # Idle
             /\ request'[q].session = request[q].session
             /\ request'[q].stale = request[q].stale
             /\ drawn' = drawn
  BY <1>3 DEF Protect, CheckAgain, Proceed, Finish, Served, Idle, table
<1>4. \/ request'[q] = request[q] \/ Protect(q) \/ CheckAgain(q)
      \/ \E kind \in {"read", "write", "logout"}, s \in Session : Send(q, kind, s)
  BY DEF Next, Tick, BeginLogin, RefuseLogin, Mint, Send, Protect, CheckAgain, Act, Restart,
         Proceed, Finish, vars
<1>5. ASSUME NEW kind \in {"read", "write", "logout"}, NEW s \in Session, Send(q, kind, s)
      PROVE  /\ request'[q].session \in drawn'
             /\ request'[q].stale => ~Valid(request[q].session)'
             /\ request'[q].pc = "acting" => ~request'[q].stale
  BY <1>2, <1>5, DrawnGrows DEF Valid, Stored
<1>6. CASE Protect(q) \/ CheckAgain(q)
  BY <1>3, <1>6 DEF RequestInv
<1> QED BY <1>1, <1>4, <1>5, <1>6

\* A request whose session had ended when it came is never acted upon.
THEOREM StaleRequests == Spec => []StaleRequestRefused
<1>1. Init => RequestInv
  BY DEF Init, RequestInv, StaleRequestRefused, Idle
<1>2. TableInv /\ RequestInv /\ [Next]_vars => RequestInv'
  BY NextRequest DEF TableInv
<1> QED BY <1>1, <1>2, TableCorrect, PTL DEF Spec, RequestInv

-----------------------------------------------------------------------------
(***************************************************************************)
(* The throttle.                                                           *)
(***************************************************************************)
\* The last admissions are those of the window and the earlier ones came before
\* it; those that a window's worth of earlier ones follow came a whole window
\* before it.
Counted == IF attempts > MaxAttempts THEN MaxAttempts ELSE attempts
Earlier == Len(admitted) - Counted

ThrottleInv ==
  /\ Counted <= Len(admitted)
  /\ \A i \in 1..Len(admitted) :
       /\ admitted[i] <= now /\ admitted[i] < window + Window
       /\ i <= Earlier => admitted[i] < window
       /\ i > Earlier => window <= admitted[i]
       /\ i + MaxAttempts <= Earlier => admitted[i] + Window < window
  /\ ThrottleHolds

LEMMA InitThrottle == Init => ThrottleInv
<1> SUFFICES ASSUME Init PROVE ThrottleInv
  OBVIOUS
<1>1. admitted = <<>> /\ attempts = 0
  BY DEF Init
<1>2. Len(admitted) = 0 /\ 1..Len(admitted) = {} /\ DOMAIN admitted = {} /\ Counted = 0
  BY <1>1, BoundsAssumption DEF Counted
<1> QED BY <1>2 DEF ThrottleInv, ThrottleHolds

LEMMA LoginThrottle ==
  ASSUME TypeOK, ThrottleInv, NEW l \in Login, NEW good \in BOOLEAN, BeginLogin(l, good)
  PROVE  ThrottleInv'
<1>1. /\ now \in Nat /\ window \in Nat /\ window <= now /\ attempts \in Nat
      /\ admitted \in Seq(Time) /\ Window \in Nat /\ Window > 0
      /\ MaxAttempts \in Nat /\ MaxAttempts > 0
  BY BoundsAssumption DEF TypeOK, Time
<1>2. /\ Len(admitted) \in Nat /\ DOMAIN admitted = 1..Len(admitted)
      /\ \A i \in 1..Len(admitted) : admitted[i] \in Nat
  <2>1. \A i \in 1..Len(admitted) : admitted[i] \in Time
    BY <1>1
  <2> QED BY <1>1, <2>1 DEF Time
<1>3. Counted \in Nat /\ Counted <= MaxAttempts /\ Counted <= Len(admitted)
  BY <1>1 DEF Counted, ThrottleInv
<1>4. \A i \in 1..Len(admitted) :
        /\ admitted[i] <= now /\ admitted[i] < window + Window
        /\ i <= Len(admitted) - Counted => admitted[i] < window
        /\ i > Len(admitted) - Counted => window <= admitted[i]
        /\ i + MaxAttempts <= Len(admitted) - Counted => admitted[i] + Window < window
  BY DEF ThrottleInv, Earlier
<1>5. now' = now
  BY DEF BeginLogin
<1>6. CASE admitted' = admitted
  <2>1. window' = window /\ Counted' = Counted
    <3>1. ~(now - window >= Window) /\ attempts' = attempts + 1 /\ attempts' > MaxAttempts
          /\ window' = window
      BY <1>1, <1>6 DEF BeginLogin, Count
    <3> QED BY <1>1, <3>1 DEF Counted
  <2>2. Earlier' = Earlier
    BY <1>6, <2>1 DEF Earlier
  <2> QED BY <1>5, <1>6, <2>1, <2>2 DEF ThrottleInv, ThrottleHolds
<1>7. CASE admitted' = Append(admitted, now)
  <2>1. /\ Len(admitted') = Len(admitted) + 1 /\ DOMAIN admitted' = 1..(Len(admitted) + 1)
        /\ admitted'[Len(admitted) + 1] = now
        /\ \A i \in 1..Len(admitted) : admitted'[i] = admitted[i]
    BY <1>1, <1>7
  <2>2. window' \in Nat /\ Counted' \in Nat /\ window' <= now
        /\ Counted' >= 1 /\ Counted' <= MaxAttempts /\ now < window' + Window
        /\ \/ window' = window /\ Counted' = Counted + 1
           \/ window' >= window + Window /\ Counted' = 1
    <3>1. attempts' <= MaxAttempts
      <4>1. ~(attempts' > MaxAttempts)
        <5>1. admitted' # admitted
          BY <1>2, <2>1
        <5> QED BY <5>1 DEF BeginLogin
      <4>2. attempts' \in Nat
        BY <1>1 DEF BeginLogin, Count
      <4> QED BY <1>1, <4>1, <4>2
    <3>2. CASE now - window >= Window
      <4>1. window' = now /\ attempts' = 1
        BY <1>1, <3>2 DEF BeginLogin, Count
      <4> QED BY <1>1, <3>2, <4>1 DEF Counted
    <3>3. CASE ~(now - window >= Window)
      <4>1. window' = window /\ attempts' = attempts + 1
        BY <1>1, <3>3 DEF BeginLogin, Count
      <4> QED BY <1>1, <3>1, <3>3, <4>1 DEF Counted
    <3> QED BY <3>2, <3>3
  <2>3. Earlier' = Len(admitted) + 1 - Counted'
    <3>1. Earlier' = Len(admitted') - Counted'
      BY DEF Earlier
    <3> QED BY <1>2, <2>1, <2>2, <3>1
  \* What came before the new window, however it begins.
  <2>4. ASSUME NEW i \in 1..Len(admitted)
        PROVE  /\ admitted[i] < window' + Window
               /\ i <= Earlier' => admitted[i] < window'
               /\ i > Earlier' => window' <= admitted[i]
               /\ i + MaxAttempts <= Earlier' => admitted[i] + Window < window'
    <3>1. /\ i \in Nat /\ i <= Len(admitted) /\ admitted[i] \in Nat /\ admitted[i] < window + Window
          /\ i <= Len(admitted) - Counted => admitted[i] < window
          /\ i > Len(admitted) - Counted => window <= admitted[i]
          /\ i + MaxAttempts <= Len(admitted) - Counted => admitted[i] + Window < window
      BY <1>2, <1>4
    <3>2. CASE window' = window /\ Counted' = Counted + 1
      BY <1>1, <1>2, <1>3, <2>3, <3>1, <3>2
    <3>3. CASE window' >= window + Window /\ Counted' = 1
      <4>1. Earlier' = Len(admitted)
        BY <1>2, <2>3, <3>3
      <4>2. admitted[i] < window'
        BY <1>1, <2>2, <3>1, <3>3
      <4>3. ASSUME i + MaxAttempts <= Earlier' PROVE admitted[i] < window
        BY <1>1, <1>2, <1>3, <3>1, <4>1, <4>3
      <4> QED BY <1>1, <1>2, <2>2, <3>1, <3>3, <4>1, <4>2, <4>3
    <3> QED BY <2>2, <3>2, <3>3
  <2>5. \A i \in 1..Len(admitted') :
          /\ admitted'[i] <= now' /\ admitted'[i] < window' + Window
          /\ i <= Earlier' => admitted'[i] < window'
          /\ i > Earlier' => window' <= admitted'[i]
          /\ i + MaxAttempts <= Earlier' => admitted'[i] + Window < window'
    <3>1. now <= now' /\ now < window' + Window /\ window' <= now
      <4>1. now <= now'
        BY <1>1, <1>5
      <4> QED BY <2>2, <4>1, Zenon
    <3> TAKE i \in 1..Len(admitted')
    <3>2. CASE i \in 1..Len(admitted)
      BY <1>4, <1>5, <2>1, <2>4, <3>2
    <3>3. CASE i = Len(admitted) + 1
      <4>1. admitted'[i] = now
        BY <2>1, <3>3
      <4>2. i > Earlier' /\ ~(i + MaxAttempts <= Earlier') /\ ~(i <= Earlier')
        BY <1>1, <1>2, <2>2, <2>3, <3>3
      <4> QED BY <3>1, <4>1, <4>2, Zenon
    <3> QED BY <1>2, <2>1, <3>2, <3>3
  <2>6. ASSUME NEW i \in DOMAIN admitted', NEW j \in DOMAIN admitted', j = i + 2 * MaxAttempts
        PROVE  admitted'[j] - admitted'[i] >= Window
    <3>1. i \in 1..Len(admitted) /\ i \in Nat /\ j \in Nat
      BY <1>1, <1>2, <2>1, <2>6
    <3>2. CASE j \in 1..Len(admitted)
      <4>1. admitted[j] - admitted[i] >= Window
        BY <1>2, <2>6, <3>1, <3>2 DEF ThrottleInv, ThrottleHolds
      <4> QED BY <2>1, <3>1, <3>2, <4>1
    <3>3. CASE j = Len(admitted) + 1
      <4>1. i + MaxAttempts <= Earlier'
        BY <1>1, <1>2, <2>2, <2>3, <2>6, <3>1, <3>3
      <4>2. admitted[i] + Window < window'
        BY <2>4, <3>1, <4>1
      <4> QED BY <1>1, <1>2, <2>1, <2>2, <3>1, <3>3, <4>2
    <3> QED BY <1>2, <2>1, <2>6, <3>2, <3>3
  <2>7. Counted' <= Len(admitted')
    BY <1>2, <1>3, <2>1, <2>2
  <2> QED BY <2>5, <2>6, <2>7 DEF ThrottleInv, ThrottleHolds
<1> QED BY <1>6, <1>7 DEF BeginLogin

LEMMA NextThrottle == TypeOK /\ ThrottleInv /\ [Next]_vars => ThrottleInv'
<1> SUFFICES ASSUME TypeOK, ThrottleInv, [Next]_vars PROVE ThrottleInv'
  OBVIOUS
<1>1. CASE UNCHANGED throttle
  <2>1. now \in Nat /\ now' \in Nat /\ now <= now'
    BY NextType, BoundsAssumption DEF TypeOK, Time, Next, Tick, BeginLogin, RefuseLogin, Mint, Send,
          Protect, CheckAgain, Act, Restart, vars
  <2>2. \A i \in 1..Len(admitted) : admitted[i] \in Nat
    <3>1. admitted \in Seq(Time)
      BY DEF TypeOK
    <3>2. \A i \in 1..Len(admitted) : admitted[i] \in Time
      BY <3>1
    <3> QED BY <3>2 DEF Time
  <2>3. window' = window /\ Counted' = Counted /\ Earlier' = Earlier /\ ThrottleHolds'
    BY <1>1 DEF throttle, Counted, Earlier, ThrottleHolds, ThrottleInv
  <2>4. \A i \in 1..Len(admitted) : admitted[i] <= now'
    BY <2>1, <2>2 DEF ThrottleInv
  <2> QED BY <1>1, <2>3, <2>4 DEF throttle, ThrottleInv
<1>2. CASE Restart
  <2>1. admitted' = <<>> /\ attempts' = 0
    BY <1>2 DEF Restart
  <2>2. Len(admitted') = 0 /\ 1..Len(admitted') = {} /\ DOMAIN admitted' = {} /\ Counted' = 0
    BY <2>1, BoundsAssumption DEF Counted
  <2> QED BY <2>2 DEF ThrottleInv, ThrottleHolds
<1>3. ASSUME NEW l \in Login, NEW good \in BOOLEAN, BeginLogin(l, good) PROVE ThrottleInv'
  BY <1>3, LoginThrottle
<1>4. UNCHANGED throttle \/ Restart
      \/ \E l \in Login, good \in BOOLEAN : BeginLogin(l, good)
  BY DEF Next, Tick, RefuseLogin, Mint, Send, Protect, CheckAgain, Act, throttle, vars
<1> QED BY <1>1, <1>2, <1>3, <1>4

\* For any window and any number of attempts, wherever they fall, no span of a
\* window's length sees more than two windows' worth of them (ThrottleHolds).
THEOREM ThrottleCorrect == Spec => []ThrottleHolds
<1>1. TypeOK /\ ThrottleInv /\ [Next]_vars => ThrottleInv'
  BY NextThrottle
<1>2. ThrottleInv => ThrottleHolds
  BY DEF ThrottleInv
<1> QED BY <1>1, <1>2, InitThrottle, TableCorrect, PTL DEF Spec, TableInv

\* What is stored was drawn, the window never begins in the future, and the
\* rest keeps its type (TypeOK).
THEOREM TypeCorrect == Spec => []TypeOK
  BY TableCorrect, PTL DEF TableInv
=============================================================================
