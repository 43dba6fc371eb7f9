---------------------------- MODULE AuthSessions ----------------------------
(***************************************************************************)
(* The administrator's sessions: the login throttle, the session table     *)
(* with its limit and its expiry, and the check in front of every          *)
(* protected handler.                                                      *)
(*                                                                         *)
(* A login takes the lock twice, and uses the time it read under the first *)
(* lock for what it does under the second; other logins, logouts and       *)
(* requests come in between.  The table lives in memory only.              *)
(***************************************************************************)
EXTENDS Integers, Sequences, FiniteSets

CONSTANTS
  Session,      \* the session tokens that can be drawn (secret())
  Login,        \* logins the hub serves at the same time
  Request,      \* protected requests the hub serves at the same time
  TTL,          \* life of a session (8 hours)
  Window,       \* the throttle's window (1 minute)
  MaxAttempts,  \* logins a window admits (20)
  MaxSessions,  \* entries of the table (128)
  MaxTime,      \* the clock stops here
  MaxTries      \* logins that come in one window at most

ASSUME BoundsAssumption ==
  /\ {TTL, Window, MaxAttempts, MaxSessions} \subseteq Nat \ {0}
  /\ MaxTime \in Nat /\ MaxTries \in Nat

VARIABLES
  now,       \* the clock
  sessions,  \* when a session expires, 0 if it is not in the table
  drawn,     \* history: the tokens that were drawn
  window,    \* start of the throttle's window
  attempts,  \* logins counted in it
  login,     \* the logins being served
  request,   \* the protected requests being served
  admitted   \* history: when a login was admitted, since the hub started

vars == <<now, sessions, drawn, window, attempts, login, request, admitted>>

table == <<sessions, drawn>>
throttle == <<window, attempts, admitted>>

-----------------------------------------------------------------------------
Time == 0..(Window + MaxTime)
Idle == [pc |-> "idle"]

\* at: the time the login read when it was counted.
Pending == [pc: {"admitted"}, at: Time, good: BOOLEAN]

\* stale: the session was not valid when the request came.
Served == [pc: {"protect", "handler", "acting"}, kind: {"read", "write", "logout"},
           session: Session, stale: BOOLEAN]

Stored == {s \in Session : sessions[s] # 0}

\* sessionOK
Valid(s) == s \in Stored /\ now < sessions[s]

TypeOK ==
  /\ now \in Time
  /\ sessions \in [Session -> Nat]
  /\ Stored \subseteq drawn /\ drawn \subseteq Session
  /\ window \in Time /\ window <= now /\ attempts \in Nat
  /\ login \in [Login -> Pending \union {Idle}]
  /\ request \in [Request -> Served \union {Idle}]
  /\ admitted \in Seq(Time)

\* The zero time of the window is longer than a window ago.
Init ==
  /\ now = Window
  /\ sessions = [s \in Session |-> 0] /\ drawn = {}
  /\ window = 0 /\ attempts = 0
  /\ admitted = <<>>
  /\ login = [l \in Login |-> Idle]
  /\ request = [q \in Request |-> Idle]

Tick ==
  /\ now < Window + MaxTime
  /\ now' = now + 1
  /\ UNCHANGED <<table, throttle, login, request>>

-----------------------------------------------------------------------------
(***************************************************************************)
(* handleLogin.                                                            *)
(***************************************************************************)
\* (Faulty variant: the count restarts, the window does not.)
CountInOldWindow ==
  /\ window' = window
  /\ attempts' = IF now - window >= Window THEN 1 ELSE attempts + 1

Count ==
  LET over == now - window >= Window IN
  /\ window' = IF over THEN now ELSE window
  /\ attempts' = IF over THEN 1 ELSE attempts + 1

\* Under the first lock the login is counted, and refused if its window is full.
BeginLogin(l, good) ==
  /\ login[l] = Idle
  /\ attempts < MaxTries \/ now - window >= Window
  /\ Count
  /\ IF attempts' > MaxAttempts
     THEN UNCHANGED <<login, admitted>>
     ELSE /\ login' = [login EXCEPT ![l] = [pc |-> "admitted", at |-> now, good |-> good]]
          /\ admitted' = Append(admitted, now)
  /\ UNCHANGED <<now, table, request>>

\* A wrong credential, an unreadable body, or a client that has gone.
RefuseLogin(l) ==
  /\ login[l].pc = "admitted"
  /\ login' = [login EXCEPT ![l] = Idle]
  /\ UNCHANGED <<now, table, throttle, request>>

\* (Faulty variant: sessions that end within a window are dropped early.)
PurgedEarly(at) ==
  [s \in Session |-> IF at + Window < sessions[s] THEN sessions[s] ELSE 0]

\* Those that had not expired when the login was counted.
Purged(at) == [s \in Session |-> IF at < sessions[s] THEN sessions[s] ELSE 0]

\* (Faulty variant: one more is let in.)
FullPlusOne(kept) == Cardinality({s \in Session : kept[s] # 0}) > MaxSessions

Full(kept) == Cardinality({s \in Session : kept[s] # 0}) >= MaxSessions

\* (Faulty variant: each login prolongs the sessions there are.)
MintRolling(l) ==
  /\ login[l].pc = "admitted" /\ login[l].good
  /\ \E s \in Session \ drawn :
       /\ sessions' = [x \in Session |->
                         IF x = s \/ sessions[x] # 0 THEN now + TTL ELSE 0]
       /\ drawn' = drawn \union {s}
  /\ login' = [login EXCEPT ![l] = Idle]
  /\ UNCHANGED <<now, throttle, request>>

\* Under the second lock: purge, check the limit, store a fresh token.
Mint(l) ==
  /\ login[l].pc = "admitted" /\ login[l].good
  /\ LET kept == Purged(login[l].at) IN
     IF Full(kept)
     THEN sessions' = kept /\ drawn' = drawn
     ELSE \E s \in Session \ drawn :
            /\ sessions' = [kept EXCEPT ![s] = login[l].at + TTL]
            /\ drawn' = drawn \union {s}
  /\ login' = [login EXCEPT ![l] = Idle]
  /\ UNCHANGED <<now, throttle, request>>

-----------------------------------------------------------------------------
(***************************************************************************)
(* Protected requests.                                                     *)
(***************************************************************************)
Send(q, kind, s) ==
  /\ request[q] = Idle /\ s \in drawn
  /\ request' = [request EXCEPT ![q] =
       [pc |-> "protect", kind |-> kind, session |-> s, stale |-> ~Valid(s)]]
  /\ UNCHANGED <<now, table, throttle, login>>

Proceed(q, pc) == request' = [request EXCEPT ![q].pc = pc]
Finish(q) == request' = [request EXCEPT ![q] = Idle]

\* (Faulty variant: a session that is in the table will do.)
ProtectByPresence(q) ==
  /\ request[q].pc = "protect"
  /\ IF request[q].session \in Stored
     THEN Proceed(q, IF request[q].kind = "write" THEN "handler" ELSE "acting")
     ELSE Finish(q)
  /\ UNCHANGED <<now, table, throttle, login>>

\* protect: the check in front of every page and every API but the agents'.
\* Handlers that change devices check once more.
Protect(q) ==
  /\ request[q].pc = "protect"
  /\ IF Valid(request[q].session)
     THEN Proceed(q, IF request[q].kind = "write" THEN "handler" ELSE "acting")
     ELSE Finish(q)
  /\ UNCHANGED <<now, table, throttle, login>>

CheckAgain(q) ==
  /\ request[q].pc = "handler"
  /\ IF Valid(request[q].session) THEN Proceed(q, "acting") ELSE Finish(q)
  /\ UNCHANGED <<now, table, throttle, login>>

\* The handler does its work; that of logout is to drop the session.
Act(q) ==
  /\ request[q].pc = "acting"
  /\ sessions' = IF request[q].kind = "logout"
                 THEN [sessions EXCEPT ![request[q].session] = 0] ELSE sessions
  /\ Finish(q)
  /\ UNCHANGED <<now, drawn, throttle, login>>

\* The table and everything under way go with the process; cookies remain.
Restart ==
  /\ sessions' = [s \in Session |-> 0]
  /\ window' = 0 /\ attempts' = 0
  /\ admitted' = <<>>
  /\ login' = [l \in Login |-> Idle]
  /\ request' = [q \in Request |-> Idle]
  /\ UNCHANGED <<now, drawn>>

Next ==
  \/ Tick
  \/ \E l \in Login :
       \/ \E good \in BOOLEAN : BeginLogin(l, good)
       \/ RefuseLogin(l)
       \/ Mint(l)
  \/ \E q \in Request :
       \/ \E kind \in {"read", "write", "logout"}, s \in Session : Send(q, kind, s)
       \/ Protect(q) \/ CheckAgain(q) \/ Act(q)
  \/ Restart

Spec == Init /\ [][Next]_vars

-----------------------------------------------------------------------------
(***************************************************************************)
(* Properties.                                                             *)
(***************************************************************************)

\* The table never holds more than its limit, however many logins passed the
\* credential check side by side.
SessionCap == Cardinality(Stored) <= MaxSessions

\* A session that expired, was logged out or was lost in a restart never
\* becomes valid again; no login or request revives it.
DeadSessionsStayDead ==
  [][\A s \in drawn : ~Valid(s) => ~Valid(s)']_vars

\* No session ends but by its time, by its own logout or by a restart: a login
\* that purges with the time it read earlier takes no valid session away.
ValidSessionsKept ==
  [][\A s \in Session :
       Valid(s) /\ sessions'[s] # sessions[s] =>
         \/ \E q \in Request : request[q].pc = "acting" /\ request[q].kind = "logout"
                                 /\ request[q].session = s
         \/ sessions' = [x \in Session |-> 0] /\ attempts' = 0]_vars

\* Nothing is done for a request whose session was not valid when it came.
StaleRequestRefused ==
  \A q \in Request : request[q].pc = "acting" => ~request[q].stale

\* However the attempts fall against the windows, no span of one window's
\* length sees more than two windows' worth of them let through to the credential.
ThrottleHolds ==
  \A i, j \in DOMAIN admitted :
    j = i + 2 * MaxAttempts => admitted[j] - admitted[i] >= Window
=============================================================================
