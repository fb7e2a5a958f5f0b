---------------------------- MODULE EventStream -----------------------------
(***************************************************************************)
(* The Work Item invalidation stream: the publication and the event stream *)
(* of work_items/realtime.py, and the controller of                        *)
(* apps/web/src/api/work-item-events.ts in one browser page with its       *)
(* session (SessionProvider.tsx).                                          *)
(*                                                                         *)
(* The server checks the session and the access to the Project again for   *)
(* every notification.  Network and server can fail MaxFaults times.       *)
(***************************************************************************)
EXTENDS Integers, Sequences

CONSTANTS
  Change,     \* the changes of Work Items that can be committed
  MaxLogin,   \* bound: how often the page signs in
  MaxFaults   \* bound: how often the network or the server fails

ASSUME BoundAssumption == MaxLogin \in Nat \ {0} /\ MaxFaults \in Nat

VARIABLES
  committed,  \* the changes in the database
  access,     \* the user may read the Project
  sessions,   \* the logins whose server session exists
  login,      \* the latest login of the page
  user,       \* the page is signed in (SessionProvider's user)
  source,     \* the EventSource: "none", "connecting" or "established"
  greeted,    \* handshakeSeen
  checks,     \* fresh authentication checks under way, by login
  timer,      \* backoffTimer: "none", or the result it was set with
  stream,     \* the server's stream: "none", "listening" or "ended"
  queue,      \* notifications the listener has received
  wire,       \* frames sent and not yet received
  faults,     \* failures so far
  told,       \* what was committed at the page's latest signal
  excused     \* a notification was suppressed since then

controller == <<login, user, source, greeted, checks, timer>>
server == <<stream, queue, wire>>
history == <<told, excused>>
vars == <<committed, access, sessions, controller, server, faults, history>>

Login == 1 .. MaxLogin
Answers == {"pending", "valid", "unauthenticated", "inconclusive"}

TypeOK ==
  /\ committed \subseteq Change
  /\ access \in BOOLEAN
  /\ sessions \subseteq Login
  /\ login \in 0 .. MaxLogin
  /\ user \in BOOLEAN
  /\ source \in {"none", "connecting", "established"}
  /\ greeted \in BOOLEAN
  /\ checks \subseteq [login : Login, answer : Answers]
  /\ timer \in {"none", "valid", "inconclusive"}
  /\ stream \in {"none", "listening", "ended"}
  /\ queue \in Nat /\ (stream # "listening" => queue = 0)
  /\ wire \in Seq({"open", "hint"}) /\ (stream = "none" => wire = <<>>)
  /\ faults \in 0 .. MaxFaults
  /\ told \subseteq Change
  /\ excused \in BOOLEAN

Init ==
  /\ committed = {}
  /\ access = TRUE
  /\ sessions = {}
  /\ login = 0
  /\ user = FALSE
  /\ source = "none" /\ greeted = FALSE
  /\ checks = {} /\ timer = "none"
  /\ stream = "none" /\ queue = 0 /\ wire = <<>>
  /\ faults = 0
  /\ told = {} /\ excused = FALSE

Fault == faults < MaxFaults /\ faults' = faults + 1

NoStream == stream' = "none" /\ queue' = 0 /\ wire' = <<>>

-----------------------------------------------------------------------------
(* Services and sessions on the server *)

\* Faulty variant: the notification is not part of the transaction.
CommitSilently(c) ==
  /\ c \notin committed
  /\ committed' = committed \cup {c}
  /\ UNCHANGED <<access, sessions, controller, server, faults, history>>

\* publish_project_work_item_changed: pg_notify reaches the connections
\* that LISTEN when the transaction commits.
Commit(c) ==
  /\ c \notin committed
  /\ committed' = committed \cup {c}
  /\ queue' = IF stream = "listening" THEN queue + 1 ELSE queue
  /\ UNCHANGED <<access, sessions, controller, stream, wire, faults, history>>

ChangeAccess ==
  /\ access' = ~access
  /\ UNCHANGED <<committed, sessions, controller, server, faults, history>>

\* Logout, revocation from another device, expiry, suspension.
EndSession ==
  /\ sessions # {}
  /\ sessions' = {}
  /\ UNCHANGED <<committed, access, controller, server, faults, history>>

-----------------------------------------------------------------------------
(* The server's stream *)

\* work_item_event_stream: LISTEN, then the open frame.
Open ==
  /\ source = "connecting" /\ login \in sessions
  /\ source' = "established"
  /\ stream' = "listening" /\ queue' = 0 /\ wire' = <<"open">>
  /\ UNCHANGED <<committed, access, sessions, login, user, greeted, checks,
                 timer, faults, history>>

\* _handle_notification: a frame for a user who may still read the Project.
Forward ==
  /\ stream = "listening" /\ queue > 0
  /\ login \in sessions /\ access
  /\ queue' = queue - 1
  /\ wire' = Append(wire, "hint")
  /\ UNCHANGED <<committed, access, sessions, controller, stream, faults,
                 history>>

\* No frame without access, nor after a failed lookup.
Suppress ==
  /\ stream = "listening" /\ queue > 0
  /\ \/ login \in sessions /\ ~access /\ UNCHANGED faults
     \/ Fault
  /\ queue' = queue - 1
  /\ excused' = TRUE
  /\ UNCHANGED <<committed, access, sessions, controller, stream, wire, told>>

\* The session is found gone at a delivery.
Close ==
  /\ stream = "listening" /\ queue > 0
  /\ login \notin sessions
  /\ stream' = "ended" /\ queue' = 0
  /\ UNCHANGED <<committed, access, sessions, controller, wire, faults,
                 history>>

\* STREAM_MAX_AGE_SECONDS, longer than a handshake takes.
Expire ==
  /\ stream = "listening" /\ greeted
  /\ stream' = "ended" /\ queue' = 0
  /\ UNCHANGED <<committed, access, sessions, controller, wire, faults,
                 history>>

\* The connection, the worker or the listener dies.
Interrupt ==
  /\ stream = "listening"
  /\ Fault
  /\ stream' = "ended" /\ queue' = 0 /\ wire' = <<>>
  /\ UNCHANGED <<committed, access, sessions, controller, history>>

-----------------------------------------------------------------------------
(* The controller in the page *)

Stop ==
  /\ user' = FALSE
  /\ source' = "none" /\ greeted' = FALSE
  /\ timer' = "none"
  /\ NoStream

\* login in SessionProvider; the hook creates and starts a controller.  The
\* server replaces the session the browser may still have.
SignIn ==
  /\ ~user /\ login < MaxLogin
  /\ login' = login + 1
  /\ user' = TRUE
  /\ sessions' = {login + 1}
  /\ source' = "connecting" /\ greeted' = FALSE
  /\ UNCHANGED <<committed, access, checks, timer, server, faults, history>>

\* logout in SessionProvider, whose request may have failed.
SignOut ==
  /\ user
  /\ Stop
  /\ UNCHANGED <<committed, access, sessions, login, checks, faults, history>>

\* handleOpen and handleWorkItemChanged: the page is told to fetch.
Receive ==
  /\ source = "established" /\ wire # <<>>
  /\ wire' = Tail(wire)
  /\ greeted' = (greeted \/ Head(wire) = "open")
  /\ told' = committed
  /\ excused' = FALSE
  /\ UNCHANGED <<committed, access, sessions, login, user, source, checks,
                 timer, stream, queue, faults>>

\* handleSourceError with readyState CONNECTING: the browser reconnects.
Reconnect ==
  /\ source = "established" /\ stream = "ended" /\ wire = <<>>
  /\ source' = "connecting" /\ greeted' = FALSE
  /\ NoStream
  /\ UNCHANGED <<committed, access, sessions, login, user, checks, timer,
                 faults, history>>

\* Faulty variant: the closed instance is kept.
TerminalFailureKept ==
  /\ source = "connecting"
  /\ login \notin sessions \/ faults < MaxFaults
  /\ faults' = IF login \in sessions THEN faults + 1 ELSE faults
  /\ checks' = checks \cup {[login |-> login, answer |-> "pending"]}
  /\ UNCHANGED <<committed, access, sessions, login, user, source, greeted,
                 timer, server, history>>

\* handleSourceError with readyState CLOSED, after a 401 or a 5xx.
TerminalFailure ==
  /\ source = "connecting"
  /\ \/ login \notin sessions /\ UNCHANGED faults
     \/ Fault
  /\ source' = "none"
  /\ checks' = checks \cup {[login |-> login, answer |-> "pending"]}
  /\ UNCHANGED <<committed, access, sessions, login, user, greeted, timer,
                 server, history>>

\* GET /api/auth/me/ as the server sees it, with the cookie of its login.
AnswerCheck(k) ==
  /\ k.answer = "pending"
  /\ \E a \in Answers :
       /\ \/ a = "valid" /\ k.login \in sessions /\ UNCHANGED faults
          \/ a = "unauthenticated" /\ k.login \notin sessions /\ UNCHANGED faults
          \/ a = "inconclusive" /\ Fault
       /\ checks' = (checks \ {k}) \cup {[k EXCEPT !.answer = a]}
  /\ UNCHANGED <<committed, access, sessions, login, user, source, greeted,
                 timer, server, history>>

\* Faulty variant: the controller does not ask whether it was stopped.
ActiveAlways(k) == user

\* isActive of the controller that issued the check
Active(k) == user /\ k.login = login

\* Faulty variant: the session is not told that it is lost.
LossUnreported(k) ==
  /\ k.answer = "unauthenticated"
  /\ checks' = checks \ {k}
  /\ UNCHANGED <<committed, access, sessions, login, user, source, greeted,
                 timer, server, faults, history>>

\* runRecovery after the answer: the controller stops and tells the session.
AuthenticationLost(k) ==
  /\ k.answer = "unauthenticated"
  /\ checks' = checks \ {k}
  /\ IF Active(k)
     THEN Stop
     ELSE UNCHANGED <<user, source, greeted, timer, server>>
  /\ UNCHANGED <<committed, access, sessions, login, faults, history>>

BackOff(k) ==
  /\ k.answer \in {"valid", "inconclusive"}
  /\ checks' = checks \ {k}
  /\ timer' = IF Active(k) THEN k.answer ELSE timer
  /\ UNCHANGED <<committed, access, sessions, login, user, source, greeted,
                 server, faults, history>>

\* The timer fires: a new EventSource, or first another check.
Retry ==
  /\ timer # "none"
  /\ timer' = "none"
  /\ IF timer = "valid"
     THEN source' = "connecting" /\ UNCHANGED checks
     ELSE checks' = checks \cup {[login |-> login, answer |-> "pending"]}
          /\ UNCHANGED source
  /\ UNCHANGED <<committed, access, sessions, login, user, greeted, server,
                 faults, history>>

-----------------------------------------------------------------------------

Checking(k) == AnswerCheck(k) \/ AuthenticationLost(k) \/ BackOff(k)

\* What the server and the browser do by themselves.
Progress ==
  \/ Open \/ Forward \/ Close \/ Expire
  \/ Receive \/ Reconnect \/ TerminalFailure \/ Retry

Next ==
  \/ \E c \in Change : Commit(c)
  \/ ChangeAccess \/ EndSession
  \/ Suppress \/ Interrupt
  \/ SignIn \/ SignOut
  \/ Progress
  \/ \E k \in checks : Checking(k)

\* Requests are answered, frames arrive, timers fire and streams expire.
\* Nothing makes anybody commit, sign in or out, or lose a session.
Fairness ==
  /\ WF_vars(Open \/ TerminalFailure)
  /\ WF_vars(Forward \/ Suppress \/ Close)
  /\ WF_vars(Expire)
  /\ WF_vars(Receive)
  /\ WF_vars(Reconnect)
  /\ WF_vars(Retry)
  /\ \A l \in Login, a \in Answers :
       WF_vars(LET k == [login |-> l, answer |-> a]
               IN  k \in checks /\ Checking(k))

Spec == Init /\ [][Next]_vars /\ Fairness

-----------------------------------------------------------------------------
(* Properties *)

OwnChecks == {k \in checks : k.login = login}

\* While a page is signed in, its controller has exactly one thing under
\* way that leads to a connection: never two recovery loops, never none.
OneReconnection ==
  /\ TypeOK
  /\ \A k1, k2 \in OwnChecks : k1 = k2
  /\ source = "none" \/ timer = "none"
  /\ user => (OwnChecks = {} <=> source # "none" \/ timer # "none")
  /\ ~user => source = "none" /\ timer = "none"

\* A page is signed out by its user or because its own session is gone; a
\* late answer about an earlier session does not sign out a new one.
LosesOnlyItsSession ==
  [][(user /\ ~user') => (SignOut \/ login \notin sessions)]_vars

\* A page whose session was ended elsewhere finds out, with no request of
\* its own and no change in the Project.
RevocationReachesPage == (user /\ login \notin sessions) ~> ~user

\* A notification or a frame exists, or the next open frame will be one.
SignalUnderway == queue > 0 \/ wire # <<>> \/ stream # "listening"

Channel == INSTANCE HintChannel
             WITH attached <- user, underway <- SignalUnderway

\* The stream keeps the promise of HintChannel.
ImplementsChannel == Channel!Spec
=============================================================================
