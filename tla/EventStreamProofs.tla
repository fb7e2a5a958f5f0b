------------------------- MODULE EventStreamProofs --------------------------
(***************************************************************************)
(* The safety of EventStream for any set of changes and any number of      *)
(* logins and failures, and the safety half of its refinement of           *)
(* HintChannel.                                                            *)
(***************************************************************************)
EXTENDS EventStream, TLAPS

\* No check is for a login still to come, a page is signed in with a login
\* it has made, a stream belongs to an established source, and a negative
\* answer stays true: the session of a login is created once.
ChecksInv ==
  /\ \A l \in sessions : l <= login
  /\ \A k \in checks : k.login <= login
  /\ \A k \in checks : k.answer = "unauthenticated" => k.login \notin sessions
  /\ user => login >= 1
  /\ source # "established" => stream = "none"

IInv == OneReconnection /\ ChecksInv

USE BoundAssumption
-----------------------------------------------------------------------------
LEMMA InitInv == Init => IInv
<1> SUFFICES ASSUME Init PROVE IInv
  OBVIOUS
<1>1. wire \in Seq({"open", "hint"}) /\ checks \subseteq [login : Login, answer : Answers]
  BY DEF Init
<1>2. login \in 0 .. MaxLogin /\ faults \in 0 .. MaxFaults /\ queue \in Nat
  BY DEF Init
<1>3. TypeOK
  BY <1>1, <1>2 DEF Init, TypeOK
<1> QED BY <1>3 DEF Init, IInv, OneReconnection, OwnChecks, ChecksInv

\* The server's steps, and those of the page that leave its checks alone.
LEMMA ServerInv ==
  ASSUME IInv,
         \/ \E c \in Change : Commit(c)
         \/ ChangeAccess \/ EndSession \/ Suppress \/ Interrupt
         \/ Open \/ Forward \/ Close \/ Expire
  PROVE  IInv'
<1> USE DEF IInv, OneReconnection, OwnChecks, ChecksInv, TypeOK, Login, Answers,
            controller, server, history, Fault
<1>1. ASSUME NEW c \in Change, Commit(c) PROVE IInv'
  BY <1>1 DEF Commit
<1>2. CASE ChangeAccess
  BY <1>2 DEF ChangeAccess
<1>3. CASE EndSession
  BY <1>3 DEF EndSession
<1>4. CASE Suppress
  BY <1>4 DEF Suppress
<1>5. CASE Interrupt
  BY <1>5 DEF Interrupt
<1>6. CASE Open
  BY <1>6 DEF Open
<1>7. CASE Forward
  BY <1>7 DEF Forward
<1>8. CASE Close
  BY <1>8 DEF Close
<1>9. CASE Expire
  BY <1>9 DEF Expire
<1> QED BY <1>1, <1>2, <1>3, <1>4, <1>5, <1>6, <1>7, <1>8, <1>9

\* The types, for the steps of the page.
LEMMA PageTypes ==
  ASSUME IInv,
         SignIn \/ SignOut \/ Receive \/ Reconnect \/ TerminalFailure \/ Retry
  PROVE  TypeOK'
<1> USE DEF IInv, OneReconnection, TypeOK, server, history
<1>1. CASE SignIn
  <2>1. wire' \in Seq({"open", "hint"}) /\ checks' \subseteq [login : Login, answer : Answers]
    BY <1>1 DEF SignIn
  <2>2. login' \in 0 .. MaxLogin /\ sessions' \subseteq Login
    BY <1>1 DEF SignIn, Login
  <2> QED BY <1>1, <2>1, <2>2 DEF SignIn
<1>2. CASE SignOut
  <2>1. wire' \in Seq({"open", "hint"}) /\ checks' \subseteq [login : Login, answer : Answers]
    BY <1>2 DEF SignOut, Stop, NoStream
  <2> QED BY <1>2, <2>1 DEF SignOut, Stop, NoStream
<1>3. CASE Receive
  <2>1. wire' \in Seq({"open", "hint"}) /\ checks' \subseteq [login : Login, answer : Answers]
    BY <1>3 DEF Receive
  <2> QED BY <1>3, <2>1 DEF Receive
<1>4. CASE Reconnect
  <2>1. wire' \in Seq({"open", "hint"}) /\ checks' \subseteq [login : Login, answer : Answers]
    BY <1>4 DEF Reconnect, NoStream
  <2> QED BY <1>4, <2>1 DEF Reconnect, NoStream
<1>5. CASE TerminalFailure \/ Retry
  <2>1. wire' \in Seq({"open", "hint"}) /\ faults' \in 0 .. MaxFaults
    BY <1>5 DEF TerminalFailure, Retry, Fault
  <2>2. login \in Login
    BY <1>5 DEF TerminalFailure, Retry, ChecksInv, Login
  <2>3. checks' \subseteq [login : Login, answer : Answers]
    BY <1>5, <2>2 DEF TerminalFailure, Retry, Answers
  <2> QED BY <1>5, <2>1, <2>3 DEF TerminalFailure, Retry
<1> QED BY <1>1, <1>2, <1>3, <1>4, <1>5

\* A new login has no check yet, and its session is the only one.
LEMMA PageInv ==
  ASSUME IInv, SignIn \/ SignOut \/ Receive \/ Reconnect
  PROVE  IInv'
<1>1. TypeOK'
  BY PageTypes
<1>2. CASE SignIn
  <2>1. OwnChecks' = {}
    BY <1>2 DEF IInv, ChecksInv, OneReconnection, TypeOK, SignIn, OwnChecks
  <2>2. ChecksInv'
    BY <1>2 DEF IInv, ChecksInv, OneReconnection, TypeOK, SignIn, Login, server
  <2> QED BY <1>1, <1>2, <2>1, <2>2 DEF IInv, OneReconnection, SignIn
<1>3. CASE SignOut \/ Receive \/ Reconnect
  <2>1. OwnChecks' = OwnChecks
    BY <1>3 DEF OwnChecks, SignOut, Receive, Reconnect
  <2>2. ChecksInv'
    BY <1>3 DEF IInv, ChecksInv, SignOut, Receive, Reconnect, Stop, NoStream
  <2> QED BY <1>1, <1>3, <2>1, <2>2
          DEF IInv, OneReconnection, SignOut, Receive, Reconnect, Stop
<1> QED BY <1>2, <1>3

\* A failure, and a retry after an inconclusive answer, issue a check when
\* there is none; the other retry makes a new attempt.
LEMMA RecoveryInv ==
  ASSUME IInv, TerminalFailure \/ Retry
  PROVE  IInv'
<1> DEFINE k == [login |-> login, answer |-> "pending"]
<1>1. TypeOK'
  BY PageTypes
<1>2. OwnChecks = {}
  BY DEF IInv, OneReconnection, TerminalFailure, Retry
<1>3. \/ OwnChecks' = {k} /\ source' = "none"
      \/ OwnChecks' = {} /\ source' # "none"
  BY <1>2 DEF IInv, OneReconnection, TerminalFailure, Retry, OwnChecks
<1>4. ChecksInv'
  BY DEF IInv, ChecksInv, OneReconnection, TypeOK, TerminalFailure, Retry, server
<1> QED BY <1>1, <1>3, <1>4 DEF IInv, OneReconnection, TerminalFailure, Retry

\* An answer replaces the check it belongs to.
LEMMA AnswerInv ==
  ASSUME IInv, NEW k \in checks, AnswerCheck(k)
  PROVE  IInv'
<1> USE DEF IInv
<1>1. PICK a \in Answers :
        /\ a = "unauthenticated" => k.login \notin sessions
        /\ checks' = (checks \ {k}) \cup {[k EXCEPT !.answer = a]}
  BY DEF AnswerCheck
<1> DEFINE n == [login |-> k.login, answer |-> a]
<1>2. k \in [login : Login, answer : Answers]
  BY DEF OneReconnection, TypeOK
<1>3. checks' = (checks \ {k}) \cup {n}
  BY <1>1, <1>2
<1>4. n \in [login : Login, answer : Answers]
  BY <1>2
<1> HIDE DEF n
<1>5. n.login = k.login /\ n.answer = a
  BY DEF n
<1>6. TypeOK'
  <2>1. checks' \subseteq [login : Login, answer : Answers]
    BY <1>3, <1>4 DEF OneReconnection, TypeOK
  <2>2. wire' \in Seq({"open", "hint"}) /\ faults' \in 0 .. MaxFaults
    BY DEF OneReconnection, TypeOK, AnswerCheck, Fault, server
  <2> QED BY <2>1, <2>2 DEF OneReconnection, TypeOK, AnswerCheck, server, history
<1>7. ChecksInv'
  BY <1>1, <1>3, <1>5 DEF ChecksInv, AnswerCheck, server
<1>8. /\ \A k1, k2 \in OwnChecks' : k1 = k2
      /\ OwnChecks' = {} <=> OwnChecks = {}
  BY <1>3, <1>5 DEF OneReconnection, OwnChecks, AnswerCheck
<1> QED BY <1>6, <1>7, <1>8 DEF OneReconnection, AnswerCheck

\* What a controller does with an answer, stopped or not.
LEMMA AnsweredInv ==
  ASSUME IInv, NEW k \in checks, AuthenticationLost(k) \/ BackOff(k)
  PROVE  IInv'
<1> USE DEF IInv, OneReconnection, OwnChecks, ChecksInv, TypeOK, Login, Answers,
            controller, server, history
<1>1. CASE AuthenticationLost(k)
  BY <1>1 DEF AuthenticationLost, Active, Stop, NoStream
<1>2. CASE BackOff(k)
  BY <1>2 DEF BackOff, Active
<1> QED BY <1>1, <1>2

LEMMA NextInv == IInv /\ [Next]_vars => IInv'
<1> SUFFICES ASSUME IInv, [Next]_vars PROVE IInv'
  OBVIOUS
<1>1. CASE Next
  BY <1>1, ServerInv, PageInv, RecoveryInv, AnswerInv, AnsweredInv
     DEF Next, Progress, Checking
<1>2. CASE UNCHANGED vars
  BY <1>2 DEF vars, controller, server, history, IInv, OneReconnection,
              OwnChecks, ChecksInv, TypeOK
<1> QED BY <1>1, <1>2

LEMMA Invariance == Spec => []IInv
BY InitInv, NextInv, PTL DEF Spec
-----------------------------------------------------------------------------
(* While a page is signed in, exactly one of its event source, its check   *)
(* of the session and its back-off timer is under way (the controller of   *)
(* work-item-events.ts), after any sequence of failures, late answers,     *)
(* logouts and new logins.                                                 *)
THEOREM ReconnectionSafe == Spec => []OneReconnection
<1>1. IInv => OneReconnection
  BY DEF IInv
<1> QED BY Invariance, <1>1, PTL

(* A page is signed out by its user or when its session is gone: the late  *)
(* answer of a stopped controller (isActive in work-item-events.ts) never  *)
(* ends the login after it.                                                *)
THEOREM OwnSessionLost == Spec => LosesOnlyItsSession
<1>1. IInv /\ [Next]_vars => [(user /\ ~user') => (SignOut \/ login \notin sessions)]_vars
  <2> SUFFICES ASSUME IInv, Next, user, ~user', ~SignOut
               PROVE  login \notin sessions
    OBVIOUS
  <2>1. PICK k \in checks : AuthenticationLost(k)
    BY DEF Next, Progress, Checking, Commit, ChangeAccess, EndSession, Suppress,
           Interrupt, SignIn, Open, Forward, Close, Expire, Receive, Reconnect,
           TerminalFailure, Retry, AnswerCheck, BackOff, controller
  <2>2. Active(k)
    BY <2>1 DEF AuthenticationLost
  <2> QED BY <2>1, <2>2 DEF AuthenticationLost, Active, IInv, ChecksInv
<1> QED BY Invariance, <1>1, PTL DEF Spec, LosesOnlyItsSession
-----------------------------------------------------------------------------
(* The steps of HintChannel that implement those of the stream: a commit   *)
(* is a commit, a received frame a signal, a suppression an excuse, the    *)
(* end of a stream a reopening, a login or logout a toggle.                *)
LEMMA ChannelStep ==
  ASSUME IInv, Next
  PROVE  Channel!Next \/ UNCHANGED Channel!vars
<1> USE DEF SignalUnderway, IInv, OneReconnection, ChecksInv, TypeOK,
            controller, server, history, Channel!vars
<1>1. ASSUME NEW c \in Change, Commit(c) PROVE Channel!Commit(c) 
  BY <1>1 DEF Commit, Channel!Commit
<1>2. CASE ChangeAccess \/ EndSession
  BY <1>2 DEF ChangeAccess, EndSession
<1>3. CASE Suppress
  BY <1>3 DEF Suppress, Channel!Excuse, Channel!Next
<1>4. CASE Interrupt \/ Expire
  BY <1>4 DEF Interrupt, Expire, Channel!Reopen, Channel!Next
<1>5. CASE SignIn \/ SignOut
  <2>1. user' = ~user
    BY <1>5 DEF SignIn, SignOut, Stop
  <2>2. SignalUnderway'
    BY <1>5 DEF SignIn, SignOut, Stop, NoStream
  <2>3. UNCHANGED <<committed, history>>
    BY <1>5 DEF SignIn, SignOut
  <2> QED BY <2>1, <2>2, <2>3 DEF Channel!Toggle, Channel!Next
<1>6. CASE Open \/ Forward \/ Close
  <2>1. SignalUnderway
    BY <1>6 DEF Open, Forward, Close
  <2>2. SignalUnderway'
    <3>1. ASSUME Forward PROVE wire' # <<>>
      BY <3>1 DEF Forward
    <3> QED BY <1>6, <3>1 DEF Open, Close
  <2>3. UNCHANGED <<committed, told, user, excused>>
    BY <1>6 DEF Open, Forward, Close
  <2> QED BY <2>1, <2>2, <2>3
<1>7. CASE Receive
  BY <1>7 DEF Receive, Channel!Signal, Channel!Next
<1>8. CASE Reconnect \/ TerminalFailure \/ Retry
  BY <1>8 DEF Reconnect, NoStream, TerminalFailure, Retry
<1>9. ASSUME NEW k \in checks, Checking(k)
      PROVE  Channel!Next \/ UNCHANGED Channel!vars
  <2>1. CASE AnswerCheck(k) \/ BackOff(k)
    BY <2>1 DEF AnswerCheck, BackOff
  <2>2. CASE AuthenticationLost(k)
    BY <2>2 DEF AuthenticationLost, Active, Stop, NoStream, Channel!Toggle,
                Channel!Next
  <2> QED BY <1>9, <2>1, <2>2 DEF Checking
<1> QED BY <1>1, <1>2, <1>3, <1>4, <1>5, <1>6, <1>7, <1>8, <1>9
        DEF Next, Progress, Channel!Next

(* The stream implements the safety of HintChannel: from the commit of a   *)
(* change on a signal is under way, until the page is told or detached or  *)
(* a notification is suppressed (work_items/realtime.py).  That the signal *)
(* arrives is the liveness half, which TLC checks.                         *)
THEOREM ChannelSafety == Spec => Channel!Init /\ [][Channel!Next]_Channel!vars
<1>1. Init => Channel!Init
  BY DEF Init, Channel!Init, SignalUnderway
<1>2. IInv /\ [Next]_vars => [Channel!Next]_Channel!vars
  <2>1. UNCHANGED vars => UNCHANGED Channel!vars
    BY DEF vars, controller, server, history, Channel!vars, SignalUnderway
  <2> QED BY ChannelStep, <2>1
<1> QED BY Invariance, <1>1, <1>2, PTL DEF Spec
=============================================================================
