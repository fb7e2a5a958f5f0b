------------------------ MODULE AccountAccessProofs ------------------------
(***************************************************************************)
(* The properties of AccountAccess for any number of tokens, requests,     *)
(* browsers and sessions.  Its two halves share only the accounts, so the  *)
(* inductive invariant is a conjunction of two that are proved apart.      *)
(***************************************************************************)
EXTENDS AccountAccess, TLAPS

Creating(w) == task[w].step \in {"checked", "enforced"}
Redeeming(w) == task[w].step = "redeeming"

\* One pending row at most, so a worker that redeems holds the only one, and
\* whoever still creates an invitation for an account has been overtaken.
InviteInv ==
    /\ accounts <= 1
    /\ \A s, t \in Pending : s = t
    /\ \A w \in Worker : Redeeming(w) =>
          task[w].token \in Pending /\ locked[task[w].token] = w /\ accounts = 0
    /\ TokenNeedsRace
    /\ accounts > 0 => \A w \in Worker : Creating(w) => w \in overtaken

\* A live session whose sign-in has returned is in the registry, and a
\* revocation that has selected its rows has those it is due to end.
SessionInv ==
    /\ known \cap sessions \subseteq registered
    /\ leaving \cap sessions = {}
    /\ \A b \in Browser :
        /\ revoking[b].due \subseteq known
        /\ revoking[b].kind = "one" => revoking[b].due = {}
        /\ revoking[b].kind = "others" => revoking[b].current \notin revoking[b].due
        /\ revoking[b].step = "selected" =>
              /\ revoking[b].due \cap sessions \subseteq revoking[b].rows
              /\ revoking[b].kind = "others" => revoking[b].current \notin revoking[b].rows

IInv == TypeOK /\ InviteInv /\ SessionInv

USE NoOneAssumption

-----------------------------------------------------------------------------
(* Types *)

LEMMA InitInv == Init => IInv
<1> SUFFICES ASSUME Init PROVE IInv
  OBVIOUS
<1>1. TypeOK
  BY DEF Init, TypeOK, Idle, NoRevocation, MaxAttempts
<1>2. InviteInv
  BY DEF Init, InviteInv, TokenNeedsRace, Pending, Usable, Redeeming, Creating, Idle
<1>3. SessionInv
  BY DEF Init, SessionInv, NoRevocation
<1> QED BY <1>1, <1>2, <1>3 DEF IInv

LEMMA InvitingTypes ==
  ASSUME TypeOK, Inviting
  PROVE  TypeOK'
<1> USE DEF TypeOK, invites, access, Does, Rests, Idle, MaxAttempts
<1>1. ASSUME NEW t \in Token, Age(t) PROVE TypeOK'
  BY <1>1 DEF Age, Usable, Pending
<1>2. ASSUME NEW t \in Token, Settle(t) PROVE TypeOK'
  BY <1>2 DEF Settle, Pending
<1>3. ASSUME NEW w \in Worker, CheckAddress(w) PROVE TypeOK'
  BY <1>3 DEF CheckAddress
<1>4. ASSUME NEW w \in Worker, EnforceNonePending(w) PROVE TypeOK'
  <2>1. task[w].attempt \in 0..3
    BY <1>4
  <2>2. task' \in [Worker -> [step : {"idle", "checked", "enforced", "redeeming"},
                              token : Token \cup {NoOne}, attempt : 0..3]]
    BY <1>4, <2>1 DEF EnforceNonePending
  <2>3. locked' \in [Token -> Worker \cup {NoOne}]
    BY <1>4 DEF EnforceNonePending
  <2> QED BY <1>4, <2>2, <2>3 DEF EnforceNonePending
<1>5. ASSUME NEW w \in Worker, InsertInvitation(w) PROVE TypeOK'
  BY <1>5 DEF InsertInvitation, Unlocked
<1>6. ASSUME NEW w \in Worker, InsertConflicts(w) PROVE TypeOK'
  <2>1. task[w].attempt < 3 => task[w].attempt + 1 \in 0..3
    BY <1>6
  <2>2. task' \in [Worker -> [step : {"idle", "checked", "enforced", "redeeming"},
                              token : Token \cup {NoOne}, attempt : 0..3]]
    BY <1>6, <2>1 DEF InsertConflicts
  <2> QED BY <1>6, <2>2 DEF InsertConflicts, Unlocked
<1>7. ASSUME NEW w \in Worker, CommitRegistration(w) PROVE TypeOK'
  <2>1. invitation' \in [Token -> {"none", "pending", "accepted", "revoked", "expired"}]
    BY <1>7 DEF CommitRegistration
  <2>2. locked' \in [Token -> Worker \cup {NoOne}]
    BY <1>7 DEF CommitRegistration, Unlocked
  <2>3. task' \in [Worker -> [step : {"idle", "checked", "enforced", "redeeming"},
                              token : Token \cup {NoOne}, attempt : 0..3]]
    BY <1>7 DEF CommitRegistration
  <2>4. overtaken' \subseteq Worker /\ accounts' \in Nat
    BY <1>7 DEF CommitRegistration
  <2> QED BY <1>7, <2>1, <2>2, <2>3, <2>4 DEF CommitRegistration
<1>8. ASSUME NEW w \in Worker, FailRegistration(w) PROVE TypeOK'
  BY <1>8 DEF FailRegistration, Unlocked
<1>9. ASSUME NEW w \in Worker, NEW t \in Token, ResolveToken(w, t) PROVE TypeOK'
  <2>1. invitation' \in [Token -> {"none", "pending", "accepted", "revoked", "expired"}]
    BY <1>9 DEF ResolveToken
  <2>2. locked' \in [Token -> Worker \cup {NoOne}]
    BY <1>9 DEF ResolveToken
  <2>3. task' \in [Worker -> [step : {"idle", "checked", "enforced", "redeeming"},
                              token : Token \cup {NoOne}, attempt : 0..3]]
    BY <1>9 DEF ResolveToken
  <2> QED BY <1>9, <2>1, <2>2, <2>3 DEF ResolveToken
<1>10. CASE ListInvitations
  BY <1>10 DEF ListInvitations
<1> QED BY <1>1, <1>2, <1>3, <1>4, <1>5, <1>6, <1>7, <1>8, <1>9, <1>10 DEF Inviting

LEMMA SessionTypes ==
  ASSUME TypeOK, SessionStep
  PROVE  TypeOK'
<1> USE DEF TypeOK, invites
<1>1. ASSUME NEW b \in Browser, NEW s \in Session, SignIn(b, s) \/ AdminSignIn(b, s) PROVE TypeOK'
  BY <1>1 DEF SignIn, AdminSignIn
<1>2. ASSUME NEW b \in Browser, SignInReturns(b) PROVE TypeOK'
  <2>1. signing[b] \in used
    BY <1>2 DEF SignInReturns
  <2> QED BY <1>2, <2>1 DEF SignInReturns
<1>3. ASSUME NEW b \in Browser, Request(b) PROVE TypeOK'
  BY <1>3 DEF Request, SignedIn
<1>4. ASSUME NEW b \in Browser, Logout(b) PROVE TypeOK'
  BY <1>4 DEF Logout, SignedIn
<1>5. ASSUME NEW b \in Browser, ListSessions(b) PROVE TypeOK'
  BY <1>5 DEF ListSessions
<1>6. ASSUME NEW b \in Browser, NEW kind \in {"one", "others", "all"}, BeginRevoke(b, kind)
      PROVE  TypeOK'
  BY <1>6 DEF BeginRevoke, SignedIn
<1>7. ASSUME NEW b \in Browser, SelectRows(b) PROVE TypeOK'
  <2>1. registered \subseteq Session
    OBVIOUS
  <2>a. PICK rows :
          /\ rows \in IF revoking[b].kind = "one" THEN {{s} : s \in registered}
                     ELSE {IF revoking[b].kind = "others" THEN registered \ {revoking[b].current}
                           ELSE registered}
          /\ revoking' = [revoking EXCEPT ![b] =
               [step |-> "selected", kind |-> revoking[b].kind, current |-> revoking[b].current,
                rows |-> rows, due |-> revoking[b].due]]
    BY <1>7 DEF SelectRows
  <2>2. rows \in SUBSET Session
    BY <2>1, <2>a
  <2>3. revoking' \in [Browser -> [step : {"none", "begun", "selected"},
                                   kind : {"none", "one", "others", "all"},
                                   current : Session \cup {NoOne},
                                   rows : SUBSET Session, due : SUBSET Session]]
    BY <2>a, <2>2
  <2> QED BY <1>7, <2>3 DEF SelectRows
<1>8. ASSUME NEW b \in Browser, CommitRevoke(b) PROVE TypeOK'
  BY <1>8 DEF CommitRevoke, NoRevocation
<1>9. ASSUME NEW s \in Session, RegisterTouched(s) \/ UnregisterSession(s) \/ Expire(s) PROVE TypeOK'
  BY <1>9 DEF RegisterTouched, UnregisterSession, Expire
<1> QED BY <1>1, <1>2, <1>3, <1>4, <1>5, <1>6, <1>7, <1>8, <1>9 DEF SessionStep
-----------------------------------------------------------------------------
(* Invitations *)

\* What holds of a worker that redeems a token: it holds the only pending row
\* and the address has no account, so no other worker redeems.
LEMMA RedeemerAlone ==
  ASSUME TypeOK, InviteInv, NEW w \in Worker, Redeeming(w)
  PROVE  /\ Pending = {task[w].token}
         /\ locked[task[w].token] = w
         /\ accounts = 0
         /\ \A v \in Worker : Redeeming(v) => v = w
  BY DEF InviteInv, TypeOK, Pending

\* Actions that leave the accounts alone, no row pending that was not, no
\* worker redeeming that did not.
LEMMA InvitingInv ==
  ASSUME TypeOK, InviteInv, Inviting
  PROVE  InviteInv'
<1> USE DEF InviteInv, TokenNeedsRace, Pending, Usable, Creating, Redeeming, Free, Does, Rests,
            Idle, TypeOK, MaxAttempts
<1>1. ASSUME NEW t \in Token, Age(t) PROVE InviteInv'
  BY <1>1 DEF Age
<1>2. ASSUME NEW t \in Token, Settle(t) PROVE InviteInv'
  <2>1. Pending' = Pending \ {t}
    BY <1>2 DEF Settle
  <2>2. \A w \in Worker : Redeeming(w) => task[w].token # t
    BY <1>2 DEF Settle
  <2> QED BY <1>2, <2>1, <2>2 DEF Settle
<1>3. ASSUME NEW w \in Worker, CheckAddress(w) PROVE InviteInv'
  BY <1>3 DEF CheckAddress
<1>4. ASSUME NEW w \in Worker, EnforceNonePending(w) PROVE InviteInv'
  <2>1. \A v \in Worker : ~Redeeming(v)
    BY <1>4 DEF EnforceNonePending
  <2>2. \A v \in Worker : ~Redeeming(v)' /\ (Creating(v)' => Creating(v))
    BY <1>4, <2>1 DEF EnforceNonePending
  <2> QED BY <1>4, <2>1, <2>2 DEF EnforceNonePending
<1>5. ASSUME NEW w \in Worker, InsertInvitation(w) PROVE InviteInv'
  <2>1. PICK t \in Token :
          /\ invitation[t] = "none"
          /\ invitation' = [s \in Token |-> IF s = t THEN "pending"
                                            ELSE IF s \in Held(w) THEN "expired" ELSE invitation[s]]
          /\ raced' = IF w \in overtaken THEN raced \cup {t} ELSE raced
    BY <1>5 DEF InsertInvitation
  <2>2. Pending' = {t}
    BY <1>5, <2>1 DEF InsertInvitation
  <2>3. \A v \in Worker : ~Redeeming(v)
    BY <1>5 DEF InsertInvitation, Held
  <2>4. \A v \in Worker : ~Redeeming(v)' /\ (Creating(v)' => Creating(v))
    BY <1>5, <2>3 DEF InsertInvitation
  <2>5. TokenNeedsRace'
    BY <1>5, <2>1, <2>2 DEF InsertInvitation
  <2>6. (\A s, u \in Pending : s = u)'
    BY <2>2
  <2> QED BY <1>5, <2>4, <2>5, <2>6 DEF InsertInvitation
<1>6. ASSUME NEW w \in Worker, InsertConflicts(w) PROVE InviteInv'
  <2>1. \A v \in Worker : v # w => task'[v] = task[v]
    BY <1>6 DEF InsertConflicts
  <2>2. ~Redeeming(w)' /\ Creating(w) /\ ~Redeeming(w)
    BY <1>6 DEF InsertConflicts
  <2>3. \A t \in Token : locked[t] # w => locked'[t] = locked[t]
    BY <1>6 DEF InsertConflicts, Unlocked
  <2>4. Pending' = Pending /\ TokenNeedsRace' /\ accounts' = accounts
    BY <1>6 DEF InsertConflicts
  <2>5. \A v \in Worker : Redeeming(v)' =>
          task'[v].token \in Pending' /\ locked'[task'[v].token] = v /\ accounts' = 0
    <3> SUFFICES ASSUME NEW v \in Worker, Redeeming(v)'
                 PROVE  task'[v].token \in Pending' /\ locked'[task'[v].token] = v /\ accounts' = 0
      OBVIOUS
    <3>1. v # w /\ Redeeming(v) /\ task'[v] = task[v]
      BY <2>1, <2>2
    <3>2. task[v].token \in Pending /\ locked[task[v].token] = v /\ accounts = 0
      BY <3>1
    <3> QED BY <2>3, <2>4, <3>1, <3>2
  <2>6. accounts' > 0 => \A v \in Worker : Creating(v)' => v \in overtaken'
    BY <1>6, <2>1, <2>2 DEF InsertConflicts
  <2> QED BY <2>4, <2>5, <2>6
<1>7. ASSUME NEW w \in Worker, CommitRegistration(w) PROVE InviteInv'
  <2>1. /\ Pending = {task[w].token} /\ accounts = 0
        /\ \A v \in Worker : Redeeming(v) => v = w
    BY <1>7, RedeemerAlone DEF CommitRegistration
  <2>2. Pending' = {} /\ accounts' = 1
    BY <1>7, <2>1 DEF CommitRegistration
  <2>3. \A v \in Worker : ~Redeeming(v)' /\ (Creating(v)' => Creating(v))
    BY <1>7, <2>1 DEF CommitRegistration
  <2>4. \A v \in Worker : Creating(v)' => v \in overtaken'
    BY <1>7, <2>3 DEF CommitRegistration
  <2> QED BY <2>2, <2>3, <2>4
<1>8. ASSUME NEW w \in Worker, FailRegistration(w) PROVE InviteInv'
  <2>1. \A v \in Worker : Redeeming(v) => v = w
    BY <1>8, RedeemerAlone DEF FailRegistration
  <2>2. \A v \in Worker : ~Redeeming(v)' /\ (Creating(v)' => Creating(v))
    BY <1>8, <2>1 DEF FailRegistration
  <2> QED BY <1>8, <2>2 DEF FailRegistration
<1>9. ASSUME NEW w \in Worker, NEW t \in Token, ResolveToken(w, t) PROVE InviteInv'
  <2>1. \A v \in Worker : ~Redeeming(v)
    BY <1>9 DEF ResolveToken
  <2>2. CASE t \in overdue
    <3>1. Pending' \subseteq Pending
      BY <1>9, <2>2 DEF ResolveToken
    <3> QED BY <1>9, <2>1, <2>2, <3>1 DEF ResolveToken
  <2>3. CASE t \notin overdue
    <3>1. accounts' = 0 /\ Pending' = Pending
      BY <1>9, <2>3 DEF ResolveToken
    <3>2. \A v \in Worker : Redeeming(v)' => v = w /\ task'[v].token = t /\ locked'[t] = v
      BY <1>9, <2>1, <2>3 DEF ResolveToken
    <3>3. \A v \in Worker : Redeeming(v)' =>
            task'[v].token \in Pending' /\ locked'[task'[v].token] = v /\ accounts' = 0
      BY <1>9, <3>1, <3>2 DEF ResolveToken
    <3>4. (\A u, v \in Pending : u = v)' /\ TokenNeedsRace' /\ accounts' <= 1
      BY <3>1
    <3> QED BY <3>1, <3>3, <3>4
  <2> QED BY <2>2, <2>3
<1>10. CASE ListInvitations
  <2>1. Pending' = Pending \ overdue
    BY <1>10 DEF ListInvitations
  <2>2. \A v \in Worker : Redeeming(v) => task[v].token \notin overdue
    BY <1>10 DEF ListInvitations
  <2> QED BY <1>10, <2>1, <2>2 DEF ListInvitations
<1> QED BY <1>1, <1>2, <1>3, <1>4, <1>5, <1>6, <1>7, <1>8, <1>9, <1>10 DEF Inviting

-----------------------------------------------------------------------------
(* Sessions *)

\* What a browser's revocation has to keep while the registry changes.
RevocationSound(b) ==
    /\ revoking[b].due \subseteq known
    /\ revoking[b].kind = "one" => revoking[b].due = {}
    /\ revoking[b].kind = "others" => revoking[b].current \notin revoking[b].due
    /\ revoking[b].step = "selected" =>
          /\ revoking[b].due \cap sessions \subseteq revoking[b].rows
          /\ revoking[b].kind = "others" => revoking[b].current \notin revoking[b].rows

LEMMA SessionStepInv ==
  ASSUME TypeOK, SessionInv, SessionStep
  PROVE  SessionInv'
<1>0. \A b \in Browser : RevocationSound(b)
  BY DEF SessionInv, RevocationSound
<1>a. ASSUME revoking' = revoking, known \subseteq known', sessions' \cap known \subseteq sessions,
             NEW b \in Browser
      PROVE  RevocationSound(b)'
  BY <1>0, <1>a DEF RevocationSound
<1>b. known \subseteq used /\ leaving \subseteq used
  BY DEF TypeOK
<1>1. ASSUME NEW b \in Browser, NEW s \in Session, SignIn(b, s) \/ AdminSignIn(b, s)
      PROVE  SessionInv'
  <2>1. /\ revoking' = revoking /\ known' = known /\ leaving' = leaving /\ registered' = registered
        /\ sessions' \subseteq sessions \cup {s} /\ s \notin used
    BY <1>1 DEF SignIn, AdminSignIn
  <2>2. \A a \in Browser : RevocationSound(a)'
    BY <2>1, <1>a, <1>b
  <2> QED BY <2>1, <2>2, <1>b DEF SessionInv, RevocationSound
<1>2. ASSUME NEW b \in Browser, SignInReturns(b) PROVE SessionInv'
  <2>1. \A a \in Browser : RevocationSound(a)'
    BY <1>2, <1>a DEF SignInReturns
  <2> QED BY <1>2, <2>1 DEF SessionInv, RevocationSound, SignInReturns
<1>3. ASSUME NEW b \in Browser, Request(b) PROVE SessionInv'
  BY <1>3 DEF SessionInv, Request
<1>4. ASSUME NEW b \in Browser, Logout(b) PROVE SessionInv'
  <2>1. \A a \in Browser : RevocationSound(a)'
    BY <1>4, <1>a DEF Logout
  <2> QED BY <1>4, <2>1 DEF SessionInv, RevocationSound, Logout
<1>5. ASSUME NEW b \in Browser, ListSessions(b) PROVE SessionInv'
  BY <1>5 DEF SessionInv, ListSessions
<1>6. ASSUME NEW b \in Browser, NEW kind \in {"one", "others", "all"}, BeginRevoke(b, kind)
      PROVE  SessionInv'
  <2>1. revoking'[b].due \subseteq known /\ revoking'[b].step = "begun"
        /\ (revoking'[b].kind = "one" => revoking'[b].due = {})
        /\ (revoking'[b].kind = "others" => revoking'[b].current \notin revoking'[b].due)
    BY <1>6 DEF BeginRevoke, TypeOK
  <2>2. \A a \in Browser : a # b => revoking'[a] = revoking[a]
    BY <1>6 DEF BeginRevoke, TypeOK
  <2>3. UNCHANGED <<sessions, registered, leaving, known>>
    BY <1>6 DEF BeginRevoke
  <2>4. \A a \in Browser : RevocationSound(a)'
    BY <1>0, <2>1, <2>2, <2>3 DEF RevocationSound
  <2> QED BY <2>3, <2>4 DEF SessionInv, RevocationSound
<1>7. ASSUME NEW b \in Browser, SelectRows(b) PROVE SessionInv'
  <2>1. UNCHANGED <<sessions, registered, leaving, known>>
    BY <1>7 DEF SelectRows
  <2>2. PICK rows :
          /\ revoking' = [revoking EXCEPT ![b] =
               [step |-> "selected", kind |-> revoking[b].kind, current |-> revoking[b].current,
                rows |-> rows, due |-> revoking[b].due]]
          /\ revoking[b].kind = "others" => rows = registered \ {revoking[b].current}
          /\ revoking[b].kind \notin {"one", "others"} => rows = registered
    BY <1>7 DEF SelectRows
  <2>3. revoking[b].due \cap sessions \subseteq registered
    BY <1>0 DEF SessionInv, RevocationSound
  <2>4. /\ revoking'[b].due = revoking[b].due /\ revoking'[b].kind = revoking[b].kind
        /\ revoking'[b].current = revoking[b].current /\ revoking'[b].rows = rows
        /\ \A a \in Browser : a # b => revoking'[a] = revoking[a]
    BY <2>2 DEF TypeOK
  <2>5. RevocationSound(b)'
    BY <1>0, <2>1, <2>2, <2>3, <2>4 DEF RevocationSound
  <2>6. \A a \in Browser : RevocationSound(a)'
    BY <1>0, <2>1, <2>4, <2>5 DEF RevocationSound
  <2> QED BY <2>1, <2>6 DEF SessionInv, RevocationSound
<1>8. ASSUME NEW b \in Browser, CommitRevoke(b) PROVE SessionInv'
  <2>1. /\ sessions' = sessions \ revoking[b].rows /\ registered' = registered \ revoking[b].rows
        /\ UNCHANGED <<leaving, known>>
    BY <1>8 DEF CommitRevoke
  <2>2. revoking'[b] = NoRevocation /\ \A a \in Browser : a # b => revoking'[a] = revoking[a]
    BY <1>8 DEF CommitRevoke, TypeOK
  <2>3. \A a \in Browser : RevocationSound(a)'
    BY <1>0, <2>1, <2>2 DEF RevocationSound, NoRevocation
  <2> QED BY <2>1, <2>3 DEF SessionInv, RevocationSound
<1>9. ASSUME NEW s \in Session, RegisterTouched(s) \/ UnregisterSession(s) \/ Expire(s)
      PROVE  SessionInv'
  <2>1. \A a \in Browser : RevocationSound(a)'
    BY <1>9, <1>a DEF RegisterTouched, UnregisterSession, Expire
  <2> QED BY <1>9, <2>1 DEF SessionInv, RevocationSound, RegisterTouched, UnregisterSession, Expire
<1> QED BY <1>1, <1>2, <1>3, <1>4, <1>5, <1>6, <1>7, <1>8, <1>9 DEF SessionStep

-----------------------------------------------------------------------------
(* Theorems *)

LEMMA NextInv == IInv /\ [Next]_vars => IInv'
<1> SUFFICES ASSUME IInv, [Next]_vars PROVE IInv'
  OBVIOUS
<1>1. CASE Inviting
  <2>1. SessionInv'
    <3>1. UNCHANGED access
      BY <1>1 DEF Inviting, Age, Settle, CheckAddress, EnforceNonePending, InsertInvitation,
        InsertConflicts, CommitRegistration, FailRegistration, ResolveToken, ListInvitations
    <3> QED BY <3>1 DEF IInv, SessionInv, access
  <2> QED BY <1>1, <2>1, InvitingTypes, InvitingInv DEF IInv
<1>2. CASE SessionStep
  <2>1. InviteInv'
    <3>1. UNCHANGED <<invites, accounts>>
      BY <1>2 DEF SessionStep, SignIn, AdminSignIn, SignInReturns, Request, Logout, ListSessions,
        BeginRevoke, SelectRows, CommitRevoke, RegisterTouched, UnregisterSession, Expire
    <3> QED BY <3>1 DEF IInv, InviteInv, TokenNeedsRace, Pending, Usable, Creating, Redeeming,
              invites
  <2> QED BY <1>2, <2>1, SessionTypes, SessionStepInv DEF IInv
<1>3. CASE UNCHANGED vars
  BY <1>3 DEF vars, invites, access, IInv, InviteInv, SessionInv, TypeOK, TokenNeedsRace, Pending,
    Usable, Creating, Redeeming
<1> QED BY <1>1, <1>2, <1>3 DEF Next

LEMMA Invariance == Spec => []IInv
  BY InitInv, NextInv, PTL DEF Spec

\* However many tokens and requests there are, one address gets one account.
THEOREM OneAccount == Spec => []OneAccountPerAddress
<1>1. IInv => OneAccountPerAddress
  BY DEF IInv, InviteInv, OneAccountPerAddress
<1> QED BY Invariance, <1>1, PTL

\* A usable token for an address with an account comes from a creation that a
\* registration overtook between its check of the address and its insertion.
THEOREM LateTokensRaced == Spec => []TokenNeedsRace
<1>1. IInv => TokenNeedsRace
  BY DEF IInv, InviteInv
<1> QED BY Invariance, <1>1, PTL

\* Sign out everywhere, or everywhere else, ends every session whose sign-in
\* or request had returned, and the latter spares its own.
THEOREM RevocationsComplete == Spec => RevocationsReach
<1>1. IInv /\ [Next]_vars =>
        [\A b \in Browser : CommitRevoke(b) =>
          /\ revoking[b].due \cap sessions' = {}
          /\ revoking[b].kind = "others" /\ revoking[b].current \in sessions
             => revoking[b].current \in sessions']_vars
  <2> SUFFICES ASSUME IInv, NEW b \in Browser, CommitRevoke(b)
               PROVE  /\ revoking[b].due \cap sessions' = {}
                      /\ revoking[b].kind = "others" /\ revoking[b].current \in sessions
                         => revoking[b].current \in sessions'
    OBVIOUS
  <2> QED BY DEF IInv, SessionInv, CommitRevoke
<1> QED BY Invariance, <1>1, PTL DEF Spec, RevocationsReach
=============================================================================
