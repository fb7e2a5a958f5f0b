--------------------------- MODULE AccountAccess ---------------------------
(***************************************************************************)
(* How one invited e-mail address becomes an account, and the sessions of  *)
(* that account (apps/api/accounts: invitation_services.py, services.py,   *)
(* views.py, middleware.py).                                               *)
(*                                                                         *)
(* An invitation is created after an unlocked check that the address has   *)
(* no account, and under the partial unique index that admits one pending  *)
(* invitation per address.  A token is redeemed (by a registration, by the *)
(* owner of the account) or revoked under the lock of its row.             *)
(*                                                                         *)
(* A session is a row of django_session, the credential, and a row of the  *)
(* UserSession registry, which the sign-in writes after the session, a     *)
(* logout drops after the session, and the revocations read: what is not   *)
(* in the registry is not revoked.                                         *)
(***************************************************************************)
EXTENDS Integers, FiniteSets

CONSTANTS Token,    \* invitations of the one address
          Worker,   \* requests about invitations
          Browser, Session,
          NoOne     \* no worker, no session

ASSUME NoOneAssumption == NoOne \notin Worker \cup Session

VARIABLES invitation,  \* the status of the row of each token
          overdue,     \* the tokens past expires_at
          locked,      \* the worker that holds the row of each token
          accounts,    \* the accounts registered for the address
          task,        \* what each worker is doing
          overtaken,   \* history: creations that a registration overtook
          raced,       \* history: tokens inserted by such a creation
          sessions,    \* the live rows of django_session
          registered,  \* the UserSession rows
          used,        \* the session keys given out
          cookie,      \* the session key each browser sends
          signing,     \* the session a sign-in in progress has created
          touched,     \* the sessions a request in progress has to register
          leaving,     \* logged-out sessions whose registry row is still there
          revoking,    \* the revocation each browser has in progress
          known        \* history: sessions whose sign-in or request returned

invites == <<invitation, overdue, locked, task, overtaken, raced>>
access == <<sessions, registered, used, cookie, signing, touched, leaving, revoking, known>>
vars == <<invites, accounts, access>>

MaxAttempts == 3   \* _MAX_CREATE_ATTEMPTS
Idle == [step |-> "idle", token |-> NoOne, attempt |-> 0]
NoRevocation == [step |-> "none", kind |-> "none", current |-> NoOne, rows |-> {}, due |-> {}]

TypeOK ==
    /\ invitation \in [Token -> {"none", "pending", "accepted", "revoked", "expired"}]
    /\ overdue \subseteq Token /\ raced \subseteq Token
    /\ locked \in [Token -> Worker \cup {NoOne}]
    /\ accounts \in Nat
    /\ task \in [Worker -> [step : {"idle", "checked", "enforced", "redeeming"},
                            token : Token \cup {NoOne}, attempt : 0..MaxAttempts]]
    /\ overtaken \subseteq Worker
    /\ sessions \subseteq used /\ registered \subseteq used /\ known \subseteq used
    /\ touched \subseteq used /\ leaving \subseteq used /\ used \subseteq Session
    /\ cookie \in [Browser -> used \cup {NoOne}]
    /\ signing \in [Browser -> used \cup {NoOne}]
    /\ revoking \in [Browser -> [step : {"none", "begun", "selected"},
                                 kind : {"none", "one", "others", "all"},
                                 current : Session \cup {NoOne},
                                 rows : SUBSET Session, due : SUBSET Session]]

Init ==
    /\ invitation = [t \in Token |-> "none"] /\ overdue = {}
    /\ locked = [t \in Token |-> NoOne]
    /\ accounts = 0
    /\ task = [w \in Worker |-> Idle] /\ overtaken = {} /\ raced = {}
    /\ sessions = {} /\ registered = {} /\ used = {} /\ known = {}
    /\ cookie = [b \in Browser |-> NoOne] /\ signing = [b \in Browser |-> NoOne]
    /\ touched = {} /\ leaving = {}
    /\ revoking = [b \in Browser |-> NoRevocation]
-----------------------------------------------------------------------------
(* Invitations *)

Pending == {t \in Token : invitation[t] = "pending"}
Usable == Pending \ overdue
Free(t) == locked[t] = NoOne

Does(w, s, t, n) == task' = [task EXCEPT ![w] = [step |-> s, token |-> t, attempt |-> n]]
Rests(w) == task' = [task EXCEPT ![w] = Idle]

(* expires_at passes *)
Age(t) ==
    /\ t \in Usable
    /\ overdue' = overdue \cup {t}
    /\ UNCHANGED <<invitation, locked, task, overtaken, raced, accounts, access>>

CheckNothing(w) ==  \* the address is not checked
    /\ task[w] = Idle
    /\ Does(w, "checked", NoOne, 1)
    /\ overtaken' = overtaken \ {w}
    /\ UNCHANGED <<invitation, overdue, locked, raced, accounts, access>>

(* create_account_invitation: the address has no account yet *)
CheckAddress(w) ==
    /\ task[w] = Idle /\ accounts = 0
    /\ Does(w, "checked", NoOne, 1)
    /\ overtaken' = overtaken \ {w}
    /\ UNCHANGED <<invitation, overdue, locked, raced, accounts, access>>

(* _enforce_no_effective_pending_invitation: a usable invitation refuses,  *)
(* an overdue one will be expired by this transaction, which holds it.     *)
EnforceNonePending(w) ==
    /\ task[w].step = "checked"
    /\ \A t \in Pending : Free(t)
    /\ IF Usable # {} THEN Rests(w) /\ UNCHANGED locked
       ELSE /\ Does(w, "enforced", NoOne, task[w].attempt)
            /\ locked' = [t \in Token |-> IF t \in Pending THEN w ELSE locked[t]]
    /\ UNCHANGED <<invitation, overdue, overtaken, raced, accounts, access>>

Held(w) == {t \in Token : locked[t] = w}
Unlocked(w) == [t \in Token |-> IF locked[t] = w THEN NoOne ELSE locked[t]]

(* The insert waits for a transaction that may still settle a pending row  *)
(* of the address; the unique index fails it when one stays.               *)
InsertInvitation(w) ==
    /\ task[w].step = "enforced"
    /\ \A t \in Pending : locked[t] \in {w, NoOne}
    /\ Pending \subseteq Held(w)
    /\ \E t \in Token :
        /\ invitation[t] = "none"
        /\ invitation' = [s \in Token |-> IF s = t THEN "pending"
                                          ELSE IF s \in Held(w) THEN "expired" ELSE invitation[s]]
        /\ raced' = IF w \in overtaken THEN raced \cup {t} ELSE raced
    /\ locked' = Unlocked(w) /\ Rests(w)
    /\ UNCHANGED <<overdue, overtaken, accounts, access>>

(* IntegrityError: the attempt is rolled back and evaluated again, at most *)
(* three times.                                                            *)
InsertConflicts(w) ==
    /\ task[w].step = "enforced"
    /\ \A t \in Pending : locked[t] \in {w, NoOne}
    /\ ~(Pending \subseteq Held(w))
    /\ IF task[w].attempt < MaxAttempts
       THEN Does(w, "checked", NoOne, task[w].attempt + 1) ELSE Rests(w)
    /\ locked' = Unlocked(w)
    /\ UNCHANGED <<invitation, overdue, overtaken, raced, accounts, access>>

ResolveTokenUnlocked(w, t) ==  \* without select_for_update
    /\ task[w] = Idle /\ t \in Usable
    /\ accounts = 0
    /\ Does(w, "redeeming", t, 0)
    /\ UNCHANGED <<invitation, locked, overdue, overtaken, raced, accounts, access>>

(* _resolve_locked_invitation, then the account check of a registration:   *)
(* an overdue row is persisted as expired, a usable one is held.           *)
ResolveToken(w, t) ==
    /\ task[w] = Idle /\ Free(t) /\ t \in Pending
    /\ IF t \in overdue
       THEN /\ invitation' = [invitation EXCEPT ![t] = "expired"]
            /\ UNCHANGED <<locked, task>>
       ELSE /\ accounts = 0
            /\ locked' = [locked EXCEPT ![t] = w]
            /\ Does(w, "redeeming", t, 0)
            /\ UNCHANGED invitation
    /\ UNCHANGED <<overdue, overtaken, raced, accounts, access>>

(* the user and the accepted invitation commit together *)
CommitRegistration(w) ==
    /\ task[w].step = "redeeming"
    /\ accounts' = accounts + 1
    /\ invitation' = [invitation EXCEPT ![task[w].token] = "accepted"]
    /\ overtaken' = overtaken \cup {v \in Worker : task[v].step \in {"checked", "enforced"}}
    /\ locked' = Unlocked(w) /\ Rests(w)
    /\ UNCHANGED <<overdue, raced, access>>

(* an invalid username or password writes nothing *)
FailRegistration(w) ==
    /\ task[w].step = "redeeming"
    /\ locked' = Unlocked(w) /\ Rests(w)
    /\ UNCHANGED <<invitation, overdue, overtaken, raced, accounts, access>>

(* accept_account_invitation by the owner of the account, and              *)
(* revoke_account_invitation by the inviter                                *)
Settle(t) ==
    /\ t \in Pending /\ Free(t)
    /\ \/ t \in overdue /\ invitation' = [invitation EXCEPT ![t] = "expired"]
       \/ t \notin overdue /\ invitation' = [invitation EXCEPT ![t] = "revoked"]
       \/ /\ t \notin overdue /\ accounts > 0
          /\ invitation' = [invitation EXCEPT ![t] = "accepted"]
    /\ UNCHANGED <<overdue, locked, task, overtaken, raced, accounts, access>>

(* list_account_invitations: one UPDATE of the overdue pending rows, which *)
(* waits for their holders                                                 *)
ListInvitations ==
    /\ Pending \cap overdue # {} /\ \A t \in Pending \cap overdue : Free(t)
    /\ invitation' = [t \in Token |-> IF t \in Pending \cap overdue THEN "expired" ELSE invitation[t]]
    /\ UNCHANGED <<overdue, locked, task, overtaken, raced, accounts, access>>
-----------------------------------------------------------------------------
(* Sessions *)

RowHeld(s) == \E b \in Browser : revoking[b].step = "selected" /\ s \in revoking[b].rows
SignedIn(b) == cookie[b] \in sessions

(* login (of LoginView, or after a registration) gives the browser a fresh *)
(* key in place of the session it had                                      *)
SignIn(b, s) ==
    /\ accounts > 0
    /\ signing[b] = NoOne /\ s \notin used
    /\ used' = used \cup {s}
    /\ sessions' = (sessions \ {cookie[b]}) \cup {s}
    /\ signing' = [signing EXCEPT ![b] = s]
    /\ UNCHANGED <<invites, accounts, registered, cookie, touched, leaving, revoking, known>>

(* register_user_session, then the response; its final save of the session *)
(* fails when a revocation has deleted it meanwhile.                       *)
SignInReturns(b) ==
    LET s == signing[b] IN
    /\ s # NoOne
    /\ registered' = registered \cup {s}
    /\ cookie' = [cookie EXCEPT ![b] = IF s \in sessions THEN s ELSE NoOne]
    /\ known' = known \cup {s}
    /\ signing' = [signing EXCEPT ![b] = NoOne]
    /\ UNCHANGED <<invites, accounts, sessions, used, touched, leaving, revoking>>

(* a session from outside LoginView (the admin) has no registry row *)
AdminSignIn(b, s) ==
    /\ accounts > 0
    /\ signing[b] = NoOne /\ s \notin used
    /\ used' = used \cup {s}
    /\ sessions' = (sessions \ {cookie[b]}) \cup {s}
    /\ cookie' = [cookie EXCEPT ![b] = s]
    /\ UNCHANGED <<invites, accounts, registered, signing, touched, leaving, revoking, known>>

(* SessionRegistryMiddleware: a request finds its session alive and gives  *)
(* it a row, possibly after the session has been destroyed.                *)
Request(b) ==
    /\ SignedIn(b) /\ cookie[b] \notin registered \cup touched
    /\ touched' = touched \cup {cookie[b]}
    /\ UNCHANGED <<invites, accounts, sessions, registered, used, cookie, signing, leaving,
                   revoking, known>>
RegisterTouched(s) ==
    /\ s \in touched
    /\ registered' = registered \cup {s} /\ known' = known \cup {s}
    /\ touched' = touched \ {s}
    /\ UNCHANGED <<invites, accounts, sessions, used, cookie, signing, leaving, revoking>>

(* LogoutView: the session first, its registry row after *)
Logout(b) ==
    /\ SignedIn(b)
    /\ sessions' = sessions \ {cookie[b]} /\ leaving' = leaving \cup {cookie[b]}
    /\ cookie' = [cookie EXCEPT ![b] = NoOne]
    /\ UNCHANGED <<invites, accounts, registered, used, signing, touched, revoking, known>>
UnregisterSession(s) ==
    /\ s \in leaving /\ ~RowHeld(s)
    /\ registered' = registered \ {s} /\ leaving' = leaving \ {s}
    /\ UNCHANGED <<invites, accounts, sessions, used, cookie, signing, touched, revoking, known>>

Expire(s) ==
    /\ s \in sessions
    /\ sessions' = sessions \ {s}
    /\ UNCHANGED <<invites, accounts, registered, used, cookie, signing, touched, leaving,
                   revoking, known>>

ListSessionsPruning(b) ==  \* every row but the current one is taken for dead
    /\ SignedIn(b)
    /\ \A s \in registered : ~RowHeld(s)
    /\ registered' = registered \cap {cookie[b]}
    /\ UNCHANGED <<invites, accounts, sessions, used, cookie, signing, touched, leaving,
                   revoking, known>>

(* list_user_sessions prunes the registry rows whose session is not alive *)
ListSessions(b) ==
    /\ SignedIn(b) /\ registered \ sessions # {}
    /\ \A s \in registered \ sessions : ~RowHeld(s)
    /\ registered' = registered \cap sessions
    /\ UNCHANGED <<invites, accounts, sessions, used, cookie, signing, touched, leaving,
                   revoking, known>>

(* revoke_user_session, revoke_other_sessions, revoke_all_sessions.  The   *)
(* history notes which sessions such a request is due to end.              *)
BeginRevoke(b, kind) ==
    /\ SignedIn(b) /\ revoking[b] = NoRevocation
    /\ revoking' = [revoking EXCEPT ![b] =
          [step |-> "begun", kind |-> kind, current |-> cookie[b], rows |-> {},
           due |-> IF kind = "one" THEN {}
                   ELSE (known \cap sessions) \ (IF kind = "all" THEN {} ELSE {cookie[b]})]]
    /\ UNCHANGED <<invites, accounts, sessions, registered, used, cookie, signing, touched,
                   leaving, known>>

SelectRows(b) ==
    LET kind == revoking[b].kind
        mayEnd == IF kind = "others" THEN registered \ {revoking[b].current} ELSE registered
    IN /\ revoking[b].step = "begun"
       /\ \E rows \in IF kind = "one" THEN {{s} : s \in mayEnd} ELSE {mayEnd} :
            /\ \A s \in rows : ~RowHeld(s)
            /\ revoking' = [revoking EXCEPT ![b] =
                  [step |-> "selected", kind |-> kind, current |-> revoking[b].current,
                   rows |-> rows, due |-> revoking[b].due]]
       /\ UNCHANGED <<invites, accounts, sessions, registered, used, cookie, signing, touched,
                      leaving, known>>

CommitRevoke(b) ==
    /\ revoking[b].step = "selected"
    /\ sessions' = sessions \ revoking[b].rows
    /\ registered' = registered \ revoking[b].rows
    /\ revoking' = [revoking EXCEPT ![b] = NoRevocation]
    /\ UNCHANGED <<invites, accounts, used, cookie, signing, touched, leaving, known>>
-----------------------------------------------------------------------------
Inviting ==
    \/ \E t \in Token : Age(t) \/ Settle(t)
    \/ \E w \in Worker :
        \/ CheckAddress(w) \/ EnforceNonePending(w) \/ InsertInvitation(w) \/ InsertConflicts(w)
        \/ CommitRegistration(w) \/ FailRegistration(w)
        \/ \E t \in Token : ResolveToken(w, t)
    \/ ListInvitations

SessionStep ==
    \/ \E b \in Browser :
        \/ \E s \in Session : SignIn(b, s) \/ AdminSignIn(b, s)
        \/ SignInReturns(b) \/ Request(b) \/ Logout(b) \/ ListSessions(b)
        \/ \E kind \in {"one", "others", "all"} : BeginRevoke(b, kind)
        \/ SelectRows(b) \/ CommitRevoke(b)
    \/ \E s \in Session : RegisterTouched(s) \/ UnregisterSession(s) \/ Expire(s)

Next == Inviting \/ SessionStep
Spec == Init /\ [][Next]_vars
-----------------------------------------------------------------------------
(* Properties *)

(* However creations, registrations, expiries and revocations interleave,  *)
(* one address gets one account, although the address is not unique in the *)
(* users' table: one pending invitation per address and the lock of its    *)
(* row are what serializes the registrations.                              *)
OneAccountPerAddress == TypeOK /\ accounts <= 1

(* A usable token for an address that has an account comes only from a     *)
(* creation whose unlocked check a registration has overtaken.             *)
TokenNeedsRace == accounts > 0 => Usable \subseteq raced

(* Sign out everywhere, or everywhere else, ends every session whose       *)
(* sign-in or request had returned when it began, and the latter spares    *)
(* the session it came from: no prune, logout or late registration takes a *)
(* live session out of the registry.                                       *)
RevocationsReach ==
    [][\A b \in Browser : CommitRevoke(b) =>
          /\ revoking[b].due \cap sessions' = {}
          /\ revoking[b].kind = "others" /\ revoking[b].current \in sessions
             => revoking[b].current \in sessions']_vars
=============================================================================
