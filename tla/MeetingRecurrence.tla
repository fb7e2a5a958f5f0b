------------------------- MODULE MeetingRecurrence --------------------------
(***************************************************************************)
(* One MeetingRecurrence and the Meetings materialized from it, operated   *)
(* on by concurrent request handlers (meetings/services.py).               *)
(*                                                                         *)
(* A handler runs its operation as the code does: reads outside the        *)
(* transaction, row locks one after the other, checks under the locks, and *)
(* the writes.  PostgreSQL runs READ COMMITTED, so a read sees what other  *)
(* transactions have committed and nothing of what they have pending; the  *)
(* writes of a transaction are therefore applied in the step that commits  *)
(* it.  Every write of a recurrence happens under the recurrence row lock  *)
(* or the Meeting row lock, so no two pending writes meet.                 *)
(*                                                                         *)
(* Permission checks and the rule membership of the occurrence precede the *)
(* first read modelled here: the handlers are those of permitted users for *)
(* genuine occurrences.  delete_meeting rejects every Meeting of a         *)
(* recurrence, so a row once created stays.                                *)
(***************************************************************************)
EXTENDS Integers

CONSTANTS
  Worker,       \* concurrent request handlers
  Operations,   \* the operations requests may ask for
  Time,         \* the instants of the model
  Occurrence,   \* original starts the recurrence rule produces
  MaxAttempts,  \* attempts of one termination: range(3) in the code
  NoTime,       \* a NULL timestamp
  Nobody        \* the holder of a free row lock

OperationNames ==
  {"materialize", "reschedule", "edit", "exclude", "cancel", "terminate",
   "delete_template"}

ASSUME TimeAssumption == Time \subseteq Int /\ NoTime \notin Time
ASSUME OccurrenceAssumption == Occurrence \subseteq Time
ASSUME WorkerAssumption == Nobody \notin Worker
ASSUME AttemptsAssumption == MaxAttempts \in Nat \ {0}
ASSUME OperationsAssumption == Operations \subseteq OperationNames

VARIABLES
  status,        \* Meeting.status, "virtual" without a Meeting row
  scheduled,     \* Meeting.scheduled_at, the occurrence itself while virtual
  pk,            \* Meeting primary key, 0 without a row
  lastPk,        \* last primary key given out
  excluded,      \* occurrences with a MeetingRecurrenceExclusion row
  terminatedAt,  \* MeetingRecurrence.terminated_at
  template,      \* MeetingRecurrence.series is set
  now,           \* the application clock
  meetingLock,   \* holder of each Meeting row lock (FOR UPDATE)
  recLock,       \* holder of the recurrence row lock (FOR NO KEY UPDATE)
  seriesLock,    \* holder of the Template row lock (FOR UPDATE)
  pc,            \* where each handler is
  req,           \* what each handler was asked for
  scan           \* the Meeting sets a termination or deletion works through

db == <<status, scheduled, pk, lastPk, excluded, terminatedAt, template>>
locks == <<meetingLock, recLock, seriesLock>>
vars == <<db, now, locks, pc, req, scan>>

NoRequest == [op |-> "none", occ |-> NoTime, at |-> NoTime]
NoScan == [todo |-> {}, cand |-> {}, active |-> {}, tries |-> 0]

Init ==
  /\ status = [o \in Occurrence |-> "virtual"]
  /\ scheduled = [o \in Occurrence |-> o]
  /\ pk = [o \in Occurrence |-> 0]
  /\ lastPk = 0
  /\ excluded = {}
  /\ terminatedAt = NoTime
  /\ template = TRUE
  /\ now \in Time
  /\ meetingLock = [o \in Occurrence |-> Nobody]
  /\ recLock = Nobody
  /\ seriesLock = Nobody
  /\ pc = [w \in Worker |-> "idle"]
  /\ req = [w \in Worker |-> NoRequest]
  /\ scan = [w \in Worker |-> NoScan]

-----------------------------------------------------------------------------
(* Shared state functions and step shapes *)

\* The recurrence is terminated and t lies in its terminated future.
Suppressed(t) == terminatedAt # NoTime /\ t >= terminatedAt

\* The query of a termination with instant t: upcoming from t on.
UpcomingFrom(t) ==
  {o \in Occurrence : status[o] = "upcoming" /\ scheduled[o] >= t}

Goto(w, label) == pc' = [pc EXCEPT ![w] = label]

At(w, label) == pc[w] = label

LockMeeting(w, o) ==
  /\ meetingLock[o] = Nobody
  /\ meetingLock' = [meetingLock EXCEPT ![o] = w]

LockRecurrence(w) == recLock = Nobody /\ recLock' = w

\* COMMIT and ROLLBACK both give every row lock back.
ReleaseLocks(w) ==
  /\ meetingLock' = [o \in Occurrence |->
                       IF meetingLock[o] = w THEN Nobody ELSE meetingLock[o]]
  /\ recLock' = IF recLock = w THEN Nobody ELSE recLock
  /\ seriesLock' = IF seriesLock = w THEN Nobody ELSE seriesLock

\* The handler answers: its transaction is over.
Finish(w) ==
  /\ Goto(w, "idle")
  /\ req' = [req EXCEPT ![w] = NoRequest]
  /\ scan' = [scan EXCEPT ![w] = NoScan]
  /\ ReleaseLocks(w)

\* A domain error, an idempotent replay, or a lost connection.
FinishUnchanged(w) == Finish(w) /\ UNCHANGED <<db, now>>

Begin(w, op, o, t, label) ==
  /\ At(w, "idle")
  /\ op \in Operations
  /\ Goto(w, label)
  /\ req' = [req EXCEPT ![w] = [op |-> op, occ |-> o, at |-> t]]
  /\ UNCHANGED <<db, now, locks, scan>>

-----------------------------------------------------------------------------
(* materialize_meeting_recurrence_occurrence *)

BeginMaterialize(w, o) == Begin(w, "materialize", o, NoTime, "mat_find")

\* An existing Meeting is the answer; a reschedule goes on to move it.
MatFind(w) ==
  /\ At(w, "mat_find")
  /\ \/ /\ status[req[w].occ] # "virtual"
        /\ req[w].op = "materialize"
        /\ FinishUnchanged(w)
     \/ /\ Goto(w, IF status[req[w].occ] = "virtual" THEN "mat_lock"
                                                     ELSE "mov_lock")
        /\ status[req[w].occ] = "virtual" \/ req[w].op = "reschedule"
        /\ UNCHANGED <<db, now, locks, req, scan>>

MatLock(w) ==
  /\ At(w, "mat_lock")
  /\ LockRecurrence(w)
  /\ Goto(w, "mat_check")
  /\ UNCHANGED <<db, now, meetingLock, seriesLock, req, scan>>

\* The domain errors: terminated, no Template, excluded.
MatRejected(w) ==
  \/ Suppressed(req[w].occ)
  \/ ~template
  \/ req[w].occ \in excluded

MatCheck(w) ==
  /\ At(w, "mat_check")
  /\ \/ MatRejected(w) /\ FinishUnchanged(w)
     \/ /\ ~MatRejected(w)
        /\ Goto(w, "mat_insert")
        /\ UNCHANGED <<db, now, locks, req, scan>>

\* The new row's start: the original one, or where the reschedule moves it.
NewStart(w) == IF req[w].op = "reschedule" THEN req[w].at ELSE req[w].occ

\* The time guard of a reschedule, under the recurrence lock of the insert.
MoveRejected(w) == req[w].op = "reschedule" /\ Suppressed(req[w].at)

\* Faulty variant: the insert fails outside a savepoint of its own, so the
\* recurrence lock stays while the move asks for the Meeting lock.
MatDuplicateKeepsLock(w) ==
  /\ At(w, "mat_insert")
  /\ status[req[w].occ] # "virtual"
  /\ \/ req[w].op = "materialize" /\ FinishUnchanged(w)
     \/ /\ req[w].op = "reschedule"
        /\ Goto(w, "mov_lock")
        /\ UNCHANGED <<db, now, locks, req, scan>>

\* The unique constraint on (recurrence, original_scheduled_at) rejects the
\* insert: the savepoint is rolled back, recurrence lock included, and the
\* winner's row is the answer.
MatDuplicate(w) ==
  /\ At(w, "mat_insert")
  /\ status[req[w].occ] # "virtual"
  /\ \/ req[w].op = "materialize" /\ FinishUnchanged(w)
     \/ /\ req[w].op = "reschedule"
        /\ Goto(w, "mov_lock")
        /\ recLock' = Nobody
        /\ UNCHANGED <<db, now, meetingLock, seriesLock, req, scan>>

\* Insert and commit.  A rejected move takes the insert along.  The deferred
\* foreign key check at commit needs the Template row (KEY SHARE): it waits
\* while a deletion holds it.
MatInsert(w) ==
  /\ At(w, "mat_insert")
  /\ status[req[w].occ] = "virtual"
  /\ \/ MoveRejected(w) /\ FinishUnchanged(w)
     \/ /\ ~MoveRejected(w)
        /\ seriesLock = Nobody
        /\ status' = [status EXCEPT ![req[w].occ] = "upcoming"]
        /\ scheduled' = [scheduled EXCEPT ![req[w].occ] = NewStart(w)]
        /\ pk' = [pk EXCEPT ![req[w].occ] = lastPk + 1]
        /\ lastPk' = lastPk + 1
        /\ Finish(w)
        /\ UNCHANGED <<excluded, terminatedAt, template, now>>

-----------------------------------------------------------------------------
(* reschedule_meeting_recurrence_occurrence, update_meeting: the time move *)

\* The unlocked read: a cancelled Meeting is refused, an existing one moved,
\* a virtual occurrence materialized first.
BeginReschedule(w, o, t) ==
  /\ status[o] # "cancelled"
  /\ Begin(w, "reschedule", o, t,
           IF status[o] = "virtual" THEN "mat_find" ELSE "mov_lock")

\* PATCH /meetings/{id}: any existing Meeting, whatever its status.
BeginEdit(w, o, t) ==
  /\ status[o] # "virtual"
  /\ Begin(w, "edit", o, t, "mov_lock")

\* _guard_recurrence_time_move: the Meeting row, then the recurrence row.
MovLock(w) ==
  /\ At(w, "mov_lock")
  /\ LockMeeting(w, req[w].occ)
  /\ Goto(w, "mov_rec")
  /\ UNCHANGED <<db, now, recLock, seriesLock, req, scan>>

MovRec(w) ==
  /\ At(w, "mov_rec")
  /\ LockRecurrence(w)
  /\ Goto(w, "mov_save")
  /\ UNCHANGED <<db, now, meetingLock, seriesLock, req, scan>>

\* Faulty variant: the target of the move is not tested under the locks.
MovSaveUnguarded(w) ==
  /\ At(w, "mov_save")
  /\ scheduled' = [scheduled EXCEPT ![req[w].occ] = req[w].at]
  /\ Finish(w)
  /\ UNCHANGED <<status, pk, lastPk, excluded, terminatedAt, template, now>>

MovSave(w) ==
  /\ At(w, "mov_save")
  /\ \/ Suppressed(req[w].at) /\ FinishUnchanged(w)
     \/ /\ ~Suppressed(req[w].at)
        /\ scheduled' = [scheduled EXCEPT ![req[w].occ] = req[w].at]
        /\ Finish(w)
        /\ UNCHANGED <<status, pk, lastPk, excluded, terminatedAt, template, now>>

-----------------------------------------------------------------------------
(* exclude_meeting_recurrence_occurrence *)

\* The unlocked read: an existing exclusion is the answer.
BeginExclude(w, o) ==
  /\ o \notin excluded
  /\ Begin(w, "exclude", o, NoTime, "exc_lock")

ExcLock(w) ==
  /\ At(w, "exc_lock")
  /\ LockRecurrence(w)
  /\ Goto(w, "exc_check")
  /\ UNCHANGED <<db, now, meetingLock, seriesLock, req, scan>>

\* Faulty variant: a Meeting materialized meanwhile goes unnoticed.
ExcRejectedUnlessMaterialized(w) == Suppressed(req[w].occ)

ExcRejected(w) == Suppressed(req[w].occ) \/ status[req[w].occ] # "virtual"

ExcCheck(w) ==
  /\ At(w, "exc_check")
  /\ \/ ExcRejected(w) /\ FinishUnchanged(w)
     \/ /\ ~ExcRejected(w)
        /\ Goto(w, "exc_insert")
        /\ UNCHANGED <<db, now, locks, req, scan>>

\* A second exclusion loses on the unique constraint and returns the winner's
\* row, so the set does not change.
ExcInsert(w) ==
  /\ At(w, "exc_insert")
  /\ excluded' = excluded \cup {req[w].occ}
  /\ Finish(w)
  /\ UNCHANGED <<status, scheduled, pk, lastPk, terminatedAt, template, now>>

-----------------------------------------------------------------------------
(* cancel_meeting_recurrence_occurrence *)

BeginCancel(w, o) ==
  /\ status[o] # "virtual"
  /\ Begin(w, "cancel", o, NoTime, "can_lock")

\* The locked row is read afresh; only upcoming, or cancelled before.
CanLock(w) ==
  /\ At(w, "can_lock")
  /\ meetingLock[req[w].occ] = Nobody
  /\ \/ /\ status[req[w].occ] \notin {"upcoming", "cancelled"}
        /\ FinishUnchanged(w)
     \/ /\ status[req[w].occ] \in {"upcoming", "cancelled"}
        /\ LockMeeting(w, req[w].occ)
        /\ Goto(w, "can_find")
        /\ UNCHANGED <<db, now, recLock, seriesLock, req, scan>>

\* The recurrence row is locked only when there is no exclusion to reuse.
CanFind(w) ==
  /\ At(w, "can_find")
  /\ Goto(w, IF req[w].occ \in excluded THEN "can_save" ELSE "can_rec")
  /\ UNCHANGED <<db, now, locks, req, scan>>

CanRec(w) ==
  /\ At(w, "can_rec")
  /\ LockRecurrence(w)
  /\ Goto(w, "can_save")
  /\ UNCHANGED <<db, now, meetingLock, seriesLock, req, scan>>

CanSave(w) ==
  /\ At(w, "can_save")
  /\ excluded' = excluded \cup {req[w].occ}
  /\ status' = [status EXCEPT ![req[w].occ] = "cancelled"]
  /\ Finish(w)
  /\ UNCHANGED <<scheduled, pk, lastPk, terminatedAt, template, now>>

-----------------------------------------------------------------------------
(* terminate_meeting_recurrence *)

\* The termination instant is observed once, before any lock.
BeginTerminate(w) == Begin(w, "terminate", NoTime, now, "ter_select")

\* SELECT ... FOR UPDATE: the snapshot of the candidate rows ...
TerSelect(w) ==
  /\ At(w, "ter_select")
  /\ scan' = [scan EXCEPT ![w].todo = UpcomingFrom(req[w].at),
                          ![w].cand = {}]
  /\ Goto(w, "ter_lock")
  /\ UNCHANGED <<db, now, locks, req>>

NextByPk(S) == CHOOSE o \in S : \A p \in S : pk[o] <= pk[p]

\* Faulty variant: no ORDER BY, the rows are locked in any order.
TerLockUnordered(w) ==
  /\ At(w, "ter_lock")
  /\ \E o \in scan[w].todo :
       /\ LockMeeting(w, o)
       /\ scan' = [scan EXCEPT
                     ![w].todo = @ \ {o},
                     ![w].cand = @ \cup ({o} \cap UpcomingFrom(req[w].at))]
  /\ UNCHANGED <<db, now, recLock, seriesLock, pc, req>>

\* ... locked one by one in primary key order.  A row that has changed while
\* the lock was awaited is tested again and left out of the result; its lock
\* stays until the transaction ends.
TerLock(w) ==
  /\ At(w, "ter_lock")
  /\ scan[w].todo # {}
  /\ LET o == NextByPk(scan[w].todo) IN
       /\ LockMeeting(w, o)
       /\ scan' = [scan EXCEPT
                     ![w].todo = @ \ {o},
                     ![w].cand = @ \cup ({o} \cap UpcomingFrom(req[w].at))]
  /\ UNCHANGED <<db, now, recLock, seriesLock, pc, req>>

\* The recurrence row last; a terminal state already there is the answer.
TerRec(w) ==
  /\ At(w, "ter_lock")
  /\ scan[w].todo = {}
  /\ recLock = Nobody
  /\ \/ terminatedAt # NoTime /\ FinishUnchanged(w)
     \/ /\ terminatedAt = NoTime
        /\ LockRecurrence(w)
        /\ Goto(w, "ter_requery")
        /\ UNCHANGED <<db, now, meetingLock, seriesLock, req, scan>>

\* Faulty variant: the candidates locked first are taken for all there are.
TerRequeryTrusting(w) ==
  /\ At(w, "ter_requery")
  /\ scan' = [scan EXCEPT ![w].active = scan[w].cand]
  /\ Goto(w, "ter_save")
  /\ UNCHANGED <<db, now, locks, req>>

\* Under the recurrence lock: the candidates may have shrunk, not grown.
TerRequery(w) ==
  /\ At(w, "ter_requery")
  /\ UpcomingFrom(req[w].at) \subseteq scan[w].cand
  /\ scan' = [scan EXCEPT ![w].active = UpcomingFrom(req[w].at)]
  /\ Goto(w, "ter_save")
  /\ UNCHANGED <<db, now, locks, req>>

\* Grown: roll back and try again with the same instant, or give up.
TerRetry(w) ==
  /\ At(w, "ter_requery")
  /\ ~ UpcomingFrom(req[w].at) \subseteq scan[w].cand
  /\ \/ scan[w].tries + 1 >= MaxAttempts /\ FinishUnchanged(w)
     \/ /\ scan[w].tries + 1 < MaxAttempts
        /\ scan' = [scan EXCEPT ![w] = [NoScan EXCEPT !.tries = scan[w].tries + 1]]
        /\ Goto(w, "ter_select")
        /\ ReleaseLocks(w)
        /\ UNCHANGED <<db, now, req>>

TerSave(w) ==
  /\ At(w, "ter_save")
  /\ status' = [o \in Occurrence |->
                  IF o \in scan[w].active THEN "cancelled" ELSE status[o]]
  /\ excluded' = excluded \cup scan[w].active
  /\ terminatedAt' = req[w].at
  /\ Finish(w)
  /\ UNCHANGED <<scheduled, pk, lastPk, template, now>>

-----------------------------------------------------------------------------
(* delete_meeting_series: the Template goes, SET_NULL clears what names it *)

BeginDeleteTemplate(w) ==
  template /\ Begin(w, "delete_template", NoTime, NoTime, "del_lock")

DelLock(w) ==
  /\ At(w, "del_lock")
  /\ seriesLock = Nobody
  /\ \/ ~template /\ FinishUnchanged(w)
     \/ /\ template
        /\ seriesLock' = w
        /\ Goto(w, "del_rec")
        /\ UNCHANGED <<db, now, meetingLock, recLock, req, scan>>

\* UPDATE meetings_recurrence SET series_id = NULL: the recurrence row.
DelRec(w) ==
  /\ At(w, "del_rec")
  /\ LockRecurrence(w)
  /\ scan' = [scan EXCEPT ![w].todo = {o \in Occurrence : status[o] # "virtual"}]
  /\ Goto(w, "del_meetings")
  /\ UNCHANGED <<db, now, meetingLock, seriesLock, req>>

\* UPDATE meetings_meeting SET series_id = NULL: every Meeting of the
\* Template, in whatever order the scan meets them.
DelMeeting(w) ==
  /\ At(w, "del_meetings")
  /\ \E o \in scan[w].todo :
       /\ LockMeeting(w, o)
       /\ scan' = [scan EXCEPT ![w].todo = @ \ {o}]
  /\ UNCHANGED <<db, now, recLock, seriesLock, pc, req>>

DelSave(w) ==
  /\ At(w, "del_meetings")
  /\ scan[w].todo = {}
  /\ template' = FALSE
  /\ Finish(w)
  /\ UNCHANGED <<status, scheduled, pk, lastPk, excluded, terminatedAt, now>>

-----------------------------------------------------------------------------
(* start_meeting, end_meeting, reopen_meeting: one row lock, one status     *)
(* test, one write; nothing else is locked, so each is one step.            *)

Lifecycle(o, from, to) ==
  /\ meetingLock[o] = Nobody
  /\ status[o] = from
  /\ status' = [status EXCEPT ![o] = to]
  /\ UNCHANGED <<scheduled, pk, lastPk, excluded, terminatedAt, template,
                 now, locks, pc, req, scan>>

StartMeeting(o) == Lifecycle(o, "upcoming", "live")
EndMeeting(o) == Lifecycle(o, "live", "completed")
ReopenMeeting(o) == Lifecycle(o, "completed", "live")

\* A handler dies, or PostgreSQL picks it as the victim of a deadlock.
Crash(w) == pc[w] # "idle" /\ FinishUnchanged(w)

Tick ==
  /\ now' \in {t \in Time : t > now}
  /\ UNCHANGED <<db, locks, pc, req, scan>>

-----------------------------------------------------------------------------
BeginRequest(w) ==
  \/ \E o \in Occurrence :
       BeginMaterialize(w, o) \/ BeginExclude(w, o) \/ BeginCancel(w, o)
  \/ \E o \in Occurrence, t \in Time :
       BeginReschedule(w, o, t) \/ BeginEdit(w, o, t)
  \/ BeginTerminate(w)
  \/ BeginDeleteTemplate(w)

Step(w) ==
  \/ MatFind(w) \/ MatLock(w) \/ MatCheck(w) \/ MatDuplicate(w) \/ MatInsert(w)
  \/ MovLock(w) \/ MovRec(w) \/ MovSave(w)
  \/ ExcLock(w) \/ ExcCheck(w) \/ ExcInsert(w)
  \/ CanLock(w) \/ CanFind(w) \/ CanRec(w) \/ CanSave(w)
  \/ TerSelect(w) \/ TerLock(w) \/ TerRec(w) \/ TerRequery(w) \/ TerRetry(w)
  \/ TerSave(w)
  \/ DelLock(w) \/ DelRec(w) \/ DelMeeting(w) \/ DelSave(w)

Next ==
  \/ \E w \in Worker : BeginRequest(w) \/ Step(w) \/ Crash(w)
  \/ \E o \in Occurrence : StartMeeting(o) \/ EndMeeting(o) \/ ReopenMeeting(o)
  \/ Tick

\* A started request goes on, and a row lock is granted in the order of the
\* requests for it, so a handler waiting for one is not passed over for ever.
Fairness == \A w \in Worker : SF_vars(Step(w))

Spec == Init /\ [][Next]_vars /\ Fairness

-----------------------------------------------------------------------------
(* Properties *)

Statuses == {"virtual", "upcoming", "live", "completed", "cancelled"}

Labels ==
  {"idle", "mat_find", "mat_lock", "mat_check", "mat_insert", "mov_lock",
   "mov_rec", "mov_save", "exc_lock", "exc_check", "exc_insert", "can_lock",
   "can_find", "can_rec", "can_save", "ter_select", "ter_lock", "ter_requery",
   "ter_save", "del_lock", "del_rec", "del_meetings"}

Requests ==
  [op : OperationNames \cup {"none"},
   occ : Occurrence \cup {NoTime}, at : Time \cup {NoTime}]

Scans ==
  [todo : SUBSET Occurrence, cand : SUBSET Occurrence,
   active : SUBSET Occurrence, tries : Nat]

\* The variables hold what the columns, locks and handlers can hold.
TypeOK ==
  /\ status \in [Occurrence -> Statuses]
  /\ scheduled \in [Occurrence -> Time]
  /\ pk \in [Occurrence -> Nat]
  /\ lastPk \in Nat
  /\ excluded \subseteq Occurrence
  /\ terminatedAt \in Time \cup {NoTime}
  /\ template \in BOOLEAN
  /\ now \in Time
  /\ meetingLock \in [Occurrence -> Worker \cup {Nobody}]
  /\ recLock \in Worker \cup {Nobody}
  /\ seriesLock \in Worker \cup {Nobody}
  /\ pc \in [Worker -> Labels]
  /\ req \in [Worker -> Requests]
  /\ scan \in [Worker -> Scans]

\* A terminated series never keeps or regains a future upcoming Meeting,
\* whatever was materialized, moved or started while it was terminated
\* (terminate_meeting_recurrence, _guard_recurrence_time_move).
TerminatedFutureEmpty ==
  \A o \in Occurrence : status[o] = "upcoming" => ~Suppressed(scheduled[o])

\* A materialized occurrence is excluded exactly when its Meeting is
\* cancelled: never "cancelled without exclusion", never an excluded
\* occurrence with an active Meeting (materialize, exclude, cancel and
\* terminate write the two rows in different orders).
CancelledIffExcluded ==
  \A o \in Occurrence :
    status[o] # "virtual" => (status[o] = "cancelled" <=> o \in excluded)

\* w's next statement needs a row lock that another handler v has.
WaitsForMeeting(w, v) ==
  \/ /\ pc[w] \in {"mov_lock", "can_lock"}
     /\ meetingLock[req[w].occ] = v
  \/ /\ At(w, "ter_lock")
     /\ scan[w].todo # {}
     /\ meetingLock[NextByPk(scan[w].todo)] = v
  \/ /\ At(w, "del_meetings")
     /\ \E o \in scan[w].todo : meetingLock[o] = v

WaitsForRecurrence(w, v) ==
  /\ recLock = v
  /\ \/ pc[w] \in {"mat_lock", "mov_rec", "exc_lock", "can_rec", "del_rec"}
     \/ At(w, "ter_lock") /\ scan[w].todo = {}

WaitsForTemplate(w, v) ==
  /\ seriesLock = v
  /\ At(w, "del_lock") \/ At(w, "mat_insert")

WaitsFor(w, v) ==
  /\ v # w
  /\ WaitsForMeeting(w, v) \/ WaitsForRecurrence(w, v) \/ WaitsForTemplate(w, v)

\* No set of handlers of recurrence operations waits only for one another:
\* the Meeting -> recurrence lock order and the primary key order of a
\* termination exclude a deadlock among them.
NoDeadlock ==
  \A S \in (SUBSET {w \in Worker : req[w].op # "delete_template"}) \ {{}} :
    \E w \in S : \A v \in S : ~WaitsFor(w, v)

\* terminated_at is written once: of two racing terminations one sets it and
\* the other, with a later or an earlier instant, leaves it alone.
TerminationImmutable ==
  [][terminatedAt # NoTime => terminatedAt' = terminatedAt]_vars

\* A Meeting's status moves along the lifecycle only: a cancelled Meeting is
\* terminal, a live or completed one is never cancelled or born again by a
\* racing materialization, cancellation or termination.
StatusStepsLegal ==
  [][\A o \in Occurrence :
       status'[o] = status[o]
       \/ <<status[o], status'[o]>> \in
            {<<"virtual", "upcoming">>, <<"upcoming", "live">>,
             <<"live", "completed">>, <<"completed", "live">>,
             <<"upcoming", "cancelled">>}]_vars

\* No Meeting is born into the terminated future or from an excluded
\* occurrence, however the check and the insert interleave with others.
NoLateBirth ==
  [][\A o \in Occurrence :
       status[o] = "virtual" /\ status'[o] # "virtual"
         => ~Suppressed(o) /\ o \notin excluded]_vars

\* Every request is answered: no handler waits for ever for a row lock and a
\* termination stops retrying.
RequestsReturn == \A w \in Worker : pc[w] # "idle" ~> pc[w] = "idle"

\* The operations as atomic steps, over the same committed state.
Contract == INSTANCE RecurrenceContract

\* Every interleaving of the handlers' transactions is a sequence of the
\* contract's atomic operations.
ImplementsContract == Contract!Spec
=============================================================================
