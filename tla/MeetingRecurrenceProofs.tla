----------------------- MODULE MeetingRecurrenceProofs ----------------------
(***************************************************************************)
(* The inductive invariant of MeetingRecurrence and what follows from it,  *)
(* for every number of handlers, occurrences and instants.                 *)
(***************************************************************************)
EXTENDS MeetingRecurrence, WellFoundedInduction, TLAPS

MatLabels == {"mat_find", "mat_lock", "mat_check", "mat_insert"}
MovLabels == {"mov_lock", "mov_rec", "mov_save"}
ExcLabels == {"exc_lock", "exc_check", "exc_insert"}
CanLabels == {"can_lock", "can_find", "can_rec", "can_save"}
TerLabels == {"ter_select", "ter_lock", "ter_requery", "ter_save"}

\* Where a handler holds the recurrence row lock.
HoldsRecurrence ==
  {"mat_check", "mat_insert", "mov_save", "exc_check", "exc_insert",
   "ter_requery", "ter_save", "del_meetings"}

\* Where a handler holds the row lock of the Meeting it works on.
HoldsMeeting == {"mov_rec", "mov_save", "can_find", "can_rec", "can_save"}

\* A handler works on what its request named, and the instant of a
\* termination is not in the future.
Shaped(w) ==
  /\ pc[w] \in MatLabels \cup MovLabels \cup ExcLabels \cup CanLabels
       => req[w].occ \in Occurrence
  /\ pc[w] \in MovLabels => req[w].at \in Time
  /\ pc[w] \in MatLabels =>
       \/ req[w].op = "materialize"
       \/ req[w].op = "reschedule" /\ req[w].at \in Time
  /\ pc[w] \in TerLabels => req[w].at \in Time /\ req[w].at <= now

\* A handler holds the locks its place in the code implies.
LocksHeld(w) ==
  /\ pc[w] \in HoldsRecurrence => recLock = w
  /\ pc[w] \in HoldsMeeting => meetingLock[req[w].occ] = w
  /\ pc[w] \in {"ter_lock", "ter_requery", "ter_save"} =>
       \A o \in scan[w].cand : meetingLock[o] = w
  /\ pc[w] = "can_save" => req[w].occ \in excluded \/ recLock = w

\* What a handler has checked still holds when it acts on it.
ChecksHold(w) ==
  /\ pc[w] = "mat_insert" =>
       template /\ req[w].occ \notin excluded /\ ~Suppressed(req[w].occ)
  /\ pc[w] = "exc_insert" =>
       status[req[w].occ] = "virtual" /\ ~Suppressed(req[w].occ)
  /\ pc[w] \in MovLabels => status[req[w].occ] # "virtual"
  /\ pc[w] \in {"can_find", "can_rec", "can_save"} =>
       status[req[w].occ] \in {"upcoming", "cancelled"}
  /\ pc[w] \in {"ter_requery", "ter_save"} => terminatedAt = NoTime
  /\ pc[w] = "ter_save" =>
       /\ scan[w].active = UpcomingFrom(req[w].at)
       /\ scan[w].active \subseteq scan[w].cand

TypeInv == TypeOK /\ \A w \in Worker : Shaped(w)

HandlerInv == \A w \in Worker : LocksHeld(w) /\ ChecksHold(w)

\* The inductive invariant.
IInv == TypeInv /\ HandlerInv /\ TerminatedFutureEmpty /\ CancelledIffExcluded

-----------------------------------------------------------------------------
\* A handler that answers leaves the lock tables, and itself, well-typed.
LEMMA FinishTypeInv ==
  ASSUME TypeInv, NEW w \in Worker, Finish(w), now' = now
  PROVE  /\ pc' \in [Worker -> Labels]
         /\ req' \in [Worker -> Requests]
         /\ scan' \in [Worker -> Scans]
         /\ meetingLock' \in [Occurrence -> Worker \cup {Nobody}]
         /\ recLock' \in Worker \cup {Nobody}
         /\ seriesLock' \in Worker \cup {Nobody}
         /\ now' \in Time
         /\ (\A u \in Worker : Shaped(u))'
  <1>1. "idle" \in Labels BY DEF Labels
  <1>2. NoRequest \in Requests BY DEF NoRequest, Requests
  <1>3. NoScan \in Scans BY DEF NoScan, Scans
  <1>4. ASSUME NEW u \in Worker PROVE Shaped(u)'
    BY DEF TypeInv, TypeOK, Shaped, Finish, Goto, MatLabels, MovLabels,
           ExcLabels, CanLabels, TerLabels
  <1> QED
    BY <1>1, <1>2, <1>3, <1>4 DEF TypeInv, TypeOK, Finish, Goto, ReleaseLocks

\* ... and, when it writes nothing, the whole state.
LEMMA FinishUnchangedTypeInv ==
  ASSUME TypeInv, NEW w \in Worker, FinishUnchanged(w)
  PROVE  TypeInv'
  <1>1. Finish(w) /\ now' = now
    BY DEF FinishUnchanged
  <1> QED
    BY <1>1, FinishTypeInv DEF TypeInv, TypeOK, FinishUnchanged, db

\* A step that only takes a lock, reads or checks, and goes on.
CheckStep(w) ==
  \/ MatFind(w) \/ MatLock(w) \/ MatCheck(w) \/ MatDuplicate(w)
  \/ MovLock(w) \/ MovRec(w)
  \/ ExcLock(w) \/ ExcCheck(w)
  \/ CanLock(w) \/ CanFind(w) \/ CanRec(w)
  \/ TerRec(w)
  \/ DelLock(w)

\* A step that works on the rows a termination or deletion goes through.
ScanStep(w) ==
  TerSelect(w) \/ TerLock(w) \/ TerRequery(w) \/ TerRetry(w)
  \/ DelRec(w) \/ DelMeeting(w)

\* Neither writes: what they do not lock stays as it is.
QuietStep(w) == CheckStep(w) \/ ScanStep(w)

\* Every step of a handler keeps the types and the shapes of the requests.
LEMMA StepTypeInv ==
  ASSUME TypeInv, NEW w \in Worker, Step(w)
  PROVE  TypeInv'
  <1>1. CASE FinishUnchanged(w)
    BY <1>1, FinishUnchangedTypeInv
  <1>2. CASE CheckStep(w) /\ ~FinishUnchanged(w)
    <2>1. UNCHANGED <<db, now, req, scan>>
      BY <1>2
      DEF CheckStep, MatFind, MatLock, MatCheck, MatDuplicate, MovLock, MovRec,
          ExcLock, ExcCheck, CanLock, CanFind, CanRec, TerRec, DelLock
    <2>2. PICK label \in Labels : Goto(w, label)
      BY <1>2
      DEF CheckStep, MatFind, MatLock, MatCheck, MatDuplicate, MovLock, MovRec,
          ExcLock, ExcCheck, CanLock, CanFind, CanRec, TerRec, DelLock, Labels
    <2>3. TypeOK'
      BY <1>2, <2>1, <2>2
      DEF TypeInv, TypeOK, Goto, db, CheckStep, MatFind, MatLock, MatCheck,
          MatDuplicate, MovLock, MovRec, ExcLock, ExcCheck, CanLock, CanFind,
          CanRec, TerRec, DelLock, LockMeeting, LockRecurrence, locks
    <2>4. Shaped(w)'
      BY <1>2, <2>1
      DEF TypeInv, TypeOK, Shaped, Goto, At, CheckStep, MatFind, MatLock, MatCheck,
          MatDuplicate, MovLock, MovRec, ExcLock, ExcCheck, CanLock, CanFind,
          CanRec, TerRec, DelLock, MatLabels, MovLabels, ExcLabels, CanLabels,
          TerLabels
    <2>5. ASSUME NEW u \in Worker \ {w} PROVE Shaped(u)'
      BY <2>1, <2>2 DEF TypeInv, TypeOK, Shaped, Goto
    <2> QED BY <2>3, <2>4, <2>5 DEF TypeInv
  <1>3. CASE ScanStep(w) /\ ~FinishUnchanged(w)
    <2>1. UNCHANGED <<db, now, req>>
      BY <1>3
      DEF ScanStep, TerSelect, TerLock, TerRequery, TerRetry, DelRec, DelMeeting
    <2>2. PICK label \in Labels : Goto(w, label)
      BY <1>3
      DEF TypeInv, TypeOK, ScanStep, TerSelect, TerLock, TerRequery, TerRetry,
          DelRec, DelMeeting, Goto, At, Labels
    <2>3. \E s \in Scans : scan' = [scan EXCEPT ![w] = s]
      <3>1. scan \in [Worker -> Scans] /\ status \in [Occurrence -> Statuses]
        BY DEF TypeInv, TypeOK
      <3>2. CASE TerSelect(w)
        BY <3>1, <3>2 DEF Scans, TerSelect, UpcomingFrom
      <3>3. CASE TerLock(w)
        BY <3>1, <3>3 DEF Scans, TerLock, UpcomingFrom
      <3>4. CASE TerRequery(w)
        BY <3>1, <3>4 DEF Scans, TerRequery, UpcomingFrom
      <3>5. CASE TerRetry(w)
        BY <1>3, <3>1, <3>5 DEF Scans, TerRetry, NoScan
      <3>6. CASE DelRec(w)
        BY <3>1, <3>6 DEF Scans, DelRec
      <3>7. CASE DelMeeting(w)
        BY <3>1, <3>7 DEF Scans, DelMeeting
      <3> QED BY <1>3, <3>2, <3>3, <3>4, <3>5, <3>6, <3>7 DEF ScanStep
    <2>4. /\ meetingLock' \in [Occurrence -> Worker \cup {Nobody}]
          /\ recLock' \in Worker \cup {Nobody}
          /\ seriesLock' \in Worker \cup {Nobody}
      BY <1>3
      DEF TypeInv, TypeOK, ScanStep, TerSelect, TerLock, TerRequery, TerRetry,
          DelRec, DelMeeting, LockMeeting, LockRecurrence, ReleaseLocks, locks
    <2>5. TypeOK'
      BY <2>1, <2>2, <2>3, <2>4 DEF TypeInv, TypeOK, Goto, db
    <2>6. Shaped(w)'
      BY <1>3, <2>1
      DEF TypeInv, TypeOK, Shaped, Goto, At, ScanStep, TerSelect, TerLock,
          TerRequery, TerRetry, DelRec, DelMeeting, MatLabels, MovLabels,
          ExcLabels, CanLabels, TerLabels
    <2>7. ASSUME NEW u \in Worker \ {w} PROVE Shaped(u)'
      BY <2>1, <2>2 DEF TypeInv, TypeOK, Shaped, Goto
    <2> QED BY <2>5, <2>6, <2>7 DEF TypeInv
  <1>4. CASE MatInsert(w)
    <2>1. CASE MoveRejected(w)
      BY <1>4, <2>1, FinishUnchangedTypeInv DEF MatInsert
    <2>2. CASE ~MoveRejected(w)
      <3>1. req[w].occ \in Occurrence /\ NewStart(w) \in Time
        BY <1>4, OccurrenceAssumption
        DEF TypeInv, Shaped, MatInsert, At, NewStart, MatLabels
      <3>2. Finish(w) /\ now' = now
        BY <1>4, <2>2 DEF MatInsert
      <3>3. TypeOK'
        BY <1>4, <2>2, <3>1, <3>2, FinishTypeInv
        DEF MatInsert, TypeInv, TypeOK, Statuses
      <3> QED BY <3>2, <3>3, FinishTypeInv DEF TypeInv
    <2> QED BY <2>1, <2>2
  <1>5. CASE MovSave(w) /\ ~FinishUnchanged(w)
    <2>1. Finish(w) /\ now' = now
      BY <1>5 DEF MovSave
    <2>2. TypeOK'
      BY <1>5, <2>1, FinishTypeInv
      DEF MovSave, TypeInv, TypeOK, Shaped, At, MovLabels
    <2> QED BY <2>1, <2>2, FinishTypeInv DEF TypeInv
  <1>6. CASE ExcInsert(w)
    <2>1. Finish(w) /\ now' = now
      BY <1>6 DEF ExcInsert
    <2>2. TypeOK'
      BY <1>6, <2>1, FinishTypeInv
      DEF ExcInsert, TypeInv, TypeOK, Shaped, At, ExcLabels
    <2> QED BY <2>1, <2>2, FinishTypeInv DEF TypeInv
  <1>7. CASE CanSave(w)
    <2>1. Finish(w) /\ now' = now
      BY <1>7 DEF CanSave
    <2>2. TypeOK'
      BY <1>7, <2>1, FinishTypeInv
      DEF CanSave, TypeInv, TypeOK, Shaped, At, CanLabels, Statuses
    <2> QED BY <2>1, <2>2, FinishTypeInv DEF TypeInv
  <1>8. CASE TerSave(w)
    <2>1. Finish(w) /\ now' = now
      BY <1>8 DEF TerSave
    <2>2. TypeOK'
      BY <1>8, <2>1, FinishTypeInv
      DEF TerSave, TypeInv, TypeOK, Shaped, At, TerLabels, Statuses, Scans
    <2> QED BY <2>1, <2>2, FinishTypeInv DEF TypeInv
  <1>9. CASE DelSave(w)
    <2>1. Finish(w) /\ now' = now
      BY <1>9 DEF DelSave
    <2>2. TypeOK'
      BY <1>9, <2>1, FinishTypeInv DEF DelSave, TypeInv, TypeOK
    <2> QED BY <2>1, <2>2, FinishTypeInv DEF TypeInv
  <1> QED
    BY <1>1, <1>2, <1>3, <1>4, <1>5, <1>6, <1>7, <1>8, <1>9
    DEF Step, CheckStep, ScanStep

-----------------------------------------------------------------------------
\* What a step of handler w leaves to the others: where they are, what they
\* were asked for, and every lock they hold.
OthersLeftAlone(w) ==
  /\ \A u \in Worker \ {w} :
       /\ pc'[u] = pc[u]
       /\ req'[u] = req[u]
       /\ scan'[u] = scan[u]
       /\ recLock = u => recLock' = u
       /\ \A o \in Occurrence : meetingLock[o] = u => meetingLock'[o] = u
  /\ excluded \subseteq excluded'

\* Handlers left alone still hold the locks their places imply.
LEMMA OthersKeepLocks ==
  ASSUME TypeInv, HandlerInv, NEW w \in Worker, OthersLeftAlone(w),
         NEW u \in Worker \ {w}
  PROVE  LocksHeld(u)'
  BY DEF TypeInv, TypeOK, Shaped, HandlerInv, OthersLeftAlone, LocksHeld,
         HoldsRecurrence, HoldsMeeting, MatLabels, MovLabels, ExcLabels,
         CanLabels, TerLabels, Scans

\* Handlers left alone may still rely on what they checked, as long as no
\* row is written.
LEMMA OthersKeepChecks ==
  ASSUME TypeInv, HandlerInv, NEW w \in Worker, OthersLeftAlone(w),
         NEW u \in Worker \ {w}, UNCHANGED db
  PROVE  ChecksHold(u)'
  BY DEF HandlerInv, OthersLeftAlone, ChecksHold, db, Suppressed, UpcomingFrom

\* COMMIT and ROLLBACK release the handler's own locks only.
LEMMA FinishLeavesOthersAlone ==
  ASSUME TypeInv, NEW w \in Worker, Finish(w), excluded \subseteq excluded'
  PROVE  OthersLeftAlone(w) /\ LocksHeld(w)' /\ ChecksHold(w)'
  <1>1. pc'[w] = "idle"
    BY DEF TypeInv, TypeOK, Finish, Goto
  <1>2. LocksHeld(w)' /\ ChecksHold(w)'
    BY <1>1 DEF LocksHeld, ChecksHold, HoldsRecurrence, HoldsMeeting,
                MovLabels, TerLabels
  <1>3. OthersLeftAlone(w)
    BY DEF TypeInv, TypeOK, Finish, Goto, ReleaseLocks, OthersLeftAlone
  <1> QED BY <1>2, <1>3

\* An error, a replay or a crash disturbs no other handler.
LEMMA FinishUnchangedHandlerInv ==
  ASSUME TypeInv, HandlerInv, NEW w \in Worker, FinishUnchanged(w)
  PROVE  HandlerInv'
  <1>1. OthersLeftAlone(w) /\ LocksHeld(w)' /\ ChecksHold(w)'
    BY FinishLeavesOthersAlone DEF FinishUnchanged, db
  <1> QED
    BY <1>1, OthersKeepLocks, OthersKeepChecks DEF HandlerInv, FinishUnchanged

\* The steps that commit nothing.
LEMMA QuietStepHandlerInv ==
  ASSUME TypeInv, HandlerInv, NEW w \in Worker, QuietStep(w)
  PROVE  HandlerInv'
  <1>1. CASE FinishUnchanged(w)
    BY <1>1, FinishUnchangedHandlerInv
  <1>2. CASE ~FinishUnchanged(w)
    <2> USE DEF Goto, At, LockMeeting, LockRecurrence, db, locks
    <2> SUFFICES OthersLeftAlone(w) /\ LocksHeld(w)' /\ ChecksHold(w)' /\ UNCHANGED db
      BY OthersKeepLocks, OthersKeepChecks DEF HandlerInv
    <2>1. CASE CheckStep(w)
      <3> USE DEF CheckStep, MatFind, MatLock, MatCheck, MatDuplicate, MovLock,
                  MovRec, ExcLock, ExcCheck, CanLock, CanFind, CanRec, TerRec,
                  DelLock
      <3>1. UNCHANGED db
        BY <1>2, <2>1
      <3>2. OthersLeftAlone(w)
        BY <1>2, <2>1, WorkerAssumption
        DEF TypeInv, TypeOK, OthersLeftAlone, HandlerInv, LocksHeld, HoldsRecurrence
      <3>3. LocksHeld(w)'
        BY <1>2, <2>1
        DEF TypeInv, TypeOK, Shaped, HandlerInv, LocksHeld, HoldsRecurrence,
            HoldsMeeting, MatLabels, MovLabels, ExcLabels, CanLabels
      <3>4. ChecksHold(w)'
        BY <1>2, <2>1
        DEF TypeInv, TypeOK, HandlerInv, ChecksHold, MovLabels, MatRejected,
            ExcRejected, Suppressed
      <3> QED BY <3>1, <3>2, <3>3, <3>4
    <2>2. CASE TerLock(w)
      <3> DEFINE o == NextByPk(scan[w].todo)
      <3>1. /\ At(w, "ter_lock") /\ LockMeeting(w, o)
            /\ UNCHANGED <<db, now, recLock, seriesLock, pc, req>>
            /\ scan' = [scan EXCEPT
                 ![w].todo = @ \ {o},
                 ![w].cand = @ \cup ({o} \cap UpcomingFrom(req[w].at))]
        BY <2>2 DEF TerLock
      <3> HIDE DEF o
      <3>2. OthersLeftAlone(w)
        BY <3>1, WorkerAssumption DEF TypeInv, TypeOK, OthersLeftAlone
      <3>3. \A x \in scan'[w].cand :
              x \in scan[w].cand \/ (x = o /\ o \in Occurrence)
        BY <3>1 DEF TypeInv, TypeOK, Scans, UpcomingFrom
      <3>4. LocksHeld(w)'
        BY <3>1, <3>3 
        DEF TypeInv, TypeOK, HandlerInv, LocksHeld, Scans,
            HoldsRecurrence, HoldsMeeting, TerLabels
      <3>5. ChecksHold(w)'
        BY <3>1 DEF TypeInv, TypeOK, HandlerInv, ChecksHold, MovLabels
      <3> QED BY <3>1, <3>2, <3>4, <3>5
    <2>3. CASE ScanStep(w) /\ ~TerLock(w)
      <3> USE DEF ScanStep, TerSelect, TerRequery, TerRetry, DelRec, DelMeeting
      <3>1. UNCHANGED db
        BY <1>2, <2>3
      <3>2. OthersLeftAlone(w)
        BY <1>2, <2>3, WorkerAssumption
        DEF TypeInv, TypeOK, OthersLeftAlone, ReleaseLocks
      <3>3. LocksHeld(w)'
        BY <1>2, <2>3
        DEF TypeInv, TypeOK, HandlerInv, LocksHeld, HoldsRecurrence, HoldsMeeting,
            Scans, TerLabels
      <3>4. ChecksHold(w)'
        BY <1>2, <2>3
        DEF TypeInv, TypeOK, HandlerInv, ChecksHold, MovLabels, UpcomingFrom, Scans
      <3> QED BY <3>1, <3>2, <3>3, <3>4
    <2> QED BY <2>1, <2>2, <2>3 DEF QuietStep, ScanStep
  <1> QED BY <1>1, <1>2

\* Without a write, safety stays.
LEMMA QuietStepSafety ==
  ASSUME TerminatedFutureEmpty, CancelledIffExcluded, UNCHANGED db
  PROVE  TerminatedFutureEmpty' /\ CancelledIffExcluded'
  BY DEF TerminatedFutureEmpty, CancelledIffExcluded, Suppressed, db

-----------------------------------------------------------------------------
\* Safety after a step, and what the others had checked.
Settled(w) ==
  /\ \A u \in Worker \ {w} : ChecksHold(u)'
  /\ TerminatedFutureEmpty'
  /\ CancelledIffExcluded'

\* A committing step keeps the invariant when its writes settle.
LEMMA SaveStepIInv ==
  ASSUME IInv, NEW w \in Worker, Finish(w), excluded \subseteq excluded',
         TypeInv', Settled(w)
  PROVE  IInv'
  BY FinishLeavesOthersAlone, OthersKeepLocks DEF IInv, HandlerInv, Settled

\* The insert of a first materialization: no other handler had checked the
\* contrary, because the recurrence row is locked.
LEMMA MatInsertSettles ==
  ASSUME IInv, NEW w \in Worker, MatInsert(w), ~MoveRejected(w)
  PROVE  Settled(w) /\ Finish(w) /\ excluded \subseteq excluded'
  <1> USE DEF IInv, TypeInv, TypeOK, Shaped, At
  <1> DEFINE o == req[w].occ
  <1>1. /\ pc[w] = "mat_insert" /\ o \in Occurrence /\ NewStart(w) \in Time
        /\ status[o] = "virtual"
        /\ status' = [status EXCEPT ![o] = "upcoming"]
        /\ scheduled' = [scheduled EXCEPT ![o] = NewStart(w)]
        /\ Finish(w)
        /\ UNCHANGED <<excluded, terminatedAt, template, now>>
    BY OccurrenceAssumption DEF MatInsert, NewStart, MatLabels
  <1>2. recLock = w /\ template /\ o \notin excluded /\ ~Suppressed(o)
    BY <1>1 DEF HandlerInv, LocksHeld, ChecksHold, HoldsRecurrence
  <1>3. ~Suppressed(NewStart(w))
    BY <1>2 DEF NewStart, MoveRejected
  <1> HIDE DEF o
  <1>4. ASSUME NEW u \in Worker \ {w} PROVE ChecksHold(u)'
    <2>1. pc'[u] = pc[u] /\ req'[u] = req[u] /\ scan'[u] = scan[u]
      BY <1>1 DEF Finish, Goto
    <2>2. LocksHeld(u) /\ ChecksHold(u)
      BY DEF HandlerInv
    <2> QED
      BY <1>1, <1>2, <2>1, <2>2
      DEF LocksHeld, ChecksHold, Suppressed, UpcomingFrom, HoldsRecurrence,
          HoldsMeeting, MatLabels, MovLabels, ExcLabels, CanLabels, TerLabels
  <1>5. TerminatedFutureEmpty'
    BY <1>1, <1>3 DEF TerminatedFutureEmpty, Suppressed
  <1>6. CancelledIffExcluded'
    BY <1>1, <1>2 DEF CancelledIffExcluded
  <1> QED BY <1>1, <1>4, <1>5, <1>6 DEF Settled

\* The write of a time move, under the Meeting and the recurrence row.
LEMMA MovSaveSettles ==
  ASSUME IInv, NEW w \in Worker, MovSave(w), ~Suppressed(req[w].at)
  PROVE  Settled(w) /\ Finish(w) /\ excluded \subseteq excluded'
  <1> USE DEF IInv, TypeInv, TypeOK, Shaped, At
  <1>1. Finish(w) /\ excluded \subseteq excluded'
    BY DEF MovSave
  <1>2. ASSUME NEW u \in Worker \ {w} PROVE ChecksHold(u)'
    <2>1. pc'[u] = pc[u] /\ req'[u] = req[u] /\ scan'[u] = scan[u]
      BY <1>1 DEF Finish, Goto
    <2>2. LocksHeld(w) /\ ChecksHold(w) /\ LocksHeld(u) /\ ChecksHold(u)
      BY DEF HandlerInv
    <2> QED
      BY <2>1, <2>2
      DEF MovSave, LocksHeld, ChecksHold, Suppressed, UpcomingFrom,
          HoldsRecurrence, HoldsMeeting, MovLabels
  <1>3. ChecksHold(w)
    BY DEF HandlerInv
  <1>4. TerminatedFutureEmpty'
    BY DEF MovSave, TerminatedFutureEmpty, Suppressed
  <1>5. CancelledIffExcluded'
    BY DEF MovSave, CancelledIffExcluded
  <1> QED BY <1>1, <1>2, <1>4, <1>5 DEF Settled

\* The insert of an exclusion, under the recurrence row.
LEMMA ExcInsertSettles ==
  ASSUME IInv, NEW w \in Worker, ExcInsert(w)
  PROVE  Settled(w) /\ Finish(w) /\ excluded \subseteq excluded'
  <1> USE DEF IInv, TypeInv, TypeOK, Shaped, At
  <1>1. Finish(w) /\ excluded \subseteq excluded'
    BY DEF ExcInsert
  <1>2. ASSUME NEW u \in Worker \ {w} PROVE ChecksHold(u)'
    <2>1. pc'[u] = pc[u] /\ req'[u] = req[u] /\ scan'[u] = scan[u]
      BY <1>1 DEF Finish, Goto
    <2>2. LocksHeld(w) /\ ChecksHold(w) /\ LocksHeld(u) /\ ChecksHold(u)
      BY DEF HandlerInv
    <2> QED
      BY <2>1, <2>2
      DEF ExcInsert, LocksHeld, ChecksHold, Suppressed, UpcomingFrom,
          HoldsRecurrence, ExcLabels
  <1>3. ChecksHold(w)
    BY DEF HandlerInv
  <1>4. TerminatedFutureEmpty'
    BY DEF ExcInsert, TerminatedFutureEmpty, Suppressed
  <1>5. CancelledIffExcluded'
    BY <1>3 DEF ExcInsert, ChecksHold, CancelledIffExcluded
  <1> QED BY <1>1, <1>2, <1>4, <1>5 DEF Settled

\* The writes of a cancellation, under the Meeting row and, for a new
\* exclusion, the recurrence row.
LEMMA CanSaveSettles ==
  ASSUME IInv, NEW w \in Worker, CanSave(w)
  PROVE  Settled(w) /\ Finish(w) /\ excluded \subseteq excluded'
  <1> USE DEF IInv, TypeInv, TypeOK, Shaped, At
  <1>1. Finish(w) /\ excluded \subseteq excluded'
    BY DEF CanSave
  <1>2. ASSUME NEW u \in Worker \ {w} PROVE ChecksHold(u)'
    <2>1. pc'[u] = pc[u] /\ req'[u] = req[u] /\ scan'[u] = scan[u]
      BY <1>1 DEF Finish, Goto
    <2>2. LocksHeld(w) /\ ChecksHold(w) /\ LocksHeld(u) /\ ChecksHold(u)
      BY DEF HandlerInv
    <2> QED
      BY <2>1, <2>2
      DEF CanSave, LocksHeld, ChecksHold, Suppressed, UpcomingFrom,
          HoldsRecurrence, HoldsMeeting, CanLabels
  <1>3. ChecksHold(w)
    BY DEF HandlerInv
  <1>4. TerminatedFutureEmpty'
    BY DEF CanSave, TerminatedFutureEmpty, Suppressed
  <1>5. CancelledIffExcluded'
    BY DEF CanSave, CancelledIffExcluded
  <1> QED BY <1>1, <1>2, <1>4, <1>5 DEF Settled

\* The writes of a termination: its candidates are locked, and are all there
\* is to cancel.
LEMMA TerSaveSettles ==
  ASSUME IInv, NEW w \in Worker, TerSave(w)
  PROVE  Settled(w) /\ Finish(w) /\ excluded \subseteq excluded'
  <1> USE DEF IInv, TypeInv, TypeOK, Shaped, At
  <1>1. Finish(w) /\ excluded \subseteq excluded'
    BY DEF TerSave
  <1>2. ASSUME NEW u \in Worker \ {w} PROVE ChecksHold(u)'
    <2>1. pc'[u] = pc[u] /\ req'[u] = req[u] /\ scan'[u] = scan[u]
      BY <1>1 DEF Finish, Goto
    <2>2. LocksHeld(w) /\ ChecksHold(w) /\ LocksHeld(u) /\ ChecksHold(u)
      BY DEF HandlerInv
    <2> QED
      BY <2>1, <2>2
      DEF TerSave, LocksHeld, ChecksHold, Suppressed, UpcomingFrom,
          HoldsRecurrence, MovLabels, CanLabels
  <1>3. ChecksHold(w)
    BY DEF HandlerInv
  <1>4. TerminatedFutureEmpty'
    BY <1>3 DEF TerSave, ChecksHold, TerminatedFutureEmpty, Suppressed,
        UpcomingFrom
  <1>5. CancelledIffExcluded'
    BY <1>3 DEF TerSave, ChecksHold, CancelledIffExcluded, UpcomingFrom
  <1> QED BY <1>1, <1>2, <1>4, <1>5 DEF Settled

\* The commit of a Template deletion.
LEMMA DelSaveSettles ==
  ASSUME IInv, NEW w \in Worker, DelSave(w)
  PROVE  Settled(w) /\ Finish(w) /\ excluded \subseteq excluded'
  <1> USE DEF IInv, TypeInv, TypeOK, Shaped, At
  <1>1. Finish(w) /\ excluded \subseteq excluded'
    BY DEF DelSave
  <1>2. ASSUME NEW u \in Worker \ {w} PROVE ChecksHold(u)'
    <2>1. pc'[u] = pc[u] /\ req'[u] = req[u] /\ scan'[u] = scan[u]
      BY <1>1 DEF Finish, Goto
    <2>2. LocksHeld(w) /\ ChecksHold(w) /\ LocksHeld(u) /\ ChecksHold(u)
      BY DEF HandlerInv
    <2> QED
      BY <2>1, <2>2
      DEF DelSave, LocksHeld, ChecksHold, Suppressed, UpcomingFrom,
          HoldsRecurrence
  <1>3. ChecksHold(w)
    BY DEF HandlerInv
  <1>4. TerminatedFutureEmpty'
    BY DEF DelSave, TerminatedFutureEmpty, Suppressed
  <1>5. CancelledIffExcluded'
    BY DEF DelSave, CancelledIffExcluded
  <1> QED BY <1>1, <1>2, <1>4, <1>5 DEF Settled

-----------------------------------------------------------------------------
(* The steps that are not a handler's, and the whole next-state relation *)

\* What a request asks for, and where its handler starts.
RequestFits(w, op, o, t, label) ==
  /\ op \in OperationNames
  /\ o \in Occurrence \cup {NoTime}
  /\ t \in Time \cup {NoTime}
  /\ \/ label \in {"exc_lock", "can_lock"} /\ o \in Occurrence
     \/ /\ label = "mat_find" /\ o \in Occurrence
        /\ op = "materialize" \/ (op = "reschedule" /\ t \in Time)
     \/ /\ label = "mov_lock" /\ o \in Occurrence /\ t \in Time
        /\ status[o] # "virtual"
     \/ label = "ter_select" /\ t = now
     \/ label = "del_lock"

\* Every request starts at the place, and with the data, its operation needs.
LEMMA BeginFits ==
  ASSUME TypeOK, NEW w \in Worker, BeginRequest(w)
  PROVE  \E op, o, t, label :
           Begin(w, op, o, t, label) /\ RequestFits(w, op, o, t, label)
  <1> USE DEF RequestFits, OperationNames
  <1>1. ASSUME NEW o \in Occurrence, BeginMaterialize(w, o)
        PROVE  Begin(w, "materialize", o, NoTime, "mat_find")
               /\ RequestFits(w, "materialize", o, NoTime, "mat_find")
    BY <1>1 DEF BeginMaterialize
  <1>2. ASSUME NEW o \in Occurrence, BeginExclude(w, o)
        PROVE  Begin(w, "exclude", o, NoTime, "exc_lock")
               /\ RequestFits(w, "exclude", o, NoTime, "exc_lock")
    BY <1>2 DEF BeginExclude
  <1>3. ASSUME NEW o \in Occurrence, BeginCancel(w, o)
        PROVE  Begin(w, "cancel", o, NoTime, "can_lock")
               /\ RequestFits(w, "cancel", o, NoTime, "can_lock")
    BY <1>3 DEF BeginCancel
  <1>4. ASSUME NEW o \in Occurrence, NEW t \in Time, BeginReschedule(w, o, t)
        PROVE  \E label : Begin(w, "reschedule", o, t, label)
                          /\ RequestFits(w, "reschedule", o, t, label)
    <2>1. CASE status[o] = "virtual"
      BY <1>4, <2>1 DEF BeginReschedule
    <2>2. CASE status[o] # "virtual"
      BY <1>4, <2>2 DEF BeginReschedule
    <2> QED BY <2>1, <2>2
  <1>5. ASSUME NEW o \in Occurrence, NEW t \in Time, BeginEdit(w, o, t)
        PROVE  Begin(w, "edit", o, t, "mov_lock")
               /\ RequestFits(w, "edit", o, t, "mov_lock")
    BY <1>5 DEF BeginEdit
  <1>6. ASSUME BeginTerminate(w)
        PROVE  Begin(w, "terminate", NoTime, now, "ter_select")
               /\ RequestFits(w, "terminate", NoTime, now, "ter_select")
    BY <1>6 DEF BeginTerminate, TypeOK
  <1>7. ASSUME BeginDeleteTemplate(w)
        PROVE  Begin(w, "delete_template", NoTime, NoTime, "del_lock")
               /\ RequestFits(w, "delete_template", NoTime, NoTime, "del_lock")
    BY <1>7 DEF BeginDeleteTemplate
  <1> HIDE DEF RequestFits, OperationNames
  <1> QED
    BY <1>1, <1>2, <1>3, <1>4, <1>5, <1>6, <1>7 DEF BeginRequest

\* A new request keeps the invariant.
LEMMA BeginIInv ==
  ASSUME IInv, NEW w \in Worker, BeginRequest(w)
  PROVE  IInv'
  <1> USE DEF IInv, TypeInv, TypeOK
  <1>1. PICK op, o, t, label :
          Begin(w, op, o, t, label) /\ RequestFits(w, op, o, t, label)
    BY BeginFits
  <1>2. /\ pc' = [pc EXCEPT ![w] = label]
        /\ req' = [req EXCEPT ![w] = [op |-> op, occ |-> o, at |-> t]]
        /\ UNCHANGED <<db, now, locks, scan>>
    BY <1>1 DEF Begin, Goto
  <1>3. label \in Labels /\ [op |-> op, occ |-> o, at |-> t] \in Requests
    BY <1>1 DEF RequestFits, Labels, Requests
  <1>4. TypeOK'
    BY <1>2, <1>3 DEF db, locks
  <1>5. (\A u \in Worker : Shaped(u))'
    BY <1>1, <1>2, TimeAssumption
    DEF db, RequestFits, Shaped, MatLabels, MovLabels, ExcLabels, CanLabels, TerLabels
  <1>6. OthersLeftAlone(w)
    BY <1>2 DEF OthersLeftAlone, db, locks
  <1>7. LocksHeld(w)' /\ ChecksHold(w)'
    BY <1>1, <1>2
    DEF RequestFits, LocksHeld, ChecksHold, HoldsRecurrence, HoldsMeeting,
        MovLabels, db
  <1>8. HandlerInv'
    BY <1>2, <1>6, <1>7, OthersKeepLocks, OthersKeepChecks DEF HandlerInv
  <1> QED
    BY <1>2, <1>4, <1>5, <1>8, QuietStepSafety

\* Start, end and reopen need the Meeting row free, so nobody who relies on
\* its status holds it.
LEMMA LifecycleIInv ==
  ASSUME IInv, NEW o \in Occurrence, NEW from, NEW to, Lifecycle(o, from, to),
         <<from, to>> \in {<<"upcoming", "live">>, <<"live", "completed">>,
                           <<"completed", "live">>}
  PROVE  IInv'
  <1> USE DEF IInv, TypeInv, TypeOK, Lifecycle, locks
  <1>1. /\ from \in {"upcoming", "live", "completed"}
        /\ to \in {"live", "completed"}
    OBVIOUS
  <1>2. TypeOK'
    BY <1>1 DEF Statuses
  <1>3. (\A w \in Worker : Shaped(w))'
    BY DEF Shaped
  <1>4. ASSUME NEW w \in Worker PROVE LocksHeld(w)'
    BY DEF HandlerInv, LocksHeld
  <1>5. ASSUME NEW w \in Worker PROVE ChecksHold(w)'
    <2>1. LocksHeld(w) /\ ChecksHold(w) /\ Shaped(w)
      BY DEF HandlerInv
    <2>2. req[w].occ = o => pc[w] \notin HoldsMeeting
      BY <2>1, WorkerAssumption DEF LocksHeld
    <2>3. o \notin scan[w].cand \/ pc[w] \notin {"ter_requery", "ter_save"}
      BY <2>1, WorkerAssumption DEF LocksHeld
    <2> QED
      BY <1>1, <2>1, <2>2, <2>3
      DEF ChecksHold, Shaped, Suppressed, UpcomingFrom, HoldsMeeting, MatLabels,
          MovLabels, ExcLabels, CanLabels, TerLabels
  <1>6. TerminatedFutureEmpty' /\ CancelledIffExcluded'
    BY <1>1 DEF TerminatedFutureEmpty, CancelledIffExcluded, Suppressed
  <1> QED BY <1>2, <1>3, <1>4, <1>5, <1>6 DEF HandlerInv

\* Time passing keeps the invariant.
LEMMA TickIInv ==
  ASSUME IInv, Tick
  PROVE  IInv'
  <1> USE DEF IInv, TypeInv, TypeOK, Tick, db, locks
  <1>1. TypeOK'
    OBVIOUS
  <1>2. (\A w \in Worker : Shaped(w))'
    <2> SUFFICES ASSUME NEW w \in Worker, Shaped(w) PROVE Shaped(w)'
      OBVIOUS
    <2>1. pc[w] \in TerLabels =>
            req[w].at \in Int /\ req[w].at <= now /\ req[w].at \in Time
      BY TimeAssumption DEF Shaped
    <2>2. now < now' /\ now \in Int /\ now' \in Int
      BY TimeAssumption
    <2>3. \A i, j, k \in Int : i <= j /\ j < k => i <= k
      OBVIOUS
    <2>4. pc'[w] \in TerLabels => req'[w].at <= now'
      BY <2>1, <2>2, <2>3
    <2> QED BY <2>1, <2>4 DEF Shaped
  <1>3. HandlerInv'
    BY DEF HandlerInv, LocksHeld, ChecksHold, Suppressed, UpcomingFrom
  <1> QED BY <1>1, <1>2, <1>3, QuietStepSafety

\* Every step of a handler keeps the invariant.
LEMMA StepIInv ==
  ASSUME IInv, NEW w \in Worker, Step(w)
  PROVE  IInv'
  <1>1. TypeInv'
    BY StepTypeInv DEF IInv
  <1>2. CASE QuietStep(w)
    <2>1. HandlerInv'
      BY <1>2, QuietStepHandlerInv DEF IInv
    <2>2. UNCHANGED db
      BY <1>2
      DEF QuietStep, CheckStep, ScanStep, MatFind, MatLock, MatCheck,
          MatDuplicate, MovLock, MovRec, ExcLock, ExcCheck, CanLock, CanFind,
          CanRec, TerSelect, TerLock, TerRec, TerRequery, TerRetry, DelLock,
          DelRec, DelMeeting, FinishUnchanged
    <2> QED BY <1>1, <2>1, <2>2, QuietStepSafety DEF IInv
  <1>3. CASE FinishUnchanged(w)
    BY <1>1, <1>3, FinishUnchangedHandlerInv, QuietStepSafety
    DEF IInv, FinishUnchanged
  <1>4. CASE MatInsert(w) /\ ~MoveRejected(w)
    BY <1>1, <1>4, MatInsertSettles, SaveStepIInv
  <1>5. CASE MovSave(w) /\ ~Suppressed(req[w].at)
    BY <1>1, <1>5, MovSaveSettles, SaveStepIInv
  <1>6. CASE ExcInsert(w)
    BY <1>1, <1>6, ExcInsertSettles, SaveStepIInv
  <1>7. CASE CanSave(w)
    BY <1>1, <1>7, CanSaveSettles, SaveStepIInv
  <1>8. CASE TerSave(w)
    BY <1>1, <1>8, TerSaveSettles, SaveStepIInv
  <1>9. CASE DelSave(w)
    BY <1>1, <1>9, DelSaveSettles, SaveStepIInv
  <1>10. MatInsert(w) => FinishUnchanged(w) \/ ~MoveRejected(w)
    BY DEF MatInsert
  <1>11. MovSave(w) => FinishUnchanged(w) \/ ~Suppressed(req[w].at)
    BY DEF MovSave
  <1> QED
    BY <1>2, <1>3, <1>4, <1>5, <1>6, <1>7, <1>8, <1>9, <1>10, <1>11
    DEF Step, QuietStep, CheckStep, ScanStep

\* The invariant holds at first ...
LEMMA InitIInv == Init => IInv
  <1> SUFFICES ASSUME Init PROVE IInv
    OBVIOUS
  <1> USE DEF Init
  <1>1. TypeOK
    BY OccurrenceAssumption
    DEF TypeOK, Statuses, Labels, NoRequest, NoScan, Requests, Scans
  <1>2. TypeInv
    BY <1>1 DEF TypeInv, Shaped, MatLabels, MovLabels, ExcLabels, CanLabels,
                TerLabels
  <1>3. HandlerInv
    BY DEF HandlerInv, LocksHeld, ChecksHold, HoldsRecurrence, HoldsMeeting,
           MovLabels, TerLabels
  <1>4. TerminatedFutureEmpty /\ CancelledIffExcluded
    BY DEF TerminatedFutureEmpty, CancelledIffExcluded
  <1> QED BY <1>2, <1>3, <1>4 DEF IInv

\* ... every step keeps it ...
LEMMA NextIInv == IInv /\ [Next]_vars => IInv'
  <1> SUFFICES ASSUME IInv, [Next]_vars PROVE IInv'
    OBVIOUS
  <1>1. ASSUME NEW w \in Worker, BeginRequest(w) PROVE IInv'
    BY <1>1, BeginIInv
  <1>2. ASSUME NEW w \in Worker, Step(w) PROVE IInv'
    BY <1>2, StepIInv
  <1>3. ASSUME NEW w \in Worker, Crash(w) PROVE IInv'
    BY <1>3, FinishUnchangedTypeInv, FinishUnchangedHandlerInv, QuietStepSafety
    DEF IInv, Crash, FinishUnchanged
  <1>4. ASSUME NEW o \in Occurrence,
               StartMeeting(o) \/ EndMeeting(o) \/ ReopenMeeting(o)
        PROVE  IInv'
    BY <1>4, LifecycleIInv DEF StartMeeting, EndMeeting, ReopenMeeting
  <1>5. CASE Tick
    BY <1>5, TickIInv
  <1>6. CASE UNCHANGED vars
    BY <1>6
    DEF IInv, TypeInv, TypeOK, Shaped, HandlerInv, LocksHeld, ChecksHold,
        TerminatedFutureEmpty, CancelledIffExcluded, Suppressed, UpcomingFrom,
        vars, db, locks
  <1> QED BY <1>1, <1>2, <1>3, <1>4, <1>5, <1>6 DEF Next

-----------------------------------------------------------------------------
(* Theorems: the invariants *)

\* ... and so it holds in every reachable state.
LEMMA InductiveInvariant == Spec => []IInv
  BY InitIInv, NextIInv, PTL DEF Spec

\* The columns, locks and handlers always hold values of their types.
THEOREM TypeCorrect == Spec => []TypeOK
  <1>1. IInv => TypeOK
    BY DEF IInv, TypeInv
  <1> QED BY <1>1, InductiveInvariant, PTL

\* Whatever races with it, a termination leaves no upcoming Meeting in the
\* terminated future, and none gets there afterwards
\* (terminate_meeting_recurrence, _guard_recurrence_time_move).
THEOREM NoUpcomingAfterTermination == Spec => []TerminatedFutureEmpty
  <1>1. IInv => TerminatedFutureEmpty
    BY DEF IInv
  <1> QED BY <1>1, InductiveInvariant, PTL

\* A Meeting is cancelled exactly when its occurrence is excluded, however
\* materialize, exclude, cancel and terminate interleave.
THEOREM CancelledMeansExcluded == Spec => []CancelledIffExcluded
  <1>1. IInv => CancelledIffExcluded
    BY DEF IInv
  <1> QED BY <1>1, InductiveInvariant, PTL

-----------------------------------------------------------------------------
(* Theorems: the refinement of the atomic contract *)

\* The steps that only read, lock and unlock are invisible in the contract.
LEMMA UnseenStep ==
  ASSUME UNCHANGED <<db, now>>
  PROVE  UNCHANGED Contract!vars
  BY DEF db, Contract!vars

\* A handler's step is an operation of the contract or invisible in it.
LEMMA StepImplements ==
  ASSUME IInv, NEW w \in Worker, Step(w)
  PROVE  [Contract!Next]_(Contract!vars)
  <1> USE DEF IInv, TypeInv, TypeOK, Shaped, At
  <1>1. LocksHeld(w) /\ ChecksHold(w)
    BY DEF HandlerInv
  <1>2. CASE QuietStep(w) \/ FinishUnchanged(w)
    <2>1. UNCHANGED <<db, now>>
      BY <1>2
      DEF QuietStep, CheckStep, ScanStep, MatFind, MatLock, MatCheck,
          MatDuplicate, MovLock, MovRec, ExcLock, ExcCheck, CanLock, CanFind,
          CanRec, TerSelect, TerLock, TerRec, TerRequery, TerRetry, DelLock,
          DelRec, DelMeeting, FinishUnchanged
    <2> QED BY <2>1, UnseenStep
  <1>3. CASE MatInsert(w) /\ ~MoveRejected(w)
    <2>1. req[w].occ \in Occurrence /\ NewStart(w) \in Time
      BY <1>3, OccurrenceAssumption DEF MatInsert, NewStart, MatLabels
    <2>2. NewStart(w) = req[w].occ \/ ~Suppressed(NewStart(w))
      BY <1>3 DEF NewStart, MoveRejected
    <2>3. Contract!Materialize(req[w].occ, NewStart(w))
      BY <1>1, <1>3, <2>1, <2>2
      DEF MatInsert, ChecksHold, Contract!Materialize, Suppressed,
          Contract!Suppressed
    <2> QED BY <2>1, <2>3 DEF Contract!Next
  <1>4. CASE MovSave(w) /\ ~Suppressed(req[w].at)
    <2>1. req[w].occ \in Occurrence /\ req[w].at \in Time
      BY <1>4 DEF MovSave, MovLabels
    <2>2. Contract!Move(req[w].occ, req[w].at)
      BY <1>1, <1>4
      DEF MovSave, ChecksHold, MovLabels, Contract!Move, Suppressed,
          Contract!Suppressed
    <2> QED BY <2>1, <2>2 DEF Contract!Next
  <1>5. CASE ExcInsert(w)
    <2>1. req[w].occ \in Occurrence
      BY <1>5 DEF ExcInsert, ExcLabels
    <2>2. Contract!Exclude(req[w].occ)
      BY <1>1, <1>5
      DEF ExcInsert, ChecksHold, Contract!Exclude, Suppressed,
          Contract!Suppressed
    <2> QED BY <2>1, <2>2 DEF Contract!Next
  <1>6. CASE CanSave(w)
    <2>1. req[w].occ \in Occurrence
      BY <1>6 DEF CanSave, CanLabels
    <2>2. CASE status[req[w].occ] = "upcoming"
      <3>1. Contract!Cancel(req[w].occ)
        BY <1>6, <2>2 DEF CanSave, Contract!Cancel
      <3> QED BY <2>1, <3>1 DEF Contract!Next
    <2>3. CASE status[req[w].occ] = "cancelled"
      <3>1. status' = status /\ excluded' = excluded
        BY <1>6, <2>1, <2>3 DEF CanSave, CancelledIffExcluded
      <3> QED BY <1>6, <3>1 DEF CanSave, Contract!vars
    <2> QED BY <1>1, <1>6, <2>2, <2>3 DEF CanSave, ChecksHold
  <1>7. CASE TerSave(w)
    <2>1. req[w].at \in Time /\ req[w].at <= now
      BY <1>7 DEF TerSave, TerLabels
    <2>2. scan[w].active = Contract!UpcomingFrom(req[w].at)
      BY <1>1, <1>7 DEF TerSave, ChecksHold, UpcomingFrom, Contract!UpcomingFrom
    <2>3. terminatedAt = NoTime
      BY <1>1, <1>7 DEF TerSave, ChecksHold
    <2>4. Contract!Terminate(req[w].at)
      BY <1>7, <2>1, <2>2, <2>3 DEF TerSave, Contract!Terminate
    <2> QED BY <2>1, <2>4 DEF Contract!Next
  <1>8. CASE DelSave(w)
    <2>1. Contract!DropTemplate
      BY <1>8 DEF DelSave, Contract!DropTemplate
    <2> QED BY <2>1 DEF Contract!Next
  <1>9. MatInsert(w) => FinishUnchanged(w) \/ ~MoveRejected(w)
    BY DEF MatInsert
  <1>10. MovSave(w) => FinishUnchanged(w) \/ ~Suppressed(req[w].at)
    BY DEF MovSave
  <1> QED
    BY <1>2, <1>3, <1>4, <1>5, <1>6, <1>7, <1>8, <1>9, <1>10
    DEF Step, QuietStep, CheckStep, ScanStep

\* So is every step of the system.
LEMMA NextImplements ==
  IInv /\ [Next]_vars => [Contract!Next]_(Contract!vars)
  <1> SUFFICES ASSUME IInv, [Next]_vars PROVE [Contract!Next]_(Contract!vars)
    OBVIOUS
  <1>1. ASSUME NEW w \in Worker, BeginRequest(w) PROVE UNCHANGED <<db, now>>
    BY <1>1
    DEF BeginRequest, BeginMaterialize, BeginExclude, BeginCancel,
        BeginReschedule, BeginEdit, BeginTerminate, BeginDeleteTemplate, Begin
  <1>2. ASSUME NEW w \in Worker, Step(w) PROVE [Contract!Next]_(Contract!vars)
    BY <1>2, StepImplements
  <1>3. ASSUME NEW w \in Worker, Crash(w) PROVE UNCHANGED <<db, now>>
    BY <1>3 DEF Crash, FinishUnchanged
  <1>4. ASSUME NEW o \in Occurrence,
               StartMeeting(o) \/ EndMeeting(o) \/ ReopenMeeting(o)
        PROVE  Contract!Next
    BY <1>4
    DEF StartMeeting, EndMeeting, ReopenMeeting, Lifecycle, Contract!Lifecycle,
        Contract!Next
  <1>5. CASE Tick
    BY <1>5 DEF Tick, db, Contract!Tick, Contract!Next
  <1>6. CASE UNCHANGED vars
    BY <1>6 DEF vars, db, Contract!vars
  <1> QED
    BY <1>1, <1>2, <1>3, <1>4, <1>5, <1>6, UnseenStep DEF Next

\* Every interleaving of the handlers' transactions, crashes included, shows
\* the committed state of a sequence of atomic operations: the transactions
\* of meetings/services.py are serializable where it matters.
THEOREM Refinement == Spec => ImplementsContract
  <1>1. Init => Contract!Init
    BY DEF Init, Contract!Init
  <1> QED
    BY <1>1, NextImplements, InductiveInvariant, PTL
    DEF Spec, ImplementsContract, Contract!Spec

-----------------------------------------------------------------------------
(* Theorems: what no step does, read off the contract *)

\* What an atomic operation may do to terminated_at and to a status.
LEMMA ContractStepLegal ==
  ASSUME IInv, [Contract!Next]_(Contract!vars)
  PROVE  /\ terminatedAt # NoTime => terminatedAt' = terminatedAt
         /\ \A o \in Occurrence :
              status'[o] = status[o]
              \/ <<status[o], status'[o]>> \in
                   {<<"virtual", "upcoming">>, <<"upcoming", "live">>,
                    <<"live", "completed">>, <<"completed", "live">>,
                    <<"upcoming", "cancelled">>}
         /\ \A o \in Occurrence :
              status[o] = "virtual" /\ status'[o] # "virtual"
                => ~Suppressed(o) /\ o \notin excluded
  <1> USE DEF IInv, TypeInv, TypeOK
  <1>1. ASSUME NEW o \in Occurrence, NEW t \in Time, Contract!Materialize(o, t)
        PROVE  /\ terminatedAt' = terminatedAt
               /\ status[o] = "virtual" /\ ~Suppressed(o) /\ o \notin excluded
               /\ status' = [status EXCEPT ![o] = "upcoming"]
    BY <1>1 DEF Contract!Materialize, Suppressed, Contract!Suppressed
  <1>2. ASSUME NEW o \in Occurrence, NEW t \in Time, Contract!Move(o, t)
        PROVE  UNCHANGED <<terminatedAt, status>>
    BY <1>2 DEF Contract!Move
  <1>3. ASSUME NEW o \in Occurrence, Contract!Exclude(o)
        PROVE  UNCHANGED <<terminatedAt, status>>
    BY <1>3 DEF Contract!Exclude
  <1>4. ASSUME NEW o \in Occurrence, Contract!Cancel(o)
        PROVE  /\ terminatedAt' = terminatedAt
               /\ status[o] = "upcoming"
               /\ status' = [status EXCEPT ![o] = "cancelled"]
    BY <1>4 DEF Contract!Cancel
  <1>5. ASSUME NEW t \in Time, Contract!Terminate(t)
        PROVE  /\ terminatedAt = NoTime
               /\ \A o \in Occurrence :
                    \/ status'[o] = status[o]
                    \/ status[o] = "upcoming" /\ status'[o] = "cancelled"
    BY <1>5 DEF Contract!Terminate, Contract!UpcomingFrom
  <1>6. ASSUME NEW o \in Occurrence, NEW from, NEW to,
               Contract!Lifecycle(o, from, to)
        PROVE  /\ terminatedAt' = terminatedAt
               /\ status[o] = from
               /\ status' = [status EXCEPT ![o] = to]
    BY <1>6 DEF Contract!Lifecycle
  <1>7. CASE Contract!DropTemplate \/ Contract!Tick \/ UNCHANGED Contract!vars
    BY <1>7 DEF Contract!DropTemplate, Contract!Tick, Contract!vars
  <1> QED
    BY <1>1, <1>2, <1>3, <1>4, <1>5, <1>6, <1>7 DEF Contract!Next

\* terminated_at is written at most once, whichever terminations race.
THEOREM TerminatesOnce == Spec => TerminationImmutable
  <1>1. IInv /\ [Next]_vars
          => [terminatedAt # NoTime => terminatedAt' = terminatedAt]_vars
    BY NextImplements, ContractStepLegal
  <1> QED
    BY <1>1, InductiveInvariant, PTL DEF Spec, TerminationImmutable

\* No race takes a Meeting's status off the lifecycle: cancelled is terminal,
\* and only an upcoming Meeting is ever cancelled.
THEOREM StatusFollowsLifecycle == Spec => StatusStepsLegal
  <1>1. IInv /\ [Next]_vars =>
          [\A o \in Occurrence :
             status'[o] = status[o]
             \/ <<status[o], status'[o]>> \in
                  {<<"virtual", "upcoming">>, <<"upcoming", "live">>,
                   <<"live", "completed">>, <<"completed", "live">>,
                   <<"upcoming", "cancelled">>}]_vars
    BY NextImplements, ContractStepLegal
  <1> QED
    BY <1>1, InductiveInvariant, PTL DEF Spec, StatusStepsLegal

\* No Meeting is created for an excluded occurrence or in the terminated
\* future, although the check and the insert are separate statements.
THEOREM NoBirthAfterExclusion == Spec => NoLateBirth
  <1>1. IInv /\ [Next]_vars =>
          [\A o \in Occurrence :
             status[o] = "virtual" /\ status'[o] # "virtual"
               => ~Suppressed(o) /\ o \notin excluded]_vars
    BY NextImplements, ContractStepLegal
  <1> QED
    BY <1>1, InductiveInvariant, PTL DEF Spec, NoLateBirth

-----------------------------------------------------------------------------
(* No circle of waits *)

\* Primary keys are given out once, in order.
KeysInv ==
  \A o \in Occurrence :
    /\ status[o] = "virtual" <=> pk[o] = 0
    /\ pk[o] <= lastPk
    /\ \A p \in Occurrence : pk[p] = pk[o] => p = o \/ pk[o] = 0

\* A termination has locked its Meetings in the order of their keys so far.
InKeyOrder(w) ==
  /\ \A o \in scan[w].todo : status[o] # "virtual"
  /\ \A o \in Occurrence : meetingLock[o] = w =>
       status[o] # "virtual" /\ \A p \in scan[w].todo : pk[o] < pk[p]

\* Who holds a lock is where the code holds it: the converse of LocksHeld.
Owns(w) ==
  /\ recLock = w => pc[w] \in HoldsRecurrence \cup {"can_save"}
  /\ seriesLock = w => pc[w] \in {"del_rec", "del_meetings"}
  /\ \A o \in Occurrence : meetingLock[o] = w =>
       pc[w] \in HoldsMeeting \cup {"ter_lock", "ter_requery", "ter_save", "del_meetings"}
  /\ pc[w] \in {"del_lock", "del_rec", "del_meetings"} => req[w].op = "delete_template"
  /\ pc[w] = "ter_lock" => InKeyOrder(w)

OrderInv == KeysInv /\ \A w \in Worker : Owns(w)

\* A Meeting that is there stays, with its key.
RowsStay ==
  \A o \in Occurrence : status[o] # "virtual" => status'[o] # "virtual" /\ pk'[o] = pk[o]

\* A handler that does not move gets no lock.
LeftWithItsLocks(u) ==
  /\ pc'[u] = pc[u] /\ req'[u] = req[u] /\ scan'[u] = scan[u]
  /\ recLock' = u => recLock = u
  /\ seriesLock' = u => seriesLock = u
  /\ \A o \in Occurrence : meetingLock'[o] = u => meetingLock[o] = u

LEMMA KeysUnchanged ==
  ASSUME KeysInv, UNCHANGED db
  PROVE  KeysInv' /\ RowsStay
  BY DEF KeysInv, RowsStay, db

LEMMA OthersOwn ==
  ASSUME IInv, NEW u \in Worker, Owns(u), RowsStay, LeftWithItsLocks(u)
  PROVE  Owns(u)'
  <1>1. pc[u] = "ter_lock" => InKeyOrder(u)'
    <2>1. scan[u].todo \subseteq Occurrence
      BY DEF IInv, TypeInv, TypeOK, Scans
    <2> QED BY <2>1 DEF Owns, InKeyOrder, RowsStay, LeftWithItsLocks
  <1> QED BY <1>1 DEF Owns, LeftWithItsLocks

\* A set of numbers has a least one.
LEMMA LeastNumber ==
  ASSUME NEW S \in SUBSET Nat, S # {}
  PROVE  \E n \in S : \A k \in S : n <= k
  <1>1. PICK n \in S : \A k \in S : ~ (<<k, n>> \in OpToRel(<, Nat))
    BY NatLessThanWellFounded, WFMin
  <1>2. \A k, m \in Nat : k < m => <<k, m>> \in OpToRel(<, Nat)
    BY Zenon DEF OpToRel
  <1>3. \A k \in S : ~ (k < n)
    BY <1>1, <1>2
  <1> QED BY <1>3

LEMMA NextByPkIs ==
  ASSUME IInv, NEW S \in SUBSET Occurrence, S # {}
  PROVE  NextByPk(S) \in S /\ \A p \in S : pk[NextByPk(S)] <= pk[p]
  <1> DEFINE K == {pk[o] : o \in S}
  <1>1. K \in SUBSET Nat /\ K # {}
    BY DEF IInv, TypeInv, TypeOK
  <1>2. PICK n \in K : \A k \in K : n <= k
    BY <1>1, LeastNumber
  <1>3. \E o \in S : \A p \in S : pk[o] <= pk[p]
    BY <1>2
  <1> QED BY <1>3 DEF NextByPk

\* Rows come with fresh keys, and never go.
LEMMA RowsStep ==
  ASSUME IInv, KeysInv, NEW w \in Worker, Step(w)
  PROVE  KeysInv' /\ RowsStay
  <1>0. TypeOK /\ Shaped(w) /\ ChecksHold(w)
    BY DEF IInv, TypeInv, HandlerInv
  <1>1. CASE UNCHANGED db
    BY <1>1, KeysUnchanged
  <1>2. CASE MatInsert(w) /\ ~MoveRejected(w)
    <2> DEFINE x == req[w].occ
    <2>1. x \in Occurrence /\ status[x] = "virtual"
      BY <1>0, <1>2 DEF MatInsert, At, Shaped, MatLabels
    <2>2. /\ status' = [status EXCEPT ![x] = "upcoming"]
          /\ pk' = [pk EXCEPT ![x] = lastPk + 1] /\ lastPk' = lastPk + 1
      <3>1. ~FinishUnchanged(w) \/ ~MoveRejected(w)
        BY <1>2
      <3> QED BY <1>2 DEF MatInsert
    <2> HIDE DEF x
    <2>3. lastPk \in Nat /\ pk \in [Occurrence -> Nat] /\ status \in [Occurrence -> Statuses]
      BY <1>0 DEF TypeOK
    <2>4. RowsStay
      BY <2>1, <2>2, <2>3 DEF RowsStay
    <2>5. pk'[x] = lastPk + 1 /\ status'[x] = "upcoming"
          /\ (\A o \in Occurrence : o # x => pk'[o] = pk[o] /\ status'[o] = status[o])
      BY <2>1, <2>2, <2>3
    <2>6. \A o \in Occurrence : pk[o] \in Nat /\ pk[o] <= lastPk
      BY <2>3 DEF KeysInv
    <2>7. KeysInv'
      BY <2>1, <2>2, <2>3, <2>5, <2>6 DEF KeysInv
    <2> QED BY <2>4, <2>7
  <1>3. CASE CanSave(w)
    <2>1. UNCHANGED <<pk, lastPk>> /\ status' = [status EXCEPT ![req[w].occ] = "cancelled"]
      BY <1>3 DEF CanSave
    <2>2. \A o \in Occurrence : status'[o] = "virtual" <=> status[o] = "virtual"
      BY <1>0, <1>3, <2>1 DEF CanSave, At, ChecksHold, TypeOK
    <2> QED BY <2>1, <2>2 DEF KeysInv, RowsStay
  <1>4. CASE TerSave(w)
    <2>1. UNCHANGED <<pk, lastPk>>
      BY <1>4 DEF TerSave
    <2>2. \A o \in Occurrence : status'[o] = "virtual" <=> status[o] = "virtual"
      BY <1>0, <1>4 DEF TerSave, At, ChecksHold, UpcomingFrom
    <2> QED BY <2>1, <2>2 DEF KeysInv, RowsStay
  <1>5. CASE MovSave(w) \/ ExcInsert(w) \/ DelSave(w)
    <2>1. UNCHANGED <<status, pk, lastPk>>
      BY <1>5 DEF MovSave, ExcInsert, DelSave, FinishUnchanged, db
    <2> QED BY <2>1 DEF KeysInv, RowsStay
  <1>6. QuietStep(w) => UNCHANGED db
    BY DEF QuietStep, CheckStep, ScanStep, MatFind, MatLock, MatCheck,
           MatDuplicate, MovLock, MovRec, ExcLock, ExcCheck, CanLock, CanFind,
           CanRec, TerSelect, TerLock, TerRec, TerRequery, TerRetry, DelLock,
           DelRec, DelMeeting, FinishUnchanged
  <1>7. MatInsert(w) => UNCHANGED db \/ ~MoveRejected(w)
    BY DEF MatInsert, FinishUnchanged
  <1> QED BY <1>1, <1>2, <1>3, <1>4, <1>5, <1>6, <1>7 DEF Step, QuietStep, CheckStep, ScanStep

\* A handler that ends its request owns nothing, and gives nobody a lock.
LEMMA FinishOwns ==
  ASSUME IInv, NEW w \in Worker, Finish(w)
  PROVE  Owns(w)' /\ \A u \in Worker \ {w} : LeftWithItsLocks(u)
  <1>0. TypeOK
    BY DEF IInv, TypeInv
  <1>1. pc'[w] = "idle"
    BY <1>0 DEF TypeOK, Finish, Goto
  <1>2. recLock' # w /\ seriesLock' # w /\ \A o \in Occurrence : meetingLock'[o] # w
    BY WorkerAssumption DEF Finish, ReleaseLocks
  <1>3. ASSUME NEW u \in Worker \ {w}
        PROVE  LeftWithItsLocks(u)
    BY <1>0, <1>3, WorkerAssumption DEF TypeOK, Finish, Goto, ReleaseLocks, LeftWithItsLocks
  <1> QED BY <1>1, <1>2, <1>3 DEF Owns

\* No step gives a lock to another handler.
LEMMA LocksStep ==
  ASSUME IInv, NEW w \in Worker, Step(w), NEW u \in Worker \ {w}
  PROVE  LeftWithItsLocks(u)
  <1>0. TypeOK
    BY DEF IInv, TypeInv
  <1>1. CASE Finish(w)
    BY <1>1, FinishOwns
  <1>2. CASE CheckStep(w) /\ ~Finish(w)
    BY <1>0, <1>2, WorkerAssumption
    DEF TypeOK, LeftWithItsLocks, FinishUnchanged, CheckStep, MatFind, MatLock, MatCheck,
        MatDuplicate, MovLock, MovRec, ExcLock, ExcCheck, CanLock, CanFind, CanRec, TerRec,
        DelLock, Goto, LockMeeting, LockRecurrence, locks
  <1>3. CASE ScanStep(w) /\ ~Finish(w)
    BY <1>0, <1>3, WorkerAssumption
    DEF TypeOK, LeftWithItsLocks, FinishUnchanged, ScanStep, TerSelect, TerLock, TerRequery,
        TerRetry, DelRec, DelMeeting, Goto, LockMeeting, LockRecurrence, ReleaseLocks, locks
  <1>4. MatInsert(w) \/ MovSave(w) \/ ExcInsert(w) \/ CanSave(w) \/ TerSave(w) \/ DelSave(w)
          => Finish(w)
    BY DEF MatInsert, MovSave, ExcInsert, CanSave, TerSave, DelSave, FinishUnchanged
  <1> QED BY <1>1, <1>2, <1>3, <1>4 DEF Step, CheckStep, ScanStep

\* The handler that steps is where its locks are held.
LEMMA OwnsStep ==
  ASSUME IInv, KeysInv, NEW w \in Worker, Owns(w), Step(w)
  PROVE  Owns(w)'
  <1>0. TypeOK
    BY DEF IInv, TypeInv
  <1>1. CASE Finish(w)
    BY <1>1, FinishOwns
  <1>2. CASE CheckStep(w) /\ ~Finish(w)
    <2> USE DEF CheckStep, MatFind, MatLock, MatCheck, MatDuplicate, MovLock, MovRec, ExcLock,
                ExcCheck, CanLock, CanFind, CanRec, TerRec, DelLock, Goto, At, LockMeeting,
                LockRecurrence, locks, FinishUnchanged
    <2>1. pc'[w] # "ter_lock" /\ req' = req
      BY <1>0, <1>2 DEF TypeOK
    <2>2. recLock' = w => pc'[w] \in HoldsRecurrence \cup {"can_save"}
      BY <1>0, <1>2, WorkerAssumption DEF TypeOK, Owns, HoldsRecurrence
    <2>3. seriesLock' = w => pc'[w] \in {"del_rec", "del_meetings"}
      BY <1>0, <1>2 DEF TypeOK, Owns
    <2>4. ASSUME NEW o \in Occurrence, meetingLock'[o] = w
          PROVE  pc'[w] \in HoldsMeeting \cup {"ter_lock", "ter_requery", "ter_save", "del_meetings"}
      BY <1>0, <1>2, <2>4 DEF TypeOK, Owns, HoldsMeeting
    <2>5. pc'[w] \in {"del_lock", "del_rec", "del_meetings"} => req'[w].op = "delete_template"
      BY <1>0, <1>2 DEF TypeOK, Owns
    <2> QED BY <2>1, <2>2, <2>3, <2>4, <2>5 DEF Owns
  <1>3. CASE TerSelect(w)
    <2>1. /\ pc[w] = "ter_select" /\ pc'[w] = "ter_lock"
          /\ scan'[w].todo = UpcomingFrom(req[w].at)
          /\ UNCHANGED <<db, now, locks, req>>
      BY <1>0, <1>3 DEF TypeOK, TerSelect, Goto, At, Scans
    <2>2. recLock # w /\ seriesLock # w /\ \A o \in Occurrence : meetingLock[o] # w
      BY <2>1 DEF Owns, HoldsRecurrence, HoldsMeeting
    <2>3. InKeyOrder(w)'
      BY <2>1, <2>2 DEF InKeyOrder, UpcomingFrom, db, locks
    <2> QED BY <2>1, <2>2, <2>3 DEF Owns, locks
  <1>4. CASE TerLock(w)
    <2> DEFINE x == NextByPk(scan[w].todo)
               todo == scan[w].todo
    <2>1. /\ pc[w] = "ter_lock" /\ todo # {} /\ LockMeeting(w, x)
          /\ scan' = [scan EXCEPT ![w].todo = @ \ {x},
                                  ![w].cand = @ \cup ({x} \cap UpcomingFrom(req[w].at))]
          /\ UNCHANGED <<db, now, recLock, seriesLock, pc, req>>
      BY <1>4 DEF TerLock, At
    <2>2. todo \in SUBSET Occurrence
      BY <1>0 DEF TypeOK, Scans
    <2>3. x \in todo /\ \A p \in todo : pk[x] <= pk[p]
      BY <2>1, <2>2, NextByPkIs
    <2>4. scan'[w].todo = todo \ {x}
      <3> HIDE DEF x
      <3> QED BY <1>0, <2>1 DEF TypeOK, Scans
    <2> HIDE DEF x, todo
    <2>5. InKeyOrder(w)
      BY <2>1 DEF Owns
    <2>6. (\A o \in todo : status[o] # "virtual") /\ pk \in [Occurrence -> Nat]
      BY <1>0, <2>5 DEF InKeyOrder, todo, TypeOK
    <2>7. \A p \in todo \ {x} : pk[x] < pk[p]
      <3>1. ASSUME NEW p \in todo \ {x}
            PROVE  pk[p] # pk[x]
        BY <2>2, <2>3, <2>6 DEF KeysInv
      <3> QED BY <2>2, <2>3, <2>6, <3>1
    <2>8. meetingLock' = [meetingLock EXCEPT ![x] = w]
      BY <2>1 DEF LockMeeting
    <2>9. ASSUME NEW o \in Occurrence, meetingLock'[o] = w
          PROVE  status[o] # "virtual" /\ \A p \in todo \ {x} : pk[o] < pk[p]
      <3>1. CASE o = x
        BY <2>3, <2>6, <2>7, <3>1
      <3>2. CASE o # x
        <4>1. meetingLock[o] = w
          BY <1>0, <2>8, <2>9, <3>2 DEF TypeOK
        <4> QED BY <2>5, <4>1 DEF InKeyOrder, todo
      <3> QED BY <3>1, <3>2
    <2>10. InKeyOrder(w)'
      BY <2>1, <2>4, <2>6, <2>9 DEF InKeyOrder, db
    <2> QED BY <2>1, <2>10 DEF Owns, HoldsRecurrence
  <1>5. CASE (TerRequery(w) \/ TerRetry(w) \/ DelRec(w) \/ DelMeeting(w)) /\ ~Finish(w)
    <2> USE DEF TerRequery, TerRetry, DelRec, DelMeeting, FinishUnchanged, Goto, At, LockMeeting,
                LockRecurrence, ReleaseLocks, locks
    <2>1. pc'[w] # "ter_lock" /\ req' = req
      BY <1>0, <1>5 DEF TypeOK
    <2>2. recLock' = w => pc'[w] \in HoldsRecurrence \cup {"can_save"}
      BY <1>0, <1>5, WorkerAssumption DEF TypeOK, Owns, HoldsRecurrence
    <2>3. seriesLock' = w => pc'[w] \in {"del_rec", "del_meetings"}
      BY <1>0, <1>5, WorkerAssumption DEF TypeOK, Owns
    <2>4. ASSUME NEW o \in Occurrence, meetingLock'[o] = w
          PROVE  pc'[w] \in HoldsMeeting \cup {"ter_lock", "ter_requery", "ter_save", "del_meetings"}
      BY <1>0, <1>5, <2>4, WorkerAssumption DEF TypeOK, Owns, HoldsMeeting
    <2>5. pc'[w] \in {"del_lock", "del_rec", "del_meetings"} => req'[w].op = "delete_template"
      BY <1>0, <1>5 DEF TypeOK, Owns
    <2> QED BY <2>1, <2>2, <2>3, <2>4, <2>5 DEF Owns
  <1>6. MatInsert(w) \/ MovSave(w) \/ ExcInsert(w) \/ CanSave(w) \/ TerSave(w) \/ DelSave(w)
          => Finish(w)
    BY DEF MatInsert, MovSave, ExcInsert, CanSave, TerSave, DelSave, FinishUnchanged
  <1> QED BY <1>1, <1>2, <1>3, <1>4, <1>5, <1>6 DEF Step, CheckStep

\* A request begins without a lock.
LEMMA BeginOwns ==
  ASSUME IInv, NEW w \in Worker, Owns(w), BeginRequest(w)
  PROVE  /\ Owns(w)' /\ UNCHANGED db
         /\ \A u \in Worker \ {w} : LeftWithItsLocks(u)
  <1>0. TypeOK
    BY DEF IInv, TypeInv
  <1> DEFINE Begun(op, label) ==
        /\ \E o \in Occurrence \cup {NoTime}, t \in Time \cup {NoTime} : Begin(w, op, o, t, label)
        /\ label # "ter_lock"
        /\ label \in {"del_lock", "del_rec", "del_meetings"} => op = "delete_template"
  <1>1. PICK op \in OperationNames, label \in Labels : Begun(op, label)
    <2>1. ASSUME NEW o \in Occurrence, BeginMaterialize(w, o)
          PROVE  Begun("materialize", "mat_find")
      BY <2>1 DEF BeginMaterialize
    <2>2. ASSUME NEW o \in Occurrence, BeginExclude(w, o)
          PROVE  Begun("exclude", "exc_lock")
      BY <2>2 DEF BeginExclude
    <2>3. ASSUME NEW o \in Occurrence, BeginCancel(w, o)
          PROVE  Begun("cancel", "can_lock")
      BY <2>3 DEF BeginCancel
    <2>4. ASSUME NEW o \in Occurrence, NEW t \in Time, BeginReschedule(w, o, t)
          PROVE  Begun("reschedule", "mat_find") \/ Begun("reschedule", "mov_lock")
      BY <2>4 DEF BeginReschedule
    <2>5. ASSUME NEW o \in Occurrence, NEW t \in Time, BeginEdit(w, o, t)
          PROVE  Begun("edit", "mov_lock")
      BY <2>5 DEF BeginEdit
    <2>6. BeginTerminate(w) => Begun("terminate", "ter_select")
      BY <1>0 DEF BeginTerminate, TypeOK
    <2>7. BeginDeleteTemplate(w) => Begun("delete_template", "del_lock")
      BY DEF BeginDeleteTemplate
    <2> HIDE DEF Begun
    <2> QED BY <2>1, <2>2, <2>3, <2>4, <2>5, <2>6, <2>7 DEF BeginRequest, OperationNames, Labels
  <1>2. /\ pc[w] = "idle" /\ pc'[w] = label /\ req'[w].op = op
        /\ UNCHANGED <<db, now, locks, scan>>
    BY <1>0, <1>1 DEF TypeOK, Begin, Goto, At
  <1>3. recLock # w /\ seriesLock # w /\ \A x \in Occurrence : meetingLock[x] # w
    BY <1>2 DEF Owns, HoldsRecurrence, HoldsMeeting
  <1>4. Owns(w)'
    BY <1>1, <1>2, <1>3 DEF Owns, locks
  <1>5. \A u \in Worker \ {w} : LeftWithItsLocks(u)
    BY <1>0, <1>1 DEF TypeOK, Begin, Goto, LeftWithItsLocks, locks
  <1> QED BY <1>2, <1>4, <1>5

LEMMA NextOrderInv == IInv /\ OrderInv /\ [Next]_vars => OrderInv'
  <1> SUFFICES ASSUME IInv, OrderInv, [Next]_vars PROVE OrderInv'
    OBVIOUS
  <1>0. KeysInv /\ (\A u \in Worker : Owns(u)) /\ TypeOK
    BY DEF OrderInv, IInv, TypeInv
  <1>1. ASSUME NEW w \in Worker, BeginRequest(w) \/ Step(w) \/ Crash(w)
        PROVE  OrderInv'
    <2>1. KeysInv' /\ RowsStay
      <3>1. BeginRequest(w) \/ Crash(w) => UNCHANGED db
        BY <1>0, BeginOwns DEF Crash, FinishUnchanged
      <3> QED BY <1>0, <1>1, <3>1, KeysUnchanged, RowsStep
    <2>2. Owns(w)'
      BY <1>0, <1>1, BeginOwns, OwnsStep, FinishOwns DEF Crash, FinishUnchanged
    <2>3. \A u \in Worker \ {w} : LeftWithItsLocks(u)
      BY <1>0, <1>1, BeginOwns, LocksStep, FinishOwns DEF Crash, FinishUnchanged
    <2>4. \A u \in Worker \ {w} : Owns(u)'
      BY <1>0, <2>1, <2>3, OthersOwn
    <2> QED BY <2>1, <2>2, <2>4 DEF OrderInv
  <1>2. ASSUME KeysInv' /\ RowsStay, UNCHANGED <<locks, pc, req, scan>>
        PROVE  OrderInv'
    <2>1. \A u \in Worker : LeftWithItsLocks(u)
      BY <1>2 DEF LeftWithItsLocks, locks
    <2> QED BY <1>0, <1>2, <2>1, OthersOwn DEF OrderInv
  <1>3. ASSUME NEW o \in Occurrence, StartMeeting(o) \/ EndMeeting(o) \/ ReopenMeeting(o)
        PROVE  OrderInv'
    <2>1. PICK from, to \in {"upcoming", "live", "completed"} : Lifecycle(o, from, to)
      BY <1>3 DEF StartMeeting, EndMeeting, ReopenMeeting
    <2>2. UNCHANGED <<pk, lastPk>> /\ \A p \in Occurrence : status'[p] = "virtual" <=> status[p] = "virtual"
      BY <1>0, <2>1 DEF Lifecycle, TypeOK
    <2>3. KeysInv' /\ RowsStay
      BY <1>0, <2>2 DEF KeysInv, RowsStay
    <2> QED BY <1>2, <2>1, <2>3 DEF Lifecycle
  <1>4. CASE Tick
    BY <1>0, <1>2, <1>4, KeysUnchanged DEF Tick
  <1>5. CASE UNCHANGED vars
    BY <1>0, <1>2, <1>5, KeysUnchanged DEF vars
  <1> QED BY <1>1, <1>3, <1>4, <1>5 DEF Next

\* Without the deletions of Templates, a handler that somebody waits for and
\* that waits for a waiting one itself is a termination behind another: the
\* Meeting it waits for has a higher key than the one it is waited for.
LEMMA WaitsForHigherKey ==
  ASSUME IInv, OrderInv, NEW w \in Worker, NEW v \in Worker, NEW u \in Worker,
         NEW x \in Worker, WaitsFor(w, v), WaitsFor(v, u), WaitsFor(u, x),
         \A y \in {w, v, u, x} : req[y].op # "delete_template"
  PROVE  /\ pc[v] = "ter_lock" /\ scan[v].todo # {}
         /\ pc[w] = "ter_lock" /\ scan[w].todo # {} =>
              pk[NextByPk(scan[w].todo)] < pk[NextByPk(scan[v].todo)]
  <1>0. TypeOK /\ \A y \in Worker : Owns(y) /\ Shaped(y) /\ scan[y].todo \in SUBSET Occurrence
    BY DEF IInv, TypeInv, TypeOK, OrderInv, Scans, HandlerInv
  <1>1. \A y \in {w, v, u, x} :
          seriesLock # y /\ pc[y] \notin {"del_lock", "del_rec", "del_meetings"}
    BY <1>0 DEF Owns
  <1>2. \A y, z \in {w, v, u, x} : WaitsFor(y, z) =>
          WaitsForMeeting(y, z) \/ WaitsForRecurrence(y, z)
    BY <1>1 DEF WaitsFor, WaitsForTemplate
  <1>3. \A y \in {v, u} : recLock # y
    <2>1. ASSUME NEW y \in {v, u}, NEW z \in {u, x}, WaitsFor(y, z)
          PROVE  pc[y] \in {"mov_lock", "can_lock", "ter_lock", "mat_lock", "mov_rec",
                            "exc_lock", "can_rec"}
      BY <1>1, <1>2, <2>1 DEF WaitsForMeeting, WaitsForRecurrence, At
    <2> QED BY <1>0, <2>1 DEF Owns, HoldsRecurrence
  <1>4. WaitsForMeeting(w, v) /\ WaitsForMeeting(v, u)
    BY <1>2, <1>3 DEF WaitsForRecurrence
  <1>5. PICK o \in Occurrence :
          /\ meetingLock[o] = v
          /\ pc[w] = "ter_lock" /\ scan[w].todo # {} => o = NextByPk(scan[w].todo)
    <2>1. CASE pc[w] \in {"mov_lock", "can_lock"} /\ meetingLock[req[w].occ] = v
      <3>1. req[w].occ \in Occurrence
        BY <1>0, <2>1 DEF Shaped, MovLabels, CanLabels
      <3> QED BY <2>1, <3>1
    <2>2. CASE pc[w] = "ter_lock" /\ scan[w].todo # {} /\ meetingLock[NextByPk(scan[w].todo)] = v
      <3>1. NextByPk(scan[w].todo) \in Occurrence
        BY <1>0, <2>2, NextByPkIs
      <3> QED BY <2>2, <3>1
    <2> QED BY <1>1, <1>4, <2>1, <2>2 DEF WaitsForMeeting, At
  <1>6. pc[v] \in HoldsMeeting \cup {"ter_lock", "ter_requery", "ter_save", "del_meetings"}
    BY <1>0, <1>5 DEF Owns
  <1>7. pc[v] = "ter_lock" /\ scan[v].todo # {}
    BY <1>1, <1>4, <1>6 DEF WaitsForMeeting, At, HoldsMeeting
  <1>8. pk[o] < pk[NextByPk(scan[v].todo)]
    <2>1. NextByPk(scan[v].todo) \in scan[v].todo
      BY <1>0, <1>7, NextByPkIs
    <2> QED BY <1>0, <1>5, <1>7, <2>1 DEF Owns, InKeyOrder
  <1> QED BY <1>5, <1>7, <1>8

LEMMA InitOrderInv == Init => OrderInv
  BY WorkerAssumption DEF Init, OrderInv, KeysInv, Owns

LEMMA OrderInvariance == Spec => [](IInv /\ OrderInv)
  BY InitIInv, NextIInv, InitOrderInv, NextOrderInv, PTL DEF Spec

\* However the handlers of the recurrence operations interleave, no set of
\* them waits only for one another.  Suppose one did.  Every member somebody
\* waits for is a termination inside its SELECT ... FOR UPDATE; the one that
\* waits for the Meeting with the greatest key waits for a termination that
\* waits for a greater one.
THEOREM DeadlockFree == Spec => []NoDeadlock
  <1>1. ASSUME IInv, OrderInv
        PROVE  NoDeadlock
    <2> SUFFICES ASSUME NEW S \in SUBSET {w \in Worker : req[w].op # "delete_template"},
                        S # {}, \A w \in S : \E v \in S : WaitsFor(w, v)
                 PROVE  FALSE
      BY DEF NoDeadlock
    <2>1. \A w \in S : w \in Worker /\ req[w].op # "delete_template"
      OBVIOUS
    <2>2. ASSUME NEW w \in S, NEW v \in S, WaitsFor(w, v)
          PROVE  /\ pc[v] = "ter_lock" /\ scan[v].todo # {}
                 /\ pc[w] = "ter_lock" /\ scan[w].todo # {} =>
                      pk[NextByPk(scan[w].todo)] < pk[NextByPk(scan[v].todo)]
      <3>1. PICK u \in S : WaitsFor(v, u)
        OBVIOUS
      <3>2. PICK x \in S : WaitsFor(u, x)
        OBVIOUS
      <3> QED BY <1>1, <2>1, <2>2, <3>1, <3>2, WaitsForHigherKey
    <2> DEFINE Terminations == {w \in S : pc[w] = "ter_lock" /\ scan[w].todo # {}}
               Awaited(w) == pk[NextByPk(scan[w].todo)]
               Room == {lastPk - Awaited(w) : w \in Terminations}
    <2>3. \A w \in Terminations : Awaited(w) \in Nat /\ Awaited(w) <= lastPk /\ lastPk \in Nat
      <3>1. ASSUME NEW w \in Terminations
            PROVE  NextByPk(scan[w].todo) \in Occurrence
        BY <1>1, <2>1, NextByPkIs DEF IInv, TypeInv, TypeOK, Scans
      <3> QED BY <1>1, <3>1 DEF IInv, TypeInv, TypeOK, OrderInv, KeysInv
    <2> HIDE DEF Awaited
    <2>4. Room \in SUBSET Nat
      BY <2>3
    <2>5. Room # {}
      BY <2>2
    <2>6. PICK v \in Terminations :
                 \A w \in Terminations : lastPk - Awaited(v) <= lastPk - Awaited(w)
      <3>1. PICK r \in Room : \A k \in Room : r <= k
        <4> HIDE DEF Room
        <4> QED BY <2>4, <2>5, LeastNumber
      <3> QED BY <3>1
    <2>7. PICK u \in S : WaitsFor(v, u)
      OBVIOUS
    <2>8. u \in Terminations /\ Awaited(v) < Awaited(u)
      BY <2>2, <2>7 DEF Awaited
    <2> QED BY <2>3, <2>6, <2>8
  <1> QED BY <1>1, OrderInvariance, PTL
=============================================================================
