---------------------------- MODULE LiveMeeting -----------------------------
(***************************************************************************)
(* Agenda items of Meetings: the current item, the items' outcomes, their  *)
(* text, notes and work links, and follow-ups from one Meeting into        *)
(* another (meetings/services.py).                                         *)
(*                                                                         *)
(* An operation that takes the lock of one Meeting row first and reads     *)
(* everything afterwards is one step, enabled while that lock is free:     *)
(* whatever it reads and writes changes only under that lock.  The others  *)
(* run as handlers, step by step: those that take several row locks, and   *)
(* those that read without a lock and write later.  A commit checks the    *)
(* (deferred) foreign keys of the rows it inserted, which waits for a lock *)
(* FOR UPDATE on the referenced row.                                       *)
(*                                                                         *)
(* Every Meeting has the same visible Sections, numbered by position.      *)
(* Permissions are taken as granted, except the write access to the target *)
(* of a follow-up, which its cancellation does not need.                   *)
(***************************************************************************)
EXTENDS Integers, FiniteSets

CONSTANTS
  Worker,      \* concurrent request handlers
  Operations,  \* the operations requests may ask for
  Meeting,     \* primary keys of Meetings
  Item,        \* primary keys of MeetingItems: 1, 2, ... in order of creation
  Section,     \* positions of a Meeting's Sections
  Title,       \* item titles
  Notes,       \* texts the legacy notes field may hold
  NoNotes,     \* the empty one of them
  Markdown,    \* bodies of a content write no legacy notes could yield
  None,        \* a NULL reference, an omitted field
  Nobody       \* the holder of a free row lock

OperationNames ==
  {"add", "schedule", "cancel", "delete_meeting", "note", "unnote", "edit",
   "focus", "done", "follow_up", "reopen_item", "delete_item", "link",
   "start", "end", "reopen", "cancel_meeting"}

ASSUME KeysAssumption ==
  /\ Meeting \subseteq Nat /\ Section \subseteq Nat
  /\ IsFiniteSet(Item) /\ Item = 1..Cardinality(Item)
ASSUME NullAssumption == None \notin Meeting \cup Item /\ Nobody \notin Worker
ASSUME WorkerAssumption == IsFiniteSet(Worker)
ASSUME TextAssumption == NoNotes \in Notes /\ Notes \cap Markdown = {}
ASSUME OperationsAssumption == Operations \subseteq OperationNames

VARIABLES
  meetingStatus,  \* Meeting.status, "deleted" once the row is gone
  current,        \* Meeting.current_meeting_item
  home,           \* MeetingItem.meeting, None without a row
  section,        \* position of the item's Section
  outcome,        \* MeetingItem.outcome
  text,           \* MeetingItem.title, notes and content
  noted,          \* the items with a MeetingNote
  linked,         \* the items with a MeetingItemWorkItem
  followUps,      \* the MeetingItemFollowUp rows
  lastItem,       \* last MeetingItem primary key given out
  meetingLock,    \* holder of each Meeting row lock (FOR UPDATE)
  sectionLock,    \* holder of each Section row lock (FOR UPDATE)
  pc,             \* where each handler is
  req             \* what each handler was asked for, and what it has read

items == <<home, section, outcome, text, lastItem>>
db == <<meetingStatus, current, items, noted, linked, followUps>>
locks == <<meetingLock, sectionLock>>
vars == <<db, locks, pc, req>>

\* meeting_item_content_from_legacy: the title, then the notes.
LegacyContent(title, notes) == <<title, notes>>

NoText == [title |-> None, notes |-> None, content |-> None]

EmptyText == [NoText EXCEPT !.notes = NoNotes]

NoRequest ==
  [op |-> "none", item |-> None, source |-> None, target |-> None,
   section |-> None, new |-> NoText, copy |-> NoText]

Init ==
  /\ meetingStatus = [m \in Meeting |-> "upcoming"]
  /\ current = [m \in Meeting |-> None]
  /\ home = [i \in Item |-> None]
  /\ section = [i \in Item |-> None]
  /\ outcome = [i \in Item |-> "not_discussed"]
  /\ text = [i \in Item |-> NoText]
  /\ noted = {}
  /\ linked = {}
  /\ followUps = {}
  /\ lastItem = 0
  /\ meetingLock = [m \in Meeting |-> Nobody]
  /\ sectionLock = [p \in Meeting \X Section |-> Nobody]
  /\ pc = [w \in Worker |-> "idle"]
  /\ req = [w \in Worker |-> NoRequest]

-----------------------------------------------------------------------------
(* Shared state functions *)

ItemsOf(m) == {i \in Item : home[i] = m}

\* Canonical agenda order: Section position, then item position, which
\* grows with the primary key inside a Section.
Before(i, j) ==
  section[i] < section[j] \/ (section[i] = section[j] /\ i < j)

First(S) == CHOOSE i \in S : \A j \in S \ {i} : Before(i, j)

FirstOrNone(S) == IF S = {} THEN None ELSE First(S)

Open(m) == {i \in ItemsOf(m) : outcome[i] = "not_discussed"}

\* Faulty variant: the search starts at the top of the agenda.
NextOpenFromTop(m, i, wrap) == FirstOrNone(Open(m) \ {i})

\* _advance_current_to_next_not_discussed: the next open item after i; only
\* the direct follow-up action wraps to the ones before it.
NextOpen(m, i, wrap) ==
  LET later == {j \in Open(m) : Before(i, j)}
      earlier == {j \in Open(m) : Before(j, i)}
  IN  IF later = {} /\ wrap THEN FirstOrNone(earlier) ELSE FirstOrNone(later)

\* Where current goes when i gets the outcome "done" or "follow_up".
Advance(m, i, wrap) ==
  IF current[m] = i THEN NextOpen(m, i, wrap) ELSE current[m]

Given(field, default) == IF field = None THEN default ELSE field

\* A row after the write new.  A content write sets all three columns.  A
\* legacy write sets the columns it was given, and the content derived from
\* them and the writer's copy of the row.
Written(new, row, copy) ==
  IF new.content # None
  THEN [title |-> new.content[1], notes |-> NoNotes, content |-> new.content]
  ELSE [title |-> Given(new.title, row.title),
        notes |-> Given(new.notes, row.notes),
        content |-> LegacyContent(Given(new.title, copy.title),
                                  Given(new.notes, copy.notes))]

ContentAuthored(t) == t.content # LegacyContent(t.title, t.notes)

\* What scheduling copies into the target item: the whole content of a
\* content-authored source, the title alone of another.
CopyForTarget(t) ==
  [title |-> t.title, notes |-> NoNotes,
   content |-> IF ContentAuthored(t) THEN t.content
                                     ELSE LegacyContent(t.title, NoNotes)]

ActiveFrom(i) == {f \in followUps : f.source = i /\ f.status = "scheduled"}

\* A schedule holds the lock of its source item from its Meeting locks on.
ItemLocked(i) ==
  \E w \in Worker : pc[w] \in {"sch_section", "sch_commit"} /\ req[w].item = i

Free(m) == meetingLock[m] = Nobody

At(w, label) == pc[w] = label

Goto(w, label) == pc' = [pc EXCEPT ![w] = label]

ReleaseLocks(w) ==
  /\ meetingLock' = [m \in Meeting |->
                       IF meetingLock[m] = w THEN Nobody ELSE meetingLock[m]]
  /\ sectionLock' = [p \in Meeting \X Section |->
                       IF sectionLock[p] = w THEN Nobody ELSE sectionLock[p]]

Finish(w) ==
  /\ Goto(w, "idle")
  /\ req' = [req EXCEPT ![w] = NoRequest]
  /\ ReleaseLocks(w)

\* A domain error, an idempotent answer, a failed commit, a lost connection.
FinishUnchanged(w) == Finish(w) /\ UNCHANGED db

Begin(w, label, r) ==
  /\ At(w, "idle")
  /\ r.op \in Operations
  /\ Goto(w, label)
  /\ req' = [req EXCEPT ![w] = r]
  /\ UNCHANGED <<db, locks>>

\* Rows that disappear take their notes and links along.
RemoveItems(S) ==
  /\ home' = [i \in Item |-> IF i \in S THEN None ELSE home[i]]
  /\ section' = [i \in Item |-> IF i \in S THEN None ELSE section[i]]
  /\ text' = [i \in Item |-> IF i \in S THEN NoText ELSE text[i]]
  /\ noted' = noted \ S
  /\ linked' = linked \ S
  /\ lastItem' = lastItem

\* Item number lastItem + 1 appears at the end of Section s of m.
InsertItem(m, s, t) ==
  LET n == lastItem + 1 IN
  /\ n \in Item
  /\ home' = [home EXCEPT ![n] = m]
  /\ section' = [section EXCEPT ![n] = s]
  /\ text' = [text EXCEPT ![n] = t]
  /\ lastItem' = n

-----------------------------------------------------------------------------
(* create_meeting_item: the Section row is locked, the Meeting row is not;  *)
(* the commit's foreign key check waits for whoever has that one.           *)

BeginAdd(w, m, s, new) ==
  /\ meetingStatus[m] # "deleted"
  /\ new.title # None \/ new.content # None
  /\ Begin(w, "add_lock",
           [NoRequest EXCEPT !.op = "add", !.target = m, !.section = s,
                             !.copy = Written(new, EmptyText, EmptyText)])

AddLock(w) ==
  LET p == <<req[w].target, req[w].section>> IN
  /\ At(w, "add_lock")
  /\ sectionLock[p] = Nobody
  /\ \/ meetingStatus[req[w].target] = "deleted" /\ FinishUnchanged(w)
     \/ /\ meetingStatus[req[w].target] # "deleted"
        /\ sectionLock' = [sectionLock EXCEPT ![p] = w]
        /\ Goto(w, "add_commit")
        /\ UNCHANGED <<db, meetingLock, req>>

AddCommit(w) ==
  LET r == req[w] IN
  /\ At(w, "add_commit")
  /\ Free(r.target)
  /\ InsertItem(r.target, r.section, r.copy)
  /\ Finish(w)
  /\ UNCHANGED <<meetingStatus, current, outcome, noted, linked, followUps>>

-----------------------------------------------------------------------------
(* Both Meeting rows of a follow-up, in primary key order. *)

Keys(w) == {req[w].source, req[w].target}

\* Faulty variant: the source Meeting first, whatever its key.
FirstKeySource(w) == req[w].source

FirstKey(w) == CHOOSE m \in Keys(w) : \A n \in Keys(w) : m <= n

SecondKey(w) == CHOOSE m \in Keys(w) : m # FirstKey(w)

LockFirst(w) ==
  /\ At(w, "lock_first")
  /\ Free(FirstKey(w))
  /\ meetingLock' = [meetingLock EXCEPT ![FirstKey(w)] = w]
  /\ Goto(w, "lock_second")
  /\ UNCHANGED <<db, sectionLock, req>>

LockSecond(w) ==
  /\ At(w, "lock_second")
  /\ Free(SecondKey(w))
  /\ meetingLock' = [meetingLock EXCEPT ![SecondKey(w)] = w]
  /\ Goto(w, IF req[w].op = "schedule" THEN "sch_section" ELSE "can_commit")
  /\ UNCHANGED <<db, sectionLock, req>>

-----------------------------------------------------------------------------
(* schedule_meeting_item_follow_up *)

BeginSchedule(w, i, m, s) ==
  /\ home[i] \notin {None, m}
  /\ meetingStatus[m] # "deleted"
  /\ Begin(w, "lock_first",
           [NoRequest EXCEPT !.op = "schedule", !.item = i, !.source = home[i],
                             !.target = m, !.section = s])

\* Under both Meeting locks: the rows may be gone, the same schedule may be
\* there already (its answer), another one, or the target may have started.
ScheduleRefused(w) ==
  \/ home[req[w].item] = None
  \/ meetingStatus[req[w].target] # "upcoming"
  \/ ActiveFrom(req[w].item) # {}

SchSection(w) ==
  LET p == <<req[w].target, req[w].section>> IN
  /\ At(w, "sch_section")
  /\ \/ ScheduleRefused(w) /\ FinishUnchanged(w)
     \/ /\ ~ScheduleRefused(w)
        /\ sectionLock[p] = Nobody
        /\ sectionLock' = [sectionLock EXCEPT ![p] = w]
        /\ Goto(w, "sch_commit")
        /\ UNCHANGED <<db, meetingLock, req>>

\* The target item, the trace, the source's outcome, and its Meeting's
\* current item if that was the source.
SchCommit(w) ==
  LET r == req[w] IN
  /\ At(w, "sch_commit")
  /\ InsertItem(r.target, r.section, CopyForTarget(text[r.item]))
  /\ followUps' = followUps \cup
       {[source |-> r.item, target |-> r.target, item |-> lastItem + 1,
         status |-> "scheduled", kept |-> TRUE]}
  /\ outcome' = [outcome EXCEPT ![r.item] = "follow_up"]
  /\ current' = [current EXCEPT ![r.source] = Advance(r.source, r.item, FALSE)]
  /\ Finish(w)
  /\ UNCHANGED <<meetingStatus, noted, linked>>

-----------------------------------------------------------------------------
(* cancel_meeting_item_follow_up *)

\* The record is found by its key without a lock; the generated item is the
\* identity of the record here.
BeginCancel(w, f) ==
  /\ f \in followUps
  /\ Begin(w, "lock_first",
           [NoRequest EXCEPT !.op = "cancel", !.item = f.item,
                             !.source = home[f.source], !.target = f.target])

\* Faulty variant: a target that has started is reopened retroactively.
CancelRefusedUnlessDrifted(f) ==
  f.status = "cancelled" \/ outcome[f.source] # "follow_up"

\* Cancelled before, drifted away from "follow_up", or discussed by now.
CancelRefused(f) ==
  \/ f.status = "cancelled"
  \/ outcome[f.source] # "follow_up"
  \/ meetingStatus[f.target] # "upcoming"

\* Faulty variant: Work Items created from the target item go unnoticed.
UntouchedButLinked(f) ==
  /\ outcome[f.item] = "not_discussed"
  /\ text[f.item] = CopyForTarget(text[f.source])
  /\ f.item \notin noted

\* The target item is as the schedule created it.
Untouched(f) ==
  /\ outcome[f.item] = "not_discussed"
  /\ text[f.item] = CopyForTarget(text[f.source])
  /\ f.item \notin noted \cup linked

CancelledRecord(f, kept) == [f EXCEPT !.status = "cancelled", !.kept = kept]

\* canWrite: the actor may write the target Meeting, too.  The follow-up
\* records of an item that goes (cancelled ones) CASCADE.
CanCommit(w, canWrite) ==
  LET found == {f \in followUps : f.item = req[w].item} IN
  /\ At(w, "can_commit")
  /\ \/ (\A f \in found : CancelRefused(f)) /\ FinishUnchanged(w)
     \/ \E f \in found :
          LET gone == IF canWrite /\ Untouched(f) THEN {f.item} ELSE {} IN
          /\ ~CancelRefused(f)
          /\ followUps' = {g \in followUps \ {f} : g.source \notin gone}
                            \cup {CancelledRecord(f, gone = {})}
          /\ outcome' = [outcome EXCEPT ![f.source] = "not_discussed"]
          /\ RemoveItems(gone)
          /\ Finish(w)
          /\ UNCHANGED <<meetingStatus, current>>

-----------------------------------------------------------------------------
(* delete_meeting, of a Meeting that no recurrence produced *)

BeginDeleteMeeting(w, m) ==
  /\ meetingStatus[m] # "deleted"
  /\ Begin(w, "dm_lock",
           [NoRequest EXCEPT !.op = "delete_meeting", !.target = m])

DmLock(w) ==
  LET m == req[w].target IN
  /\ At(w, "dm_lock")
  /\ Free(m)
  /\ \/ meetingStatus[m] = "deleted" /\ FinishUnchanged(w)
     \/ /\ meetingStatus[m] # "deleted"
        /\ meetingLock' = [meetingLock EXCEPT ![m] = w]
        /\ Goto(w, "dm_commit")
        /\ UNCHANGED <<db, sectionLock, req>>

\* RESTRICT refuses the target of any follow-up, cancelled ones included;
\* Sections, items and the follow-ups from here CASCADE.
DmCommit(w) ==
  LET m == req[w].target IN
  /\ At(w, "dm_commit")
  /\ \/ (\E f \in followUps : f.target = m) /\ FinishUnchanged(w)
     \/ /\ \A f \in followUps : f.target # m
        /\ \A s \in Section : sectionLock[<<m, s>>] = Nobody
        /\ meetingStatus' = [meetingStatus EXCEPT ![m] = "deleted"]
        /\ current' = [current EXCEPT ![m] = None]
        /\ followUps' = {f \in followUps : home[f.source] # m}
        /\ outcome' = [i \in Item |-> IF home[i] = m THEN "not_discussed"
                                                     ELSE outcome[i]]
        /\ RemoveItems(ItemsOf(m))
        /\ Finish(w)

-----------------------------------------------------------------------------
(* Operations under the lock of one Meeting: one step each *)

\* start_meeting keeps a current item that is still there.
StartMeeting(m) ==
  /\ Free(m)
  /\ meetingStatus[m] = "upcoming"
  /\ meetingStatus' = [meetingStatus EXCEPT ![m] = "live"]
  /\ current' = [current EXCEPT ![m] =
                   IF @ \in ItemsOf(m) THEN @ ELSE FirstOrNone(Open(m))]
  /\ UNCHANGED <<items, noted, linked, followUps, locks, pc, req>>

\* Faulty variant: the pointer outlives the Meeting.
EndMeetingKeepingCurrent(m) ==
  /\ Free(m)
  /\ meetingStatus[m] = "live"
  /\ meetingStatus' = [meetingStatus EXCEPT ![m] = "completed"]
  /\ UNCHANGED <<current, items, noted, linked, followUps, locks, pc, req>>

EndMeeting(m) ==
  /\ Free(m)
  /\ meetingStatus[m] = "live"
  /\ meetingStatus' = [meetingStatus EXCEPT ![m] = "completed"]
  /\ current' = [current EXCEPT ![m] = None]
  /\ UNCHANGED <<items, noted, linked, followUps, locks, pc, req>>

ReopenMeeting(m) ==
  /\ Free(m)
  /\ meetingStatus[m] = "completed"
  /\ meetingStatus' = [meetingStatus EXCEPT ![m] = "live"]
  /\ current' = [current EXCEPT ![m] =
                   IF @ = None THEN FirstOrNone(Open(m)) ELSE @]
  /\ UNCHANGED <<items, noted, linked, followUps, locks, pc, req>>

\* The occurrence of a recurrence is cancelled or its series terminated.
CancelMeeting(m) ==
  /\ Free(m)
  /\ meetingStatus[m] = "upcoming"
  /\ meetingStatus' = [meetingStatus EXCEPT ![m] = "cancelled"]
  /\ UNCHANGED <<current, items, noted, linked, followUps, locks, pc, req>>

LiveItem(i) ==
  /\ home[i] # None
  /\ Free(home[i])
  /\ meetingStatus[home[i]] = "live"

\* focus_meeting_item: an item of any outcome becomes current.
Focus(i) ==
  /\ LiveItem(i)
  /\ current' = [current EXCEPT ![home[i]] = i]
  /\ UNCHANGED <<meetingStatus, items, noted, linked, followUps, locks, pc, req>>

\* Faulty variant: an ended Meeting's items can still be resolved.
ResolveAnyTime(i, result, wrap) ==
  /\ home[i] # None
  /\ Free(home[i])
  /\ outcome' = [outcome EXCEPT ![i] = result]
  /\ current' = [current EXCEPT ![home[i]] = Advance(home[i], i, wrap)]
  /\ UNCHANGED <<meetingStatus, home, section, text, lastItem, noted, linked,
                 followUps, locks, pc, req>>

\* _resolve_item_outcome
Resolve(i, result, wrap) ==
  /\ LiveItem(i)
  /\ outcome' = [outcome EXCEPT ![i] = result]
  /\ current' = [current EXCEPT ![home[i]] = Advance(home[i], i, wrap)]
  /\ UNCHANGED <<meetingStatus, home, section, text, lastItem, noted, linked,
                 followUps, locks, pc, req>>

MarkDone(i) == Resolve(i, "done", FALSE)
MarkFollowUp(i) == Resolve(i, "follow_up", TRUE)

ReopenItem(i) ==
  /\ LiveItem(i)
  /\ outcome[i] = "done"
  /\ outcome' = [outcome EXCEPT ![i] = "not_discussed"]
  /\ UNCHANGED <<meetingStatus, current, home, section, text, lastItem, noted,
                 linked, followUps, locks, pc, req>>

\* Faulty variant: follow-up records do not count as references.
DeletableUntraced(i) ==
  /\ meetingStatus[home[i]] = "upcoming"
  /\ current[home[i]] # i
  /\ outcome[i] = "not_discussed"
  /\ i \notin noted \cup linked

Deletable(i) ==
  /\ meetingStatus[home[i]] = "upcoming"
  /\ current[home[i]] # i
  /\ outcome[i] = "not_discussed"
  /\ i \notin noted \cup linked
  /\ \A f \in followUps : f.source # i /\ (f.item = i => ~f.kept)

\* delete_meeting_item: the Meeting row, then the item row.
DeleteItem(i) ==
  /\ home[i] # None
  /\ Free(home[i])
  /\ Deletable(i)
  /\ RemoveItems({i})
  /\ UNCHANGED <<meetingStatus, current, outcome, followUps, locks, pc, req>>

-----------------------------------------------------------------------------
(* Operations that lock nothing: read, then write *)

\* create_work_item_from_meeting_item: the link of a Work Item, in a Meeting
\* of any status; its commit needs the item row.
LinkWorkItem(i) ==
  /\ home[i] # None
  /\ ~ItemLocked(i)
  /\ linked' = linked \cup {i}
  /\ UNCHANGED <<meetingStatus, current, items, noted, followUps, locks, pc, req>>

\* create_meeting_note, delete_meeting_note: the Meeting is read as live ...
BeginNote(w, i, op) ==
  /\ home[i] # None
  /\ meetingStatus[home[i]] = "live"
  /\ op = "unnote" => i \in noted
  /\ Begin(w, "note_save", [NoRequest EXCEPT !.op = op, !.item = i])

\* ... and the note is written whatever it is by now.
NoteSave(w) ==
  LET i == req[w].item IN
  /\ At(w, "note_save")
  /\ ~ItemLocked(i)
  /\ \/ home[i] = None /\ FinishUnchanged(w)
     \/ /\ home[i] # None
        /\ noted' = IF req[w].op = "note" THEN noted \cup {i} ELSE noted \ {i}
        /\ Finish(w)
        /\ UNCHANGED <<meetingStatus, current, items, linked, followUps>>

\* update_meeting_item works on the row the view has read.
BeginEdit(w, i, new) ==
  /\ home[i] # None
  /\ new.content = None => ~ContentAuthored(text[i])
  /\ Begin(w, "edit_save",
           [NoRequest EXCEPT !.op = "edit", !.item = i, !.new = new,
                             !.copy = IF new.content = None THEN text[i]
                                                            ELSE NoText])

EditSave(w) ==
  LET i == req[w].item IN
  /\ At(w, "edit_save")
  /\ ~ItemLocked(i)
  /\ \/ home[i] = None /\ FinishUnchanged(w)
     \/ /\ home[i] # None
        /\ text' = [text EXCEPT ![i] = Written(req[w].new, text[i], req[w].copy)]
        /\ Finish(w)
        /\ UNCHANGED <<meetingStatus, current, home, section, outcome, lastItem,
                       noted, linked, followUps>>

Crash(w) == pc[w] # "idle" /\ FinishUnchanged(w)

-----------------------------------------------------------------------------
LegacyWrites ==
  {t \in [title : Title \cup {None}, notes : Notes \cup {None},
          content : {None}] : t # NoText}

ContentWrites ==
  [title : {None}, notes : {None}, content : Title \X (Notes \cup Markdown)]

BeginRequest(w) ==
  \/ \E m \in Meeting, s \in Section, t \in LegacyWrites \cup ContentWrites :
       BeginAdd(w, m, s, t)
  \/ \E i \in Item, m \in Meeting, s \in Section : BeginSchedule(w, i, m, s)
  \/ \E f \in followUps : BeginCancel(w, f)
  \/ \E m \in Meeting : BeginDeleteMeeting(w, m)
  \/ \E i \in Item, op \in {"note", "unnote"} : BeginNote(w, i, op)
  \/ \E i \in Item, t \in LegacyWrites \cup ContentWrites : BeginEdit(w, i, t)

Step(w) ==
  \/ AddLock(w) \/ AddCommit(w)
  \/ LockFirst(w) \/ LockSecond(w) \/ SchSection(w) \/ SchCommit(w)
  \/ \E canWrite \in BOOLEAN : CanCommit(w, canWrite)
  \/ DmLock(w) \/ DmCommit(w)
  \/ NoteSave(w) \/ EditSave(w)

MeetingAction(m) ==
  \/ "start" \in Operations /\ StartMeeting(m)
  \/ "end" \in Operations /\ EndMeeting(m)
  \/ "reopen" \in Operations /\ ReopenMeeting(m)
  \/ "cancel_meeting" \in Operations /\ CancelMeeting(m)

ItemAction(i) ==
  \/ "focus" \in Operations /\ Focus(i)
  \/ "done" \in Operations /\ MarkDone(i)
  \/ "follow_up" \in Operations /\ MarkFollowUp(i)
  \/ "reopen_item" \in Operations /\ ReopenItem(i)
  \/ "delete_item" \in Operations /\ DeleteItem(i)
  \/ "link" \in Operations /\ LinkWorkItem(i)

Next ==
  \/ \E w \in Worker : BeginRequest(w) \/ Step(w) \/ Crash(w)
  \/ \E m \in Meeting : MeetingAction(m)
  \/ \E i \in Item : ItemAction(i)

Spec == Init /\ [][Next]_vars

-----------------------------------------------------------------------------
(* Properties *)

Labels ==
  {"idle", "add_lock", "add_commit", "lock_first", "lock_second",
   "sch_section", "sch_commit", "can_commit", "dm_lock", "dm_commit",
   "note_save", "edit_save"}

Texts ==
  [title : Title \cup {None}, notes : Notes \cup {None},
   content : (Title \X (Notes \cup Markdown)) \cup {None}]

FollowUpRows ==
  [source : Item, target : Meeting, item : Item,
   status : {"scheduled", "cancelled"}, kept : BOOLEAN]

\* The variables hold what the columns, locks and handlers can hold; no
\* operation produces the status needs_reschedule of a follow-up yet.
TypeOK ==
  /\ meetingStatus \in
       [Meeting -> {"upcoming", "live", "completed", "cancelled", "deleted"}]
  /\ current \in [Meeting -> Item \cup {None}]
  /\ home \in [Item -> Meeting \cup {None}]
  /\ section \in [Item -> Section \cup {None}]
  /\ outcome \in [Item -> {"not_discussed", "done", "follow_up"}]
  /\ text \in [Item -> Texts]
  /\ noted \subseteq Item
  /\ linked \subseteq Item
  /\ followUps \subseteq FollowUpRows
  /\ lastItem \in Item \cup {0}
  /\ meetingLock \in [Meeting -> Worker \cup {Nobody}]
  /\ sectionLock \in [Meeting \X Section -> Worker \cup {Nobody}]
  /\ pc \in [Worker -> Labels]

\* The current item is an item on the agenda of its own Meeting, and only a
\* live Meeting has one, whatever is deleted, resolved or ended meanwhile
\* (focus, end, delete_meeting_item, cancel_meeting_item_follow_up).
PointerOnLiveAgenda ==
  \A m \in Meeting :
    current[m] # None => meetingStatus[m] = "live" /\ home[current[m]] = m

\* A scheduled follow-up has its generated item on the agenda of its target
\* and its source on another one; a source has at most one of them.  The
\* check and unique constraints of the table never have to refuse a write.
ActiveFollowUpBacked ==
  /\ TypeOK
  /\ \A f \in followUps :
       f.status = "scheduled" =>
         /\ f.kept
         /\ home[f.item] = f.target
         /\ home[f.source] \notin {None, f.target}
         /\ ActiveFrom(f.source) = {f}

\* w's next statement waits for a row lock of v.
WaitsFor(w, v) ==
  /\ v # w
  /\ \/ At(w, "lock_first") /\ meetingLock[FirstKey(w)] = v
     \/ At(w, "lock_second") /\ meetingLock[SecondKey(w)] = v
     \/ At(w, "dm_lock") /\ meetingLock[req[w].target] = v
     \/ At(w, "add_commit") /\ meetingLock[req[w].target] = v
     \/ /\ pc[w] \in {"sch_section", "add_lock"}
        /\ sectionLock[<<req[w].target, req[w].section>>] = v
     \/ /\ At(w, "dm_commit")
        /\ \E s \in Section : sectionLock[<<req[w].target, s>>] = v

\* Schedules, cancellations and deletions never wait in a circle among
\* themselves: Meetings in primary key order, then a Section.  (The creation
\* of an item takes its Section first and its Meeting at commit; a circle
\* with one of those is broken by PostgreSQL.)
NoDeadlock ==
  \A S \in (SUBSET {w \in Worker : req[w].op # "add"}) \ {{}} :
    \E w \in S : \A v \in S : ~WaitsFor(w, v)

\* While its Meeting stays, an item only disappears from an upcoming agenda,
\* undiscussed, with no note and no Work Item: neither delete_meeting_item
\* nor the cleanup of a cancelled follow-up loses anything a racing note or
\* Work Item creation has attached.
TouchedItemsSurvive ==
  [][\A i \in Item :
       home[i] # None /\ home'[i] = None /\ meetingStatus'[home[i]] # "deleted"
         => /\ meetingStatus[home[i]] = "upcoming"
            /\ outcome[i] = "not_discussed"
            /\ i \notin noted \cup linked]_vars

\* Resolving the current item moves the pointer to the next open item, or to
\* none if there is none later; only the direct follow-up action starts over
\* at the top.  A pointer that moves while no outcome changes is navigation.
AdvanceRule ==
  [][\A m \in Meeting :
       LET i == current[m] IN
       /\ i # None /\ meetingStatus[m] = "live" /\ meetingStatus'[m] = "live"
       /\ outcome'[i] # outcome[i] /\ outcome'[i] \in {"done", "follow_up"}
       => LET later == {j \in Open(m) : Before(i, j)}
              n == current'[m]
          IN  IF later # {}
              THEN n \in later /\ \A j \in later \ {n} : Before(n, j)
              ELSE n = None \/ (outcome'[i] = "follow_up" /\ n \in Open(m) \ {i})
      ]_vars

\* The outcome of an item of a Meeting that is not live changes only with a
\* follow-up of that item, in the same step.
OutcomesSettled ==
  [][\A i \in Item :
       /\ outcome'[i] # outcome[i]
       /\ home[i] # None /\ home'[i] # None
       /\ meetingStatus[home[i]] # "live"
       => ActiveFrom(i)' # ActiveFrom(i)]_vars

\* Once the target Meeting has left upcoming, a scheduled follow-up into it
\* is history: no cancellation that started earlier still undoes it.  It
\* only disappears with its source's Meeting.
StartedTargetsKeepTraces ==
  [][\A f \in followUps :
       /\ f.status = "scheduled"
       /\ meetingStatus[f.target] # "upcoming"
       /\ home'[f.source] # None
       => f \in followUps']_vars
=============================================================================
