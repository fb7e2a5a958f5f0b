# Verification of the research collaboration server

The repository is a Django server on PostgreSQL (`src/apps/api`) with a React
client (`src/apps/web`). Research groups run Projects, plan Meetings, write
agendas, and turn what they discuss into Work Items. This directory holds TLA+
models of the server's core, the TLC runs that check them and the TLAPS proofs
about them.

1. [The system](#1-the-system)
2. [Plan](#2-plan)
3. [How the code is modelled](#3-how-the-code-is-modelled)
4. [Meeting recurrence](#4-meeting-recurrence)
5. [The calendar of a recurrence](#5-the-calendar-of-a-recurrence)
6. [Sections](#6-sections)
7. [Live Meetings and follow-ups](#7-live-meetings-and-follow-ups)
8. [Memberships, ownership, assignments](#8-memberships-ownership-assignments)
9. [Boards, statuses and types](#9-boards-statuses-and-types)
10. [The event stream](#10-the-event-stream)
11. [The Board in the browser](#11-the-board-in-the-browser)
12. [Invitations and sessions](#12-invitations-and-sessions)
13. [What is proved](#13-what-is-proved)
14. [Where the code and its documentation disagree](#14-where-the-code-and-its-documentation-disagree)
15. [What is not modelled](#15-what-is-not-modelled)

To run: `tlc -config MeetingRecurrence.cfg MCMeetingRecurrence` and so on (each
run's module and configuration are listed in `PROJECT.json`), and
`tlapm MeetingRecurrenceProofs.tla` for the proofs, in the same way for each of the
eight modules whose name ends in `Proofs`.

## 1. The system

Every request is served by one handler. It runs services, plain functions that
open transactions; PostgreSQL runs them READ COMMITTED, so a query sees what
other transactions have committed by then. Services order themselves with row
locks (`SELECT ... FOR UPDATE`) and lean on constraints: unique ones, and
foreign keys, most of them checked at commit. There are no background workers
and no queue; the only asynchronous parts are the realtime stream and the page
that follows it.

| Part | State it keeps | Operations | What is hard about it |
|---|---|---|---|
| Meeting recurrence (`meetings/services.py` 708-2620) | the series, its Template, its end; Meetings by original start; exclusions | materialize, reschedule, exclude, cancel an occurrence, terminate the series, delete the Template | virtual occurrences become rows on demand; two rows must change together; two lock orders; a bounded retry |
| Live Meeting (`meetings/services.py` 3313-4996) | status, current item, items, outcomes, notes, work links, follow-up records | start, end, reopen, cancel, delete; add, edit, focus, resolve, reopen, delete items; schedule and cancel follow-ups | follow-ups lock two Meetings; cascades; services that read without a lock |
| Sections (2624-2903, 3912) | positions of the Sections of Templates and Meetings | create, rename, reorder, replace, delete | positions under an immediate unique constraint |
| Recurrence calendar (`meetings/recurrence.py`, `meetings/services.py` 897-1455) | none | expand a rule into starts; find the next occurrence | month ends, time zones, limits; a search in sliding windows |
| Research groups (`research_groups/services.py`) | members and their roles | create, add, change role, remove, offboard | the last admin; offboarding spans several Projects |
| Projects (`projects/services.py`, `offboarding.py`) | members, roles, status, archive | create, members, roles, status, archive, restore, delete | the last owner; who may hold work |
| Project configuration (`projects/configuration_services.py`) | types, statuses, labels | create, update, deactivate, reorder | the last active type or status; one default |
| Work Items (`work_items/services.py`) | assignees, status, parent, labels, comments | create, update, delete, comment | archived Projects; cycles of parents |
| Boards (`work_items/services.py` 1263-1681, `my_work_board_order.py`) | positions per column, and per user | move, transition | stale neighbours; a cached status |
| Realtime (`work_items/realtime.py`, `web/src/api/work-item-events.ts`) | open streams; the page's connection, check and timer | publish at commit, listen, authorize, close; reconnect, check, back off | missed and late notifications; revoked access; overlapping recoveries |
| Accounts (`accounts/`) | users, invitations, sessions and their registry | invite, accept, register, log in, revoke | single use; an address that is not unique; a registry written after the session |
| Preferences, personal notes | one row per user; notes | read, save, archive | a read that writes |
| Authorization (`authorization/`) | none | decide from memberships | applied before or under the lock, by service |
| Audit history | a row per change | insert in the caller's transaction | its foreign keys lock the group at commit |
| Board page (`web/src/features/projects/ProjectDetailPage.tsx`) | the list it shows, fetches, optimistic drags | fetch, drag, roll back, follow hints | answers older than drags; overlapping drags; held hints |
| Views, serializers, other pages, deployment | none of their own | | |

The parts meet in the database. Meetings and Work Items ask the authorization
kernel, which reads memberships. Offboarding calls into Projects, which call
into Work Items for assignments. Deleting a Template, a Meeting or a Work Item
cascades over the others. Audit events and realtime notifications are written
in the transaction of the change they report.

What makes each part correct is stated with its model below; `PROJECT.json`
lists each hazard with the line where it bites and the properties that watch it.

## 2. Plan

| | Modules | Question |
|---|---|---|
| 1 | `RecurrenceContract`, `MeetingRecurrence`, `MeetingRecurrenceProofs` | do the transactions of a series implement atomic operations? |
| 2 | `RecurrenceCalendar`, `MeetingSeriesProofs` | do the expansion and the search find the dates of the rule? |
| 3 | `SeriesSections`, `MeetingSeriesProofs` | do positions survive reordering in two statements? |
| 4 | `LiveMeeting`, `LiveMeetingProofs` | is the agenda sound while a Meeting runs and items move between Meetings? |
| 5 | `ProjectAccess`, `ProjectAccessProofs` | does somebody always own, manage and do the work? |
| 6 | `WorkBoard`, `WorkBoardProofs` | do two orders, their statuses and their configuration stay together? |
| 7 | `HintChannel`, `EventStream`, `EventStreamProofs` | is a committed change always announced to a page that listens? |
| 8 | `ProjectBoard` (over `HintChannel`), `ProjectBoardProofs` | does the Board of that page become what the server has? |
| 9 | `AccountAccess`, `AccountAccessProofs` | one account per address, and no session out of reach? |

`EventStream` implements `HintChannel`, and `ProjectBoard` is composed with
`HintChannel` in place of the stream: what the run of the page shows holds over
the real stream because the run of the stream shows the refinement.

Every safety property of a passing run is proved as well (section 13). Next, in this
order: Work Item parents (a cycle of two concurrent edits is excluded by the Project
lock), the My Work and navigation preferences, and the inspector's queue in the client.

## 3. How the code is modelled

* A service that locks one row before it reads anything that matters is one
  action, enabled while that lock is free. A service that takes several locks,
  or reads before it locks, is a *handler*: `pc[w]` names the next statement
  that can wait or see another transaction, `req[w]` what was asked for and what
  has been read. The writes of a transaction appear in the step that commits it,
  as READ COMMITTED makes them visible.
* Row locks are variables holding the handler that has them. `FOR NO KEY UPDATE`
  and `FOR UPDATE` exclude each other; foreign-key checks (`FOR KEY SHARE`) wait
  for `FOR UPDATE` only, and happen at commit for the deferred constraints
  Django creates.
* `Crash` ends a transaction anywhere: an exception, a lost connection, or the
  victim PostgreSQL picks in a deadlock. It rolls back and frees the locks.
* Texts, names, audit events and notifications are left out, or are model values.
* A permission is granted to some user, as a guard where a property depends on
  it (all of `ProjectAccess`) and silently elsewhere.
* Definitions with a comment such as "Faulty variant", or "\* off by one: ..."
  beside their name, are plausible mistakes in the definition that follows them.
  No action uses them; each shows that some property notices the mistake.
* A history variable ("history:" in its declaration) records what happened and
  guards nothing; properties use it to name the race in which they may fail.
* Deadlock checking is off wherever the system may rightly stop: keys, logins,
  requests or dates of the instance are used up. `recurrence`,
  `recurrence_liveness` and `access` keep it on.
* `Operations`, a constant of the handler models, is the set of requests that
  may be made. With all of them the reachable states outgrow any useful run, so
  each run takes the operations that can disturb its properties.

## 4. Meeting recurrence

`MeetingRecurrence` has the columns of one series (`terminatedAt`, `template`),
of its Meetings by original start (`status`, "virtual" without a row;
`scheduled`; `pk`), the exclusion rows, the clock, the three kinds of row locks
and the handlers. Its actions follow the statements of

| Code | Actions |
|---|---|
| `materialize_meeting_recurrence_occurrence` | `BeginMaterialize`, `Mat...` (find, lock, check, insert, duplicate) |
| `reschedule_meeting_recurrence_occurrence`, `update_meeting`, `_guard_recurrence_time_move` | `BeginReschedule`, `BeginEdit`, `Mov...`; a virtual occurrence goes through `Mat...` in the same transaction |
| `exclude_meeting_recurrence_occurrence` | `BeginExclude`, `Exc...` |
| `cancel_materialized_meeting_recurrence_occurrence` | `BeginCancel`, `Can...` |
| `terminate_meeting_recurrence` | `BeginTerminate`, `Ter...`, with its three attempts |
| `delete_meeting_series` | `BeginDeleteTemplate`, `Del...`, with the SET_NULL updates in Django's order |
| `start_meeting`, `end_meeting`, `reopen_meeting` | `StartMeeting`, `EndMeeting`, `ReopenMeeting` |

`RecurrenceContract` is what a reader of the documentation expects: each
operation is one atomic step on the same columns, without locks or handlers.
`ImplementsContract` says that every behaviour of the handlers is one of those.

*Run `recurrence`*: two handlers, two instants that are both original starts,
all operations and three attempts per termination.

* `TerminatedFutureEmpty`: after the termination of a series no Meeting of its
  terminated future is upcoming, though materializations and moves race with it.
* `CancelledIffExcluded`: a Meeting is cancelled exactly if its occurrence is
  excluded, two rows that four services write.
* `ImplementsContract`, as above: among the rest, the end of a series is written
  once, a status follows the lifecycle with cancelled as its end, and no Meeting
  is created for an excluded or terminated occurrence.
* `NoDeadlock`: handlers other than Template deletions never wait only for one
  another. A Template deletion can be part of a circle (section 14).

Two handlers are what it takes for every pair of statements to meet; a third
is needed for none of the guards, which look at rows and never at the number of
requests, and the proofs cover any number. Two instants make a Meeting fall
before, on or after the end of its series, and let a move cross it. Three
attempts is the code's `range(3)`.

*Run `recurrence_liveness`*: `RequestsReturn`, every started request is
answered. The fairness is strong, per handler (`SF_vars(Step(w))`): a lock wait
in PostgreSQL is a queue, so a handler whose row is released again and again
gets it, and the operating system runs every handler. Nothing forces a request
to begin, the clock to move or a handler to crash, and a handler that loses
its termination attempts still answers, with an error. The run leaves Template
deletion out, because its deadlock is resolved only by an abort. Two attempts
keep the behaviour graph small; the step from one to another attempt is there.

## 5. The calendar of a recurrence

`RecurrenceCalendar` runs the generator of `recurrence.py` (`_iter_occurrence_dates`,
`calculate_recurrence_occurrences`: `Skip`, `Take`, `Leave`) inside the search of
`next_effective_meeting_recurrence_occurrence` (`Choose`, `Slide`), as
`list_personal_meeting_recurrence_overviews` calls it: with the series, its
exclusions and its Meetings read before. `Horizon` is `_next_occurrence_horizon`, with
the gap it expects between two dates (`Gap`). The specification is called `Search`. A
day counts four units of time and a month its days; wall-clock times and instants
differ by at most one change of the clocks, and `Wall`, `Instant` and `Skewed` say
what Python's `zoneinfo` does with it (comparisons between zones included, PEP 495).

The reference is the rule written as a set: `Dates` filters all days of the
calendar, `NextEffective` takes the earliest of the occurrences that are neither
excluded nor past. Both follow `docs/domain/meetings.md` 484-512 and 800-830.

*Run `calendar`*: 72 rules (daily, weekly with one or three weekdays, monthly;
intervals 1 to 12; starts on a leap day, the 31st of a long month, in the middle of
a week; without an end, with an end date, with a count), times before, at and
after the first occurrence, up to two occurrences excluded, opened, moved or
cancelled, and the clocks forward, back or unchanged around them. 441 426 states.

* `ExpansionExact`: an expansion returns exactly the dates of the rule in its
  window, in order, and counts those before the window.
* `NextExact`: the search answers with `NextEffective`; the two exceptions are
  those of section 14.
* `SearchEnds`: the search ends, also when everything in a window is excluded or
  opened. Its fairness is that of a loop that runs.

*Run `calendar_horizon`* violates `HorizonCovers` (section 14).

Two touched occurrences are what it takes for a window without a free candidate;
the calendar of 3500 days spans two leap years and the longest gap of the rules, and
ends after every window a search may open (`CalendarAssumption`, which TLC evaluates).
The branch for terminated series is left out: the overview excludes them.

## 6. Sections

`SeriesSections` has the Sections of one Template and of one Meeting: which list a
Section is in, its position, whether it is active, and the Template Section it was
copied from. `create_series_section`, `create_meeting_section`,
`update_series_section` and `delete_series_section` are single steps; a reorder is
two statements (`Shift`, `Place`, or the failure of either), `replace_series_sections`
and `create_meeting_from_series` hold rows or a snapshot between two steps. The
unique constraint of (list, position) is immediate, so the first statement of a
reorder may meet a row it has not moved yet; which row comes first is
PostgreSQL's choice, hence `ShiftCollides` and `ShiftMustCollide`.

*Run `sections`*: two handlers, four Sections.

* `TypeOK` includes that positions are unique in each list at every commit.
* `ReorderExact`: a reorder that commits leaves the Sections it named in the order
  it asked for, whatever else has happened to the list since it was validated.
* `UndisturbedReorderSucceeds`: a reorder fails only over a gap in the positions or
  a Section that came or went meanwhile.

Four Sections allow a Template of two with a replacement or copies of both, and
a list of three with a gap in it. Two handlers are two reorders, or a
reorder and a replacement.

## 7. Live Meetings and follow-ups

`LiveMeeting` has the status and the current item of each Meeting; each item's
Meeting, Section, outcome and text; the sets of items with notes and with work
links; the follow-up rows; locks on Meetings and Sections; and handlers.
Handlers run `create_meeting_item` (`Add...`), scheduling and cancelling a
follow-up (`LockFirst`, `LockSecond` in key order, `Sch...`, `CanCommit`),
`delete_meeting` (`Dm...`), and the services that read first and write later
without a lock: notes (`BeginNote`, `NoteSave`) and item edits (`BeginEdit`,
`EditSave`). Focus, outcomes, item deletion, work links and the lifecycle are
single steps under the Meeting lock.

*Run `live_follow_ups`*: two handlers, two Meetings, three items.

* `ActiveFollowUpBacked`: a scheduled follow-up has its generated item on the
  agenda of its target Meeting and its source on another agenda, and is the only
  scheduled one of its source.
* `TouchedItemsSurvive`: as long as its Meeting stays, an item disappears only
  from an upcoming agenda, not discussed, without notes and without Work Items,
  by a deletion or by the cleanup of a cancelled follow-up.
* `StartedTargetsKeepTraces`: once the target Meeting has left upcoming, a
  scheduled follow-up into it disappears only with the Meeting of its source; no
  cancellation that began earlier undoes it.
* `NoDeadlock`: schedules, cancellations and deletions never wait in a circle
  among themselves. Item creations lock a Section first and the Meeting at
  commit, by the foreign key; a circle with one of them is left to PostgreSQL.

*Run `live_agenda`*: one handler for what can be in flight, everything else as
single steps, over two Meetings and three items.

* `PointerOnLiveAgenda`: only a live Meeting has a current item, and it is on the
  agenda of that Meeting.
* `AdvanceRule`: resolving the current item moves the pointer to the next open
  item later in agenda order, or to none; only the direct follow-up action may
  start again at the top. A pointer that moves while no outcome changes is
  navigation, and free.
* `OutcomesSettled`: the outcome of an item whose Meeting is not live changes
  only together with a follow-up of that item.

Two Meetings make follow-ups go both ways, and three items make a chain (source,
target, target of the target) and an agenda with a middle. One Section is enough
because agenda order is the only thing Sections contribute.

Markdown and legacy text are told apart in the model, but no property of these
runs depends on Markdown, so they write none (`Markdown = {}`). The two runs
reach 1.9 million states (`live_agenda`) in a minute or two.

Deadlock checking is off: primary keys are
never reused, so once the three keys are given out and every Meeting is deleted
or cancelled, no operation remains. `NoDeadlock` looks for handlers that wait
for each other, which is the question here.

## 8. Memberships, ownership, assignments

`ProjectAccess` has the group role of every user, the role of every user in
every Project, each Project's status and archive flag, and each Work Item's
Project and assignees. The services of `research_groups/services.py`,
`projects/services.py` and the assignment part of `work_items/services.py` lock
the Project or the group first, so each is one action of the same name. Two are
not:

* `offboard_research_group_member` locks the group row, lists the Projects of the
  leaving member, and resolves them one after the other, each under its own lock
  (`OffBegin`, `OffProject`, `OffCommit`, `OffAbort`). `off.done` keeps what was
  decided for the Projects whose locks it holds; everything becomes visible at
  the commit. Meanwhile changes of other Projects go on, except those that
  insert a row referring to the group: an inserted membership or audit event
  waits for the group row.
* `delete_work_item` checks the Project the view has read and locks nothing:
  `BeginDeleteItem`, `DeleteItem`.

*Run `access`*: two users, two Projects, one Work Item.

* `GroupHasAdmin`, `ActiveOwned`: there is always an admin of the group, and an
  owner of every active Project that is not archived. Paused and archived
  Projects may lose their last owner to an offboarding; they must then stay
  what they are.
* `MembersInGroup`, `AssigneesCanWork`: a membership in a Project implies one in
  the group, and an assignment implies the right to work on the Project.
* `DecisionsHold`: what an offboarding has decided under its locks still fits
  when it commits, and no Project is overlooked, although the list of Projects
  was read before they were locked.
* `ArchivedReadOnly`: a Project that stays archived keeps its status. Its
  memberships change only by losing the member whose offboarding commits, which
  may process archived Projects, and an assignment only by passing from that
  member to at most one successor. No Work Item comes in, assigned or not, and
  no deletion passes its checks. One that had passed them before the Project was
  archived still removes its Work Item: a race the comment at
  `projects/services.py:81` ("read-only history") does not mention.

Two Projects are needed for an offboarding that has decided one and waits for
another. Two users suffice for a successor who is no longer one. Roles of third
parties matter to no guard but "some other owner", and the proofs cover any
number of users, Projects and Work Items.

## 9. Boards, statuses and types

`WorkBoard` is one Project with its Work Items, their status definitions and
`board_position`, `completed_at`, the My Work projection and the personal rows of one
user, the status and type definitions, and the locks of the user's and the
Project's row. A request of a Project writer takes the Project row and then acts:

| Code | Actions |
|---|---|
| `reposition_work_item` | `Reposition` |
| `transition_work_item_status` | `Transition` |
| `update_work_item`, status or assignees | `EditStatus`, `Assign` |
| `create_work_item`, `delete_work_item` | `CreateItem`; `DeleteItem`, which takes no Project lock |
| `create_status_definition`, `update_status_definition` | `CreateStatusDefinition`, `UpdateStatusDefinition` with its checks in order |
| `update_type_definition` | `CountTypes`, `DeactivateType`, `ActivateType`: its own row only |
| `move_my_work_item` | `BeginMove` (outside the transaction), `LockUser`, `LockMoveProject`, `ReadColumn`, `WriteColumn` or `RowMissing` |

Foreign keys to the user (the actor of a history event, an assignee) wait at
commit for a move that holds the user's row; `Victim` is PostgreSQL aborting one
of a circle.

*Run `boards`*: three Work Items, two status categories and up to three
definitions, two types, two handlers and three requests. 743 554 states, about
two minutes.

* `BoardOrderKept`: two Work Items change places in a column of the Project board
  only when one of them is dragged or edited, although columns are renumbered from
  positions that are missing, stale or equal.
* `PersonalOrderKept`: the same for a move on the My Work board, but for a Work
  Item that came into the column after the move had read it, or has left it since:
  it has one personal row (`models.py:258`), and the move takes that row.
* `MovesLand`: a move across categories puts its Work Item in the target category
  directly before its anchor, although the decision to lock the Project comes from an
  older row; a reorder does so unless the column has changed under it.
* `StatusesSound`: exactly one active default status, a "todo" one, and
  `completed_at` exactly on "done", whatever fields a PATCH combines.
* `LastTypeNeedsRace`: types run out only by two deactivations that overlap.
* `CirclesNeedMove`: every circular wait contains a My Work move that holds the
  user and a Project writer that cites the user.

Three requests let two concurrent ones meet in a state a third has prepared;
three Work Items give an anchor and a bystander. The requests that only prepare
a state (a personal row with a stale category, a Work Item in an inactive
status) need one each. `CreateItem` fires after a deletion has made room.

## 10. The event stream

`EventStream` is one page: the controller of `work-item-events.ts` (`source`, its
handshake flag, the authentication checks under way, the back-off timer), the
session of `SessionProvider.tsx`, and the server's side of its stream (`queue` is what
the listener has received, `wire` what the page has yet to receive). `Forward`,
`Suppress` and `Close` are the three outcomes of `_handle_notification`; `Expire` is the
maximal age of a stream; `Interrupt` and the other uses of `Fault` are failures.

`HintChannel` says what all this is for. A hint has no content: it only tells the page
to fetch. From the commit of a change a signal is under way, and it arrives at a page
that listens, unless a notification has been suppressed since the last signal
(`excused`: no access to the Project at that moment, or a lookup that failed).

*Run `event_stream`*: two changes, two logins, two failures.

* `ImplementsChannel`: `EventStream` implements `HintChannel` with `attached <- user` and
  `underway <- SignalUnderway`, liveness included.
* `OneReconnection`: while the page is signed in, exactly one of connection, check
  and timer leads to the next connection.
* `LosesOnlyItsSession`: the page is signed out by its user or because its own
  session is gone, never by a late answer about an earlier one.
* `RevocationReachesPage`: a page whose session was ended elsewhere learns it, even
  when its Project is silent.

Fairness is weak and per activity: a request is answered or fails, a frame in the
buffer is received, a timer fires, a stream reaches its age. Nobody has to
commit, sign in or out. Weak is enough since none of these is disabled again
except by what ends the obligation. Two logins are needed for a late answer
about the first; two failures for a failed connection whose check fails too; the
second change for one that comes while the first is on its way.

## 11. The Board in the browser

`ProjectBoard` is the Board of `ProjectDetailPage.tsx`: the list it shows, the refresh
key and its effect (`requested`, `fetch`), the invalidation that is held while a fetch or
a drag is under way, drags with their sequence numbers and snapshots, and the
generation that tells visits to a Project apart. A list is represented by the set
of changes it reflects; a foreign change is made elsewhere or by a creation on
this page. The inspector sends its PATCHes one at a time (`patch`); the answer replaces
the Work Item in the list, so the changes of that Work Item (`Card`) become
those the answer reflects. JavaScript runs callbacks one at a time, so each is
one action.

The module extends `HintChannel` by instance: `CommitForeign` and `ChannelStep` are steps of
the channel, `Hint` is its signal together with the handler of
`projectWorkItemsRealtime.tsx`.

*Run `board_sync`*: one foreign change, which may be a PATCH or a creation of this page, two
drags, the first of the card that the inspector shows, three visits (away and
back), one lost request or answer.

* `NothingForgotten`: a Board that lags behind the server has a signal, a fetch, a drag or
  a PATCH to come.
* `Converges`: again and again the Board is what the server has.
* `NewestDragKept`: no answer takes the newest drag off the Board while its request is
  pending, except that of a PATCH of the same card.

All three allow what the history variables `suspect` and `created` name (section 14).
Fairness is weak for requests, callbacks and effects, and for the signal as
`HintChannel` promises it. Two drags are the least that overlap; the third visit is
a return during a drag or a fetch of the first.

## 12. Invitations and sessions

`AccountAccess` follows one invited address and its account. A creation checks without
a lock that the address has no account (`CheckAddress`), locks and expires overdue
pending rows (`EnforceNonePending`) and inserts under the partial unique index
(`InsertInvitation`, `InsertConflicts`, three attempts). A token is redeemed or settled under
the lock of its row (`ResolveToken`, `CommitRegistration`, `FailRegistration`, `Settle`). Emails are
not unique in the users' table, so these locks are all that stands between one
address and two accounts.

A session is a row of `django_session`; the registry of `UserSession` rows is written
after it (`SignIn`, `SignInReturns`), repaired by the middleware (`Request`, `RegisterTouched`),
shortened by the list (`ListSessions`) and left by a logout (`Logout`, `UnregisterSession`).
Revocations select registry rows and then delete both (`BeginRevoke`, `SelectRows`,
`CommitRevoke`).

*Run `accounts`*: three tokens, two workers, two browsers, two sessions; symmetric in all
four.

* `OneAccountPerAddress`: as named, with the types.
* `TokenNeedsRace`: once there is an account, a usable token of its address comes only
  from a creation that a registration has overtaken.
* `RevocationsReach`: "sign out everywhere" and "everywhere else" end every session whose
  sign-in or request had returned when they began, and the second spares its own.

Three tokens are one in use, one expired and one new; two workers a creation and a
registration, or two creations. A creation that runs out
of attempts has written nothing, as one that is refused.

## 13. What is proved

Each theorem says `Spec => []P`, or `Spec => P` for an action property, for all values
of the constants that satisfy the `ASSUME`s of its module. It rests on an inductive
invariant `IInv` of the proof module: `InitInv` (`Init => IInv`), `NextInv` (`IInv /\ [Next]_vars =>
IInv'`, from one lemma per action), `Invariance`. The candidates of the calendar, the live Meeting
and of the boards were checked by TLC on small instances before they were proved.

| Proof module | Theorems, with the property each proves |
|---|---|
| `MeetingRecurrenceProofs` | `NoUpcomingAfterTermination` (`TerminatedFutureEmpty`), `CancelledMeansExcluded` (`CancelledIffExcluded`), `DeadlockFree` (`NoDeadlock`), `Refinement` (`ImplementsContract`) |
| `MeetingSeriesProofs` | `ExpansionCorrect` (`ExpansionExact`), `NextCorrect` (`NextExact`), `HorizonSuffices`, `ExpansionBounded`, `WindowsBounded`; `PositionsUnique` (`TypeOK`), `ReorderSafe` (`ReorderExact`), `UndisturbedSafe` (`UndisturbedReorderSucceeds`) |
| `LiveMeetingProofs` | `PointerSafe` (`PointerOnLiveAgenda`), `FollowUpsBacked` (`ActiveFollowUpBacked`), `DeadlockFree` (`NoDeadlock`), `NothingTouchedIsLost` (`TouchedItemsSurvive`), `OutcomesSettledSafe` (`OutcomesSettled`), `TracesKept` (`StartedTargetsKeepTraces`), `PointerAdvances` (`AdvanceRule`) |
| `ProjectAccessProofs` | `AdminStays` (`GroupHasAdmin`), `MembershipsScoped` (`MembersInGroup`), `ActiveProjectsOwned` (`ActiveOwned`), `AssigneesEligible` (`AssigneesCanWork`), `DecisionsSound` (`DecisionsHold`), `ArchivedProjectsKept` (`ArchivedReadOnly`) |
| `WorkBoardProofs` | `ConfigurationSound` (`StatusesSound`), `LastTypeSafe` (`LastTypeNeedsRace`), `CirclesSafe` (`CirclesNeedMove`), `BoardOrderSafe` (`BoardOrderKept`), `PersonalOrderSafe` (`PersonalOrderKept`), `MoveSafe` (`MovesLand`) |
| `EventStreamProofs` | `ReconnectionSafe` (`OneReconnection`), `OwnSessionLost` (`LosesOnlyItsSession`), `ChannelSafety` (the safety of `ImplementsChannel`) |
| `ProjectBoardProofs` | `NothingForgottenSafe` (`NothingForgotten`), `NewestDragSafe` (`NewestDragKept`) |
| `AccountAccessProofs` | the three properties of `accounts` |

`MeetingRecurrenceProofs` also proves what the contract implies and no run lists: `TypeOK`,
`TerminationImmutable`, `StatusStepsLegal` and `NoLateBirth`. `MeetingSeriesProofs` holds two
separate proofs, of the calendar and of the Sections; the calendar's definitions have names of
their own (`Search`, `SearchInv`, `SearchInitInv`, `SearchNextInv`, `SearchInvariance`).

The assumptions on the constants are those the code justifies. A NULL timestamp is no
instant, and original starts are instants. Nobody, no request and no session are
none of the handlers, users and sessions. Primary keys and definitions are numbers,
given out in order. Sections, items and the handlers of `LiveMeeting` are finitely many.
A termination makes at least one attempt, and a page is opened at least once. The
categories "todo" and "done" exist, and a Project starts with a
default status definition. A rule is one that `validate_recurrence_definition` accepts. The
calendar of the model ends in 2099 at the latest, as 2100 is no leap year, and
`CalendarAssumption` lets it end after the windows: the last day of any window that starts with
the search or with a touched occurrence is on it. It bounds the sets of the
reference definition, not the rules, whose intervals, ends and counts are arbitrary.

**Orders without induction.** Agendas, columns and Section lists are ordered by keys
and ranks. Their operators choose a sequence or an element with a property;
the lemmas on them (`FirstOfFinite`, `RankBijection`, `Ranks`) show that one
exists by counting: the ranks of a finite set of n elements are n different numbers up
to n, hence all of them, as an injection between finite sets of one size is a surjection
(`FS_Injection`). The least element of a set of numbers comes from the well-founded order of
the naturals (`WFMin`). So the operators are used through what they return, and none
of them is unrolled.

**Recurrence.** `IInv == TypeInv /\ HandlerInv /\ TerminatedFutureEmpty /\
CancelledIffExcluded`. The two safety properties are not inductive by
themselves: a handler that has checked something and is about to write would
break them from an arbitrary state. `HandlerInv` states what each handler knows
at each label: which locks it holds, and what it has seen under them (no
exclusion, no Meeting, the series not ended at this start, the requeried
candidates being a subset of the locked ones). Since those rows change only
under the same locks, the knowledge survives the steps of other handlers
(`OthersKeepLocks`), and each write finds what it needs. The action properties and
the refinement of `RecurrenceContract` follow: every step maps to a step of the
contract or to a stutter, the many-row commit of a termination to one
`Terminate`.

`NoDeadlock` needs the converse, which lock is held only where (`Owns`), and that keys are
given out once and a termination has locked its Meetings in their order so far
(`KeysInv`, `InKeyOrder`). Then a handler that is waited for and waits for a waiting one is a
termination inside its `SELECT ... FOR UPDATE`, and waits for a Meeting with a higher key than
the one it is waited for (`WaitsForHigherKey`). In a circle, the one with the
greatest awaited key contradicts that. The number of handlers may even be infinite: keys
are bounded by the last one.

**The calendar.** `SearchInv` relates the loop to the sets it is compared with. The day it
looks at after n steps is a function of n (`Looked`), so what it has yielded is a set
(`Seen`): `GeneratorInv` says that the count is its size and the result its part in the
window. Two lemmas carry the exactness: what is yielded has the pattern of the rule
(`HitMatches`), and every day with the pattern is looked at (`MatchesHit`). They need that a
day lies in one month (`MonthOfDay`, `MonthUnique`), that the days looked at are in order, and
quotients by a variable interval, which the solver gets as products (`Euclid`, `Divides`).
`WindowExact` follows when the loop ends, whichever of its three conditions ended it (`NoneLeft`).

`WindowInv` says that a window is as long as the horizon after where it begins, and
`PassedInv` that what the search has left behind does not count. `NextExact` needs
both: nothing earlier than the choice was passed, and after an empty window nothing is
left (`HorizonHolds`). The latter is the claim of `_next_occurrence_horizon`, proved by cases
(`MonthWithin`): the 29th and 30th meet at most one February in a row, February 29 with
whole years a leap year in four steps, and the 31st one of four months that have it, unless
they are five or seven months, modulo twelve, apart. Those need up to six steps
(`FiveMonths`, `RareRuns`), which is within `4 * interval + 12` for an interval of five
only. So the finding of section 14 is confined to `Sparse`, and a horizon of six intervals
would cover every rule.

`SearchEnds` stays with TLC, but what it rests on is proved: an expansion takes a number of
steps bounded by its window (`ExpansionBounded`), and every further window passes a touched
occurrence for good (`WindowsBounded`).

**Sections.** `IInv` adds to the types and the unique positions what a reorder has
validated (`OrderInv`: its Sections are different, and still in the list or deleted),
which rows a transaction holds (`LockInv`), and that a snapshot is copied by one request
into a Meeting without Sections (`MeetingInv`). A Section that commits at the end of a list
is behind all others (`LastPosition`). In a list without gaps the shift by its length leaves every
old position behind, and a reorder that names the whole list meets no other Section:
neither statement fails.

**Live Meetings.** `IInv` names what a handler read before it waited and may still rely on
(`ReadInv`): a schedule's source is on its Meeting or gone, the records of a
cancellation name its two Meetings, and whatever a schedule tested under its locks holds
at its commit. `LockInv` gives the exact rows a handler holds, and `FollowUpsInv`
relates records to agendas: a source is never on its target's agenda, an item belongs
to one record. `PointerOnLiveAgenda` is inductive only together with them, as a cleanup
removes an item of another Meeting. Handlers other than the one that steps keep
theirs because the rows they depend on only go, or are locked (`OtherHandler`). `NoDeadlock`
follows as above, by the greatest awaited Meeting. The action properties look at
the few steps that write agendas, outcomes or records (`Writers`).

**Access.** `IInv` is the conjunction of the six invariants of the run. They
need each other: an owner manages a Project only as a member of the group
(`MembersInGroup`), so `OwnerSuffices`; a resolution leaves work only with users
who may do it (`ResolutionResult`); and the commit of an offboarding preserves
all of them only because of `DecisionsHold`, which in turn survives the steps
of others because they respect its locks (`DecisionsKept`). There is one lemma per
action, with one step per conjunct. `ArchivedProjectsKept` proves the action
property from the same invariant and from `Once`: an offboarding decides each
Project once, so an assignment has at most one heir.

**Boards.** `LocksInv` says what each phase of a request holds, `DefaultInv` and `ItemsInv` that
the configuration is sound and refers to rows that exist, `RequestInv` what a request
carries, `TypesInv` that only overlapping deactivations use up the types. `OrderInv` is for the
moves: what a move has read is still in the order of the user's rows when it writes,
and a column whose Project it holds still has the Work Items it read. It holds
because only the user's own moves write those rows, and they hold the user's row.

The first attempt failed for a good reason. `PersonalOrderKept` was stated without its
last case: a Work Item that has moved on has its single personal row taken away by the
move, and so changes its place in the column where it is now. It takes more requests
than the run has to reach that.

**The event stream.** `ChecksInv` keeps the authentication checks apart from the sessions to
come: a negative answer stays true, as the session of a login is created once. With it a
step of the stream is a step of `HintChannel` or none (`ChannelStep`): a received frame is
a signal, a suppression an excuse, the end of a stream a reopening.

**The Board in the browser.** `IInv` follows an old answer to what will replace it (`WireInv`), a
waiting invalidation to what it waits for (`ViewInv`), and says that with nothing under
way the Board is what the server has, and so is the snapshot of a drag that is
alone and owes nothing (`BoardInv`); this is what a rollback needs. `NewestInv` keeps every
fetch that could take the newest drag off the Board older than it.

**Accounts.** Invitations and sessions share only the number of accounts, so
`IInv == TypeOK /\ InviteInv /\ SessionInv`, and each half is stuttering for the steps of the
other. `InviteInv` adds to the two properties what serializes the registrations:
at most one row is pending, a worker that redeems holds that row and the address has
no account (`RedeemerAlone`), and whoever still creates an invitation for an address
with an account has been overtaken. `SessionInv` says that a live session whose sign-in
or request has returned is in the registry, that a logged-out one is not alive (so
dropping its row late is harmless), and that a revocation which has selected its
rows has those it is due to end (`RevocationSound`); the last two survive the steps of other
browsers because a session key is never given out twice.

Only model-checked:

* Liveness, which is outside the prover: `RequestsReturn`, `SearchEnds`, `Converges`,
  `RevocationReachesPage`, and the liveness half of `ImplementsChannel`.

## 14. Where the code and its documentation disagree

One is a run that expects the violation, and a finding in `PROJECT.json`:

* `HorizonCovers`: the horizon of the search for the next occurrence of a monthly rule is
  shorter than the gaps of some rules. The rule of every seven months on the 31st from
  2024-07-31 is next due on 2028-01-31, after 1279 days; its horizon is 1241. The
  search then reports no next occurrence, and the overview says "ended". The same holds
  for other intervals of five or seven months modulo twelve beyond five
  (`Sparse`), and for February 29 across 2100.

The others came up while the code was read and modelled. The properties name them as
exceptions or leave them to the environment, so the runs show that nothing else
goes wrong; the last entry is read off code that is not modelled:

* A reschedule tests the status of the Meeting in an unlocked read
  (`meetings/services.py:1941`), and moves a Meeting that was cancelled in between. `Move` of
  the contract allows it, so no property forbids it.
* The deletion of a Template updates the recurrence row and then waits for Meeting rows
  (`services.py:702`), while `docs/domain/meetings.md:2252` says the recurrence lock is never
  held while waiting for a Meeting. `NoDeadlock` leaves the operation out.
* Cancelling a follow-up deletes its untouched target item (`services.py:3800`), and by
  cascade the records of cancelled follow-ups that started there.
* A note is written into a Meeting that ended between the check and the write
  (`services.py:4951`); an edit of the legacy fields that read the item before a Markdown edit
  overwrites the Markdown (`services.py:4399`).
* A Project archived after the checks of a deletion still loses the Work Item
  (`ArchivedReadOnly` allows that removal and no other).
* The comment at `services.py:2736` speaks of "a high range (above any valid index)"; after a
  deletion has left a gap, the shift by the length of the list can collide, and
  the reorder fails (`UndisturbedReorderSucceeds` names it). The creation of a Meeting from
  a Template fails when a copied Section is deleted before it commits.
* An exclusion or an opened Meeting at a wall-clock time that a clock change repeats or
  skips is not recognised by the search (`services.py:1277`), as Python finds such a time
  equal to no UTC time (`Skewed` in `NextExact`). Weeks of a weekly rule are blocks of seven
  days from its start date.
* Two owners who deactivate the last two active types at once leave none
  (`LastTypeNeedsRace`).
* A My Work reorder that decided by an older row may write a personal row for a category
  the Work Item has left, and an item that arrives after the column was read
  may stand elsewhere than its place suggests (`PersonalOrderKept`, `MovesLand`).
* `invitation_services.py:268` says "no usable token is ever produced for an account email";
  a registration that overtakes the creation makes one (`TokenNeedsRace`). It cannot
  make a second account.
* A sign-in whose response is not out yet when all sessions are revoked survives
  the revocation if its registry row comes later (`due` in `RevocationsReach`).
* A page may miss a change whose notification met a failed lookup, until the next signal
  (`excused`); a Board may stay behind around a drag that fails after an answer was
  skipped for it, or that is abandoned while a signal is held (`suspect`), and an item
  created during a drag takes the dragged card back for a moment (`created`).
* `WorkItemDrawer.tsx:2400` says that "out-of-order responses can never clobber
  apiWorkItems with a stale snapshot". The queue orders the PATCHes among
  themselves; the answer of one still puts an older card over what a drag or a fetch of
  the list has shown since (`suspect` in `NothingForgotten`, the last case of `NewestDragKept`),
  and over a later PATCH of an inspector that was closed and opened again, whose
  queue is a new one.
* The inspector counts the PATCHes of all Work Items together (`WorkItemDrawer.tsx:3356`).
  When the user turns from one Work Item to another and back while PATCHes of both
  wait, the first settles with the second still counted, and "Saving…" stays. The
  assignees it intends are forgotten at the same turn (`WorkItemDrawer.tsx:2545`), so
  the next toggle replaces a set that an earlier, unanswered toggle has changed.

## 15. What is not modelled

* In the modelled parts: texts beyond what a property compares, validation of
  input, participants, group-level Meeting collaboration, suspended accounts
  (the kernel denies them everything), comments, labels, dates and parents of Work
  Items, names and the reordering of definitions, several Projects on one My Work
  board, password rules and previews, and the serialization of responses.
* The creation of a series (`create_meeting_recurrence`) validates and inserts one row; the
  lists of occurrences are read models of the expansion that is modelled.
* Preferences and personal notes: single rows of one user. Their one interesting
  race, a read that writes back an older value, is listed as a hazard.
* Read models (home, timeline, continue-working, audit views), serializers,
  routing and settings change no state.
* The rest of the web client is presentation and forms. Of the inspector only the
  answers of its PATCHes are modelled, as far as they change the Board, and its
  deletion not at all: the answer removes one card and nothing else. The queue,
  the save indicator and the drafts are a candidate. Deployment scripts are shell around `docker compose`, and the scripts
  under `scripts/observability` are tools of the development process.
* PostgreSQL, Python's calendar and zones, the browser's EventSource and React are
  assumed to do what they document. Those definitions are marked external. What
  they may do by their own choice (the order of rows in a statement, the victim of
  a deadlock, failures) is left open in the models.
