------------------------- MODULE RecurrenceCalendar -------------------------
(***************************************************************************)
(* The calendar of a Meeting recurrence: the expansion of its rule over a  *)
(* window (meetings/recurrence.py) and the search for its next effective   *)
(* occurrence in sliding windows, from which the overview of a user's      *)
(* series takes "active" or "ended" (meetings/services.py).                *)
(*                                                                         *)
(* Days count from Monday, 2024-01-01.  A day has four units of time, and  *)
(* the clocks of the series' zone change by one unit, forward or back, at  *)
(* most once.  A wall-clock time is what the zone's clocks show at an      *)
(* instant.  Every occurrence is at the same time of its day.              *)
(***************************************************************************)
EXTENDS Integers, FiniteSets, Sequences, SequencesExt, FiniteSetsExt

CONSTANTS
  Rules,     \* the schedules
  Sooner,    \* now, relative to the first occurrence
  Moves,     \* how far a Meeting can have been moved
  Touched,   \* bound: occurrences that have an exclusion or a Meeting
  LastDay    \* bound: the calendar the reference definitions look at

NoLimit == -1    \* no end date, no occurrence count
Nothing == -1    \* no instant
Units == 4       \* in a day
LocalTime == 1   \* local_time of every rule

Frequency == {"daily", "weekly", "monthly"}
RuleType == [frequency : Frequency, interval : Nat \ {0}, weekdays : SUBSET (0 .. 6),
             start : Nat, end : Nat \cup {NoLimit}, count : Nat \cup {NoLimit}]

Weekday(day) == day % 7

\* validate_recurrence_definition
Valid(r) ==
  /\ r \in RuleType
  /\ IF r.frequency = "weekly" THEN Weekday(r.start) \in r.weekdays ELSE r.weekdays = {}
  /\ r.end # NoLimit => r.end >= r.start /\ r.count = NoLimit
  /\ r.count # 0

ASSUME RulesAssumption == \A r \in Rules : Valid(r)
ASSUME BoundAssumption ==
  /\ Sooner \subseteq Int /\ Moves \subseteq Int /\ Touched \in Nat \ {0}
  /\ LastDay \in 0 .. 27758  \* December 31, 2099

VARIABLES
  rule, clock, now,
  excluded,   \* original starts with a MeetingRecurrenceExclusion
  meetings,   \* by original start: when the Meeting is, and whether cancelled
  phase,      \* "expanding" a window, "choosing" from it, or "done"
  window,     \* range_start_local and range_end_local
  index,      \* where the generator is
  emitted,    \* occurrences of the rule up to there
  found,      \* the occurrences in the window
  result      \* next_scheduled_at

inputs == <<rule, clock, now, excluded, meetings>>
searchVars == <<inputs, phase, window, index, emitted, found, result>>
-----------------------------------------------------------------------------
(* Days and months: Python's datetime, calendar and zoneinfo *)

DaysBefore == <<0, 31, 59, 90, 120, 151, 181, 212, 243, 273, 304, 334>>

\* The first day of a month, counted from January 2024, until 2099.
FirstOf(month) ==
  LET year == month \div 12
      leapDay == IF year % 4 = 0 /\ month % 12 >= 2 THEN 1 ELSE 0
  IN  365 * year + (year + 3) \div 4 + DaysBefore[(month % 12) + 1] + leapDay

Length(month) == FirstOf(month + 1) - FirstOf(month)

MonthOf == [day \in 0 .. LastDay |->
              CHOOSE m \in 0 .. LastDay \div 28 : FirstOf(m) <= day /\ day < FirstOf(m + 1)]
DayIn(day) == day - FirstOf(MonthOf[day])

At(day) == Units * day + LocalTime
DayOf(time) == time \div Units

\* astimezone, and replace(tzinfo=tz) with fold = 0
Wall(instant) == IF instant < clock.at THEN instant ELSE instant + clock.shift
Instant(wall) == IF wall < clock.at + Max({clock.shift, 0}) THEN wall ELSE wall - clock.shift

\* A time that the clocks show twice or never is equal to no time of another
\* zone, such as the UTC times of the database.
Skewed(wall) == \/ clock.shift = 1 /\ wall = clock.at
                \/ clock.shift = -1 /\ wall = clock.at - 1
-----------------------------------------------------------------------------
(* What the documentation says a rule means *)

Pattern(r, day) ==
  CASE r.frequency = "daily"   -> (day - r.start) % r.interval = 0
    [] r.frequency = "weekly"  -> /\ Weekday(day) \in r.weekdays
                                  /\ ((day - r.start) \div 7) % r.interval = 0
    [] r.frequency = "monthly" -> /\ DayIn(day) = DayIn(r.start)
                                  /\ (MonthOf[day] - MonthOf[r.start]) % r.interval = 0

\* The end date is inclusive, the count includes the first occurrence.
Dates(r) ==
  LET last == IF r.end = NoLimit THEN LastDay ELSE r.end
      dates == {day \in r.start .. last : Pattern(r, day)}
  IN  IF r.count = NoLimit THEN dates
      ELSE {day \in dates : Cardinality({d \in dates : d <= day}) <= r.count}

Calendar == [r \in Rules |-> {At(day) : day \in Dates(r)}]
Occurrences == Calendar[rule]

Upcoming == {m \in DOMAIN meetings : ~meetings[m].cancelled /\ meetings[m].at >= now}

\* The earliest occurrence that is neither excluded nor past: a Meeting counts
\* at its own time, an occurrence without one at its original start.
NextEffective ==
  LET virtual == {o \in Occurrences \ (excluded \cup DOMAIN meetings) : o >= Wall(now)}
      times == {Instant(o) : o \in virtual} \cup {meetings[m].at : m \in Upcoming}
  IN  IF times = {} THEN Nothing ELSE Min(times)
-----------------------------------------------------------------------------
(* The search *)

\* The gap between two dates of a rule that _next_occurrence_horizon expects.
Gap(r) ==
  CASE r.frequency = "daily"   -> r.interval
    [] r.frequency = "weekly"  -> 7 * r.interval
    [] r.frequency = "monthly" -> 31 * (4 * r.interval + 12)

\* _next_occurrence_horizon, in days
Horizon(day) == Max({Gap(rule), rule.start - day + 1}) + 1

\* A user may have excluded some of the first occurrences and opened Meetings
\* of some, moved them, and cancelled them, which leaves an exclusion.  The
\* clocks may change just before or just after one of these occurrences.
FirstOccurrences ==
  [r \in Rules |-> {o \in Calendar[r] : Cardinality({p \in Calendar[r] : p <= o}) <= Touched}]

\* The reference definitions look beyond every window: one begins when the
\* search does, or with an occurrence that a user has touched.
ASSUME CalendarAssumption ==
  \A r \in Rules :
    \A time \in {At(r.start)} \cup {At(r.start) + s : s \in Sooner} \cup FirstOccurrences[r] :
      DayOf(time) + Gap(r) + 3 <= LastDay

SearchInit ==
  /\ rule \in Rules
  /\ clock \in {[shift |-> 0, at |-> 0]}
               \cup [shift : {1, -1}, at : {Max(FirstOccurrences[rule]), Max(FirstOccurrences[rule]) + 1}]
  /\ now \in {At(rule.start) + s : s \in Sooner}
  /\ excluded \in SUBSET FirstOccurrences[rule]
  /\ \E opened \in SUBSET FirstOccurrences[rule] : \E moved \in [opened -> Moves] :
       meetings = [o \in opened |-> [at |-> Instant(o) + moved[o],
                                     cancelled |-> o \in excluded]]
  /\ phase = "expanding"
  /\ window = [from |-> Wall(now), to |-> Wall(now + Units * Horizon(DayOf(Wall(now))))]
  /\ index = 0 /\ emitted = 0 /\ found = <<>>
  /\ result = Nothing

(* _iter_occurrence_dates looks at one day of a daily or weekly rule or at *)
(* one month of a monthly rule after the other.  Weeks start on the        *)
(* weekday of the first occurrence.                                        *)
MonthAt == MonthOf[rule.start] + rule.interval * index

Candidate ==
  CASE rule.frequency = "daily"   -> rule.start + rule.interval * index
    [] rule.frequency = "weekly"  -> rule.start + 7 * rule.interval * (index \div 7) + (index % 7)
    [] rule.frequency = "monthly" -> FirstOf(MonthAt) + DayIn(rule.start)

Yielded ==
  /\ rule.frequency = "weekly" => Weekday(Candidate) \in rule.weekdays
  /\ rule.frequency = "monthly" => DayIn(rule.start) < Length(MonthAt)

Ended == rule.end # NoLimit /\ Candidate > rule.end

\* The count is compared and the window left at dates of the rule only.
Exhausted ==
  \/ Ended
  \/ Yielded /\ (emitted = rule.count \/ At(Candidate) > window.to)

Skip ==
  /\ phase = "expanding" /\ ~Exhausted /\ ~Yielded
  /\ index' = index + 1
  /\ UNCHANGED <<inputs, phase, window, emitted, found, result>>

TakeCountingWindow ==  \* only the occurrences of the window count
  /\ phase = "expanding" /\ ~Exhausted /\ Yielded
  /\ index' = index + 1
  /\ emitted' = IF At(Candidate) >= window.from THEN emitted + 1 ELSE emitted
  /\ found' = IF At(Candidate) >= window.from THEN Append(found, At(Candidate)) ELSE found
  /\ UNCHANGED <<inputs, phase, window, result>>

\* Occurrences before the window consume the count too.
Take ==
  /\ phase = "expanding" /\ ~Exhausted /\ Yielded
  /\ index' = index + 1
  /\ emitted' = emitted + 1
  /\ found' = IF At(Candidate) >= window.from THEN Append(found, At(Candidate)) ELSE found
  /\ UNCHANGED <<inputs, phase, window, result>>

Leave ==
  /\ phase = "expanding" /\ Exhausted
  /\ phase' = "choosing"
  /\ UNCHANGED <<inputs, window, index, emitted, found, result>>

\* The queries leave out what is past, and times are compared across zones.
Absent(o) ==
  /\ ~Skewed(o)
  /\ \/ o \in excluded /\ Instant(o) >= now
     \/ o \in DOMAIN meetings /\ (Instant(o) >= now \/ meetings[o].at >= now)

BestMaterialized == {meetings[m].at : m \in Upcoming}

Answer(times) ==
  /\ result' = IF times = {} THEN Nothing ELSE Min(times)
  /\ phase' = "done"
  /\ UNCHANGED <<inputs, window, index, emitted, found>>

ChooseAny ==  \* an opened occurrence counts at its original start as well
  /\ phase = "choosing"
  /\ LET virtual == ToSet(found) \ excluded IN
     /\ found = <<>> \/ virtual # {}
     /\ Answer(BestMaterialized \cup (IF virtual = {} THEN {} ELSE {Instant(Min(virtual))}))

\* An empty window ends the search: the rule counts as exhausted.
Choose ==
  /\ phase = "choosing"
  /\ LET virtual == {o \in ToSet(found) : ~Absent(o)} IN
     /\ found = <<>> \/ virtual # {}
     /\ Answer(BestMaterialized \cup (IF virtual = {} THEN {} ELSE {Instant(Min(virtual))}))

SlideOnto ==  \* the next window starts with the last occurrence of this one
  /\ phase = "choosing" /\ found # <<>> /\ \A o \in ToSet(found) : Absent(o)
  /\ phase' = "expanding"
  /\ window' = [from |-> Last(found), to |-> Last(found) + Units * Horizon(DayOf(Last(found)))]
  /\ index' = 0 /\ emitted' = 0 /\ found' = <<>>
  /\ UNCHANGED <<inputs, result>>

Slide ==
  /\ phase = "choosing" /\ found # <<>> /\ \A o \in ToSet(found) : Absent(o)
  /\ phase' = "expanding"
  /\ window' = [from |-> Last(found) + 1,
                to |-> Last(found) + 1 + Units * Horizon(DayOf(Last(found)))]
  /\ index' = 0 /\ emitted' = 0 /\ found' = <<>>
  /\ UNCHANGED <<inputs, result>>

SearchNext == Skip \/ Take \/ Leave \/ Choose \/ Slide

Search == SearchInit /\ [][SearchNext]_searchVars /\ WF_searchVars(SearchNext)
-----------------------------------------------------------------------------
(* Properties *)

SearchTypeOK ==
  /\ rule \in Rules /\ now \in Int
  /\ excluded \cup DOMAIN meetings \subseteq FirstOccurrences[rule]
  /\ phase \in {"expanding", "choosing", "done"}
  /\ window.from <= window.to
  /\ index \in Nat /\ emitted \in 0 .. index
  /\ found \in Seq(Int)
  /\ result \in Int

\* What an expansion returns are the occurrences of the rule in its window,
\* in order: whatever the window, the generator neither drops nor invents a
\* date at the end of a month or a week, and the count covers what precedes
\* the window.
ExpansionExact ==
  /\ SearchTypeOK
  /\ phase = "choosing" =>
       /\ ToSet(found) = {o \in Occurrences : window.from <= o /\ o <= window.to}
       /\ \A n \in 2 .. Len(found) : found[n - 1] < found[n]

\* The rules whose dates can lie farther apart than the horizon: those of
\* the 31st, five or seven months modulo twelve apart.
Sparse ==
  /\ rule.frequency = "monthly" /\ DayIn(rule.start) = 30
  /\ rule.interval > 5 /\ rule.interval % 12 \in {5, 7}

\* The search answers with the earliest effective occurrence, and with none
\* only when there is none, unless the window of a sparse rule is empty or
\* the clocks change at an occurrence that is excluded or has a Meeting.
NextExact ==
  phase = "done" => \/ result = NextEffective
                    \/ Sparse /\ found = <<>>
                    \/ \E o \in excluded \cup DOMAIN meetings : Skewed(o)

\* The search ends for every rule, also for one without an end.
SearchEnds == <>(phase = "done")

\* _next_occurrence_horizon: a window of this length is guaranteed to contain
\* an occurrence when there still is one.
HorizonCovers ==
  phase = "choosing" /\ found = <<>> => \A o \in Occurrences : o < window.from
=============================================================================
