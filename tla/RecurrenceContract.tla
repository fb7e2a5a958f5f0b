------------------------- MODULE RecurrenceContract -------------------------
(***************************************************************************)
(* What the recurrence operations of meetings/services.py promise about    *)
(* one MeetingRecurrence, with every operation atomic: no transactions, no *)
(* row locks, no stale reads.  MeetingRecurrence is the same system as the *)
(* request handlers really execute it, and implements this contract.       *)
(*                                                                         *)
(* An occurrence is named by its original start, an instant of Time.  It   *)
(* is virtual until a Meeting is materialized from it.                     *)
(***************************************************************************)
EXTENDS Integers

CONSTANTS
  Time,        \* the instants of the model
  Occurrence,  \* the original starts the recurrence rule produces
  NoTime       \* terminated_at of an active recurrence (NULL)

VARIABLES
  status,        \* Meeting.status of an occurrence, "virtual" without a Meeting
  scheduled,     \* Meeting.scheduled_at, the occurrence itself while virtual
  excluded,      \* the occurrences with a MeetingRecurrenceExclusion row
  terminatedAt,  \* MeetingRecurrence.terminated_at
  template,      \* MeetingRecurrence.series is set
  now            \* the application clock

vars == <<status, scheduled, excluded, terminatedAt, template, now>>

Suppressed(t) == terminatedAt # NoTime /\ t >= terminatedAt

UpcomingFrom(t) ==
  {o \in Occurrence : status[o] = "upcoming" /\ scheduled[o] >= t}

Init ==
  /\ status = [o \in Occurrence |-> "virtual"]
  /\ scheduled = [o \in Occurrence |-> o]
  /\ excluded = {}
  /\ terminatedAt = NoTime
  /\ template = TRUE
  /\ now \in Time

\* A first materialization, at the original start or already moved to t.
Materialize(o, t) ==
  /\ status[o] = "virtual"
  /\ template
  /\ o \notin excluded
  /\ ~Suppressed(o)
  /\ t = o \/ ~Suppressed(t)
  /\ status' = [status EXCEPT ![o] = "upcoming"]
  /\ scheduled' = [scheduled EXCEPT ![o] = t]
  /\ UNCHANGED <<excluded, terminatedAt, template, now>>

Move(o, t) ==
  /\ status[o] # "virtual"
  /\ ~Suppressed(t)
  /\ scheduled' = [scheduled EXCEPT ![o] = t]
  /\ UNCHANGED <<status, excluded, terminatedAt, template, now>>

Exclude(o) ==
  /\ status[o] = "virtual"
  /\ ~Suppressed(o)
  /\ excluded' = excluded \cup {o}
  /\ UNCHANGED <<status, scheduled, terminatedAt, template, now>>

Cancel(o) ==
  /\ status[o] = "upcoming"
  /\ status' = [status EXCEPT ![o] = "cancelled"]
  /\ excluded' = excluded \cup {o}
  /\ UNCHANGED <<scheduled, terminatedAt, template, now>>

\* Termination settles every future upcoming Meeting in the same instant.
Terminate(t) ==
  /\ terminatedAt = NoTime
  /\ t <= now
  /\ terminatedAt' = t
  /\ status' = [o \in Occurrence |->
                  IF o \in UpcomingFrom(t) THEN "cancelled" ELSE status[o]]
  /\ excluded' = excluded \cup UpcomingFrom(t)
  /\ UNCHANGED <<scheduled, template, now>>

Lifecycle(o, from, to) ==
  /\ status[o] = from
  /\ status' = [status EXCEPT ![o] = to]
  /\ UNCHANGED <<scheduled, excluded, terminatedAt, template, now>>

DropTemplate ==
  /\ template' = FALSE
  /\ UNCHANGED <<status, scheduled, excluded, terminatedAt, now>>

Tick ==
  /\ now' \in {t \in Time : t > now}
  /\ UNCHANGED <<status, scheduled, excluded, terminatedAt, template>>

Next ==
  \/ \E o \in Occurrence, t \in Time : Materialize(o, t) \/ Move(o, t)
  \/ \E o \in Occurrence : Exclude(o) \/ Cancel(o)
  \/ \E t \in Time : Terminate(t)
  \/ \E o \in Occurrence :
       \/ Lifecycle(o, "upcoming", "live")
       \/ Lifecycle(o, "live", "completed")
       \/ Lifecycle(o, "completed", "live")
  \/ DropTemplate
  \/ Tick

Spec == Init /\ [][Next]_vars
=============================================================================
