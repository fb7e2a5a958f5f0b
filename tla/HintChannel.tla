---------------------------- MODULE HintChannel -----------------------------
(***************************************************************************)
(* What the realtime notifications of work_items/realtime.py and           *)
(* work-item-events.ts promise to a page that shows the Work Items of one  *)
(* Project.  Notifications carry no data: a signal only tells the page to  *)
(* fetch again.  From the commit of a change on, a signal is under way,    *)
(* and it arrives, unless the page is detached first or the server has     *)
(* suppressed a notification since the last signal.                        *)
(***************************************************************************)
CONSTANT Change  \* the changes of Work Items that can be committed

VARIABLES
  committed,  \* the changes in the database
  told,       \* what was committed when the page was last told to fetch
  attached,   \* a signed-in page listens
  underway,   \* a signal will follow
  excused     \* a notification was suppressed since the last signal

vars == <<committed, told, attached, underway, excused>>

Init ==
  /\ committed = {}
  /\ told = {}
  /\ attached = FALSE
  /\ underway = TRUE
  /\ excused = FALSE

Commit(c) ==
  /\ c \notin committed
  /\ committed' = committed \cup {c}
  /\ underway' = TRUE
  /\ UNCHANGED <<told, attached, excused>>

Signal ==
  /\ attached /\ underway
  /\ told' = committed
  /\ excused' = FALSE
  /\ underway' \in BOOLEAN
  /\ UNCHANGED <<committed, attached>>

\* A notification is suppressed, and perhaps it was the only one.
Excuse ==
  /\ underway
  /\ excused' = TRUE
  /\ underway' \in BOOLEAN
  /\ UNCHANGED <<committed, told, attached>>

\* A connection ends: the next one begins with a signal.
Reopen ==
  /\ underway' = TRUE
  /\ UNCHANGED <<committed, told, attached, excused>>

Toggle ==
  /\ attached' = ~attached
  /\ underway' = TRUE
  /\ UNCHANGED <<committed, told, excused>>

Next ==
  \/ \E c \in Change : Commit(c)
  \/ Signal \/ Excuse \/ Reopen \/ Toggle

\* The promise: a page that is attached, not excused and not up to date is
\* eventually signalled, or one of the three ends.
DueSignal == told # committed /\ ~excused /\ Signal

Spec == Init /\ [][Next]_vars /\ WF_vars(DueSignal)
=============================================================================
