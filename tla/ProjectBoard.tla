---------------------------- MODULE ProjectBoard ----------------------------
(***************************************************************************)
(* The Board of one Project in the browser (ProjectDetailPage.tsx):        *)
(* background fetches, invalidations of the event stream, optimistic drags *)
(* and the edits of the inspector, over the channel that HintChannel       *)
(* promises and EventStream implements.                                    *)
(*                                                                         *)
(* A Work Item list is the set of changes it reflects.  A change is made   *)
(* by somebody else or is one of the user's own drags, numbered as the     *)
(* page numbers them (workItemDropSequenceRef).                            *)
(***************************************************************************)
EXTENDS Integers

CONSTANTS
  Foreign,    \* changes that are no drag on this page
  Card,       \* the changes of the Work Item that the inspector shows
  MaxDrops,   \* bound: drags
  MaxVisits,  \* bound: how often the page turns to a Project
  MaxFaults   \* bound: requests that are lost

ASSUME BoundAssumption ==
  /\ MaxDrops \in Nat /\ MaxVisits \in Nat \ {0} /\ MaxFaults \in Nat
  /\ Foreign \cap (1 .. MaxDrops) = {}
  /\ Card \subseteq Foreign \cup (1 .. MaxDrops)

VARIABLES
  committed, told, attached, underway, excused,  \* see HintChannel
  here,        \* this Project is open, not another one
  generation,  \* workItemsProjectGenerationRef
  loaded,      \* workItemsLoadedProjectIdRef is this Project
  board,       \* apiWorkItems
  error,       \* workItemsError is shown
  requested,   \* workItemsRefreshKey has moved on, the effect has not run
  fetch,       \* the request of the latest effect
  inFlight,    \* workItemsFetchInFlightRef
  held,        \* workItemsRealtimePendingRef
  seq,         \* workItemDropSequenceRef
  drop,        \* per drag: its request, its snapshot and its generation
  origin,      \* workItemDropRevalidationOriginRef
  debt,        \* workItemDropReconciliationNeededRef
  patch,       \* the request of the inspector, one at a time: patchQueueRef
  faults,
  suspect,     \* an answer met a drag, or an older one of the inspector a
               \* newer card, since the last fetch that met none
  created      \* the latest drag when a Work Item was created on this page

channel == <<committed, told, attached, underway, excused>>
view == <<here, generation, loaded, board, error>>
refresh == <<requested, fetch, inFlight, held>>
drags == <<seq, drop, origin, debt>>
history == <<suspect, created>>
vars == <<channel, view, refresh, drags, patch, faults, history>>

Drop == 1 .. MaxDrops
Change == Foreign \cup Drop

Channel == INSTANCE HintChannel

NoFetch == [state |-> "none", items |-> {}, seq |-> 0, origin |-> 0,
            initial |-> FALSE]

NoPatch == [state |-> "none", change |-> 0, card |-> {}]

\* Nothing of a drag is kept once its callbacks have run.
Settled == [state |-> "settled", snapshot |-> {}, generation |-> 0]

Pending == {d \in Drop : drop[d].state \notin {"none", "settled"}}

TypeOK ==
  /\ committed \subseteq Change /\ told \subseteq Change
  /\ attached \in BOOLEAN /\ underway \in BOOLEAN /\ excused \in BOOLEAN
  /\ here \in BOOLEAN /\ generation \in 1 .. MaxVisits
  /\ loaded \in BOOLEAN /\ error \in BOOLEAN
  /\ board \subseteq Change /\ (~loaded => board = {})
  /\ requested \in BOOLEAN /\ inFlight \in BOOLEAN /\ held \in BOOLEAN
  /\ fetch \in [state : {"none", "sent", "answered"},
                items : SUBSET Change, seq : 0 .. MaxDrops,
                origin : 0 .. MaxDrops, initial : BOOLEAN]
  /\ (here /\ fetch.state # "none") => inFlight
  /\ seq \in 0 .. MaxDrops /\ origin \in 0 .. seq /\ debt \in BOOLEAN
  /\ drop \in [Drop -> [state : {"none", "sent", "done", "settled"},
                        snapshot : SUBSET Change,
                        generation : 0 .. MaxVisits]]
  /\ \A d \in Drop : drop[d].state = "none" <=> d > seq
  /\ patch \in [state : {"none", "sent", "done"},
                change : Foreign \cup {0}, card : SUBSET Card]
  /\ faults \in 0 .. MaxFaults
  /\ suspect \in BOOLEAN /\ created \in 0 .. seq

Init ==
  /\ Channel!Init
  /\ here = TRUE /\ generation = 1
  /\ loaded = FALSE /\ board = {} /\ error = FALSE
  /\ requested = TRUE /\ fetch = NoFetch /\ inFlight = FALSE /\ held = FALSE
  /\ seq = 0 /\ origin = 0 /\ debt = FALSE
  /\ drop = [d \in Drop |-> [state |-> "none", snapshot |-> {},
                             generation |-> 0]]
  /\ patch = NoPatch
  /\ faults = 0
  /\ suspect = FALSE /\ created = 0

Fault == faults < MaxFaults /\ faults' = faults + 1

-----------------------------------------------------------------------------
(* The channel *)

CommitForeign(c) ==
  /\ c # patch.change
  /\ Channel!Commit(c)
  /\ UNCHANGED <<view, refresh, drags, patch, faults, history>>

ChannelStep ==
  /\ Channel!Excuse \/ Channel!Reopen \/ Channel!Toggle
  /\ UNCHANGED <<view, refresh, drags, patch, faults, history>>

\* Faulty variant: an invalidation during a fetch or a drag is dropped.
InvalidateOrDrop ==
  /\ requested' = (requested \/ (~inFlight /\ Pending = {}))
  /\ UNCHANGED <<fetch, inFlight, held>>

\* requestWorkItemsRealtimeInvalidation
Invalidate ==
  /\ IF inFlight \/ Pending # {}
     THEN held' = TRUE /\ UNCHANGED requested
     ELSE requested' = TRUE /\ UNCHANGED held
  /\ UNCHANGED <<fetch, inFlight>>

\* A frame for another Project than the open one is ignored.
Hint ==
  /\ Channel!Signal
  /\ IF here THEN Invalidate ELSE UNCHANGED refresh
  /\ UNCHANGED <<view, drags, patch, faults, history>>

\* flushWorkItemsRealtimeInvalidation, next to what else asks for a refresh.
Flush(busy, asked) ==
  /\ requested' = (requested \/ asked \/ (held /\ ~busy))
  /\ held' = (held /\ busy)

-----------------------------------------------------------------------------
(* The fetch effect *)

\* The effect of a new refresh key: it cancels the previous request.
StartFetch ==
  /\ here /\ requested
  /\ requested' = FALSE
  /\ fetch' = [state |-> "sent", items |-> {}, seq |-> seq,
               origin |-> origin, initial |-> ~loaded]
  /\ inFlight' = TRUE
  /\ error' = FALSE
  /\ UNCHANGED <<channel, here, generation, loaded, board, held, drags,
                 patch, faults, history>>

AnswerFetch ==
  /\ fetch.state = "sent"
  /\ fetch' = [fetch EXCEPT !.state = "answered", !.items = committed]
  /\ UNCHANGED <<channel, view, requested, inFlight, held, drags, patch,
                 faults, history>>

\* Faulty variant: only drags begun after the request count.
UsableWhilePending == fetch.seq = seq

\* The answer may touch the Board: no newer drag has begun, none newer than
\* the trigger of the request is pending.
Usable ==
  /\ fetch.seq = seq
  /\ fetch.initial \/ \A d \in Pending : d <= fetch.origin

\* The .finally of the request, whatever became of it.
FetchEnds ==
  /\ fetch' = NoFetch
  /\ inFlight' = FALSE
  /\ Flush(Pending # {}, FALSE)
  /\ UNCHANGED <<channel, here, generation, seq, drop, origin, patch, created>>

SettleFetch ==
  /\ fetch.state = "answered"
  /\ IF Usable
     THEN board' = fetch.items /\ loaded' = TRUE /\ debt' = FALSE
     ELSE UNCHANGED <<board, loaded, debt>>
  /\ suspect' = (~Usable \/ Pending # {})
  /\ FetchEnds
  /\ UNCHANGED <<error, faults>>

\* The request or its answer is lost.
FailFetch ==
  /\ fetch.state = "sent" /\ Fault
  /\ error' = (error \/ Usable)
  /\ suspect' = (suspect \/ ~Usable \/ Pending # {})
  /\ FetchEnds
  /\ UNCHANGED <<board, loaded, debt>>

\* WORK_ITEM_CREATED_EVENT, once the request that creates the item is done.
CreateHere(c) ==
  /\ here /\ c # patch.change
  /\ Channel!Commit(c)
  /\ origin' = seq
  /\ created' = seq
  /\ requested' = TRUE
  /\ UNCHANGED <<view, fetch, inFlight, held, seq, drop, debt, patch,
                 faults, suspect>>

-----------------------------------------------------------------------------
(* handleWorkItemStatusDrop *)

Drag ==
  LET d == seq + 1 IN
  /\ here /\ loaded
  /\ seq < MaxDrops
  /\ seq' = d
  /\ drop' = [drop EXCEPT ![d] = [state |-> "sent", snapshot |-> board,
                                  generation |-> generation]]
  /\ board' = board \cup {d}
  /\ UNCHANGED <<channel, here, generation, loaded, error, refresh, origin,
                 debt, patch, faults, history>>

\* The server moves the card.
CommitDrop(d) ==
  /\ drop[d].state = "sent"
  /\ Channel!Commit(d)
  /\ drop' = [drop EXCEPT ![d].state = "done"]
  /\ UNCHANGED <<view, refresh, seq, origin, debt, patch, faults, history>>

\* The page has turned away since the drag; whoever waited for it still waits.
Abandoned(d) ==
  /\ drop[d].generation # generation
  /\ suspect' = (suspect \/ held)
  /\ UNCHANGED <<board, requested, held, origin, debt>>

DropSucceeds(d) ==
  /\ drop[d].state = "done"
  /\ drop' = [drop EXCEPT ![d] = Settled]
  /\ \/ Abandoned(d)
     \/ /\ drop[d].generation = generation
        /\ origin' = d
        /\ Flush(inFlight \/ Pending # {d}, TRUE)
        /\ UNCHANGED <<board, debt, suspect>>
  /\ UNCHANGED <<channel, here, generation, loaded, error, fetch, inFlight,
                 seq, patch, faults, created>>

\* Faulty variant: a failure among others leaves no debt.
DebtForgotten(d) == debt

\* What a failed drag leaves to be reconciled when the last one settles.
DebtAfter(d) == debt \/ Pending # {d}

\* The server refuses, or the request or its answer is lost.
\* Only the newest drag rolls the Board back, to what it looked like before.
DropFails(d) ==
  /\ \/ drop[d].state = "sent" /\ UNCHANGED faults
     \/ drop[d].state = "done" /\ Fault
  /\ drop' = [drop EXCEPT ![d] = Settled]
  /\ \/ Abandoned(d)
     \/ LET owes == Pending = {d} /\ DebtAfter(d) IN
        /\ drop[d].generation = generation
        /\ debt' = DebtAfter(d)
        /\ board' = IF d = seq THEN drop[d].snapshot ELSE board
        /\ origin' = IF owes THEN seq ELSE origin
        /\ Flush(inFlight \/ Pending # {d}, owes)
        /\ UNCHANGED suspect
  /\ UNCHANGED <<channel, here, generation, loaded, error, fetch, inFlight,
                 seq, patch, created>>

-----------------------------------------------------------------------------
(* The inspector (handlePatchWorkItem); its queue sends one PATCH at a time *)

BeginPatch(c) ==
  /\ here /\ loaded
  /\ patch = NoPatch /\ c \in Card \ committed
  /\ patch' = [patch EXCEPT !.state = "sent", !.change = c]
  /\ error' = FALSE
  /\ UNCHANGED <<channel, here, generation, loaded, board, refresh, drags,
                 faults, history>>

\* The server answers with the Work Item.
CommitPatch ==
  /\ patch.state = "sent"
  /\ Channel!Commit(patch.change)
  /\ patch' = [patch EXCEPT !.state = "done", !.card = committed' \cap Card]
  /\ UNCHANGED <<view, refresh, drags, faults, history>>

\* The answer replaces the card the Board has by now.
PatchSucceeds ==
  /\ patch.state = "done"
  /\ IF loaded
     THEN /\ board' = (board \ Card) \cup patch.card
          /\ suspect' = (suspect \/ ~(board \subseteq board'))
     ELSE UNCHANGED <<board, suspect>>
  /\ patch' = NoPatch
  /\ UNCHANGED <<channel, here, generation, loaded, error, refresh, drags,
                 faults, created>>

\* The server refuses, or the request or its answer is lost.
PatchFails ==
  /\ \/ patch.state = "sent" /\ UNCHANGED faults
     \/ patch.state = "done" /\ Fault
  /\ error' = TRUE
  /\ patch' = NoPatch
  /\ UNCHANGED <<channel, here, generation, loaded, board, refresh, drags,
                 history>>

-----------------------------------------------------------------------------
(* Turning to another Project and back.  What the page does there only     *)
(* shows in the fetch flag; the drags under way are of another generation  *)
(* from now on, and never roll back.                                       *)

Turn ==
  /\ generation < MaxVisits
  /\ generation' = generation + 1
  /\ here' = ~here
  /\ loaded' = FALSE /\ board' = {} /\ error' = FALSE
  /\ debt' = FALSE /\ held' = FALSE
  /\ requested' = here'
  /\ fetch' = NoFetch
  /\ inFlight' \in BOOLEAN
  /\ drop' = [d \in Drop |-> IF d \in Pending
                             THEN [Settled EXCEPT !.state = drop[d].state] ELSE drop[d]]
  /\ suspect' = FALSE /\ created' = 0
  /\ UNCHANGED <<channel, seq, origin, patch, faults>>

-----------------------------------------------------------------------------

Settle(d) == DropSucceeds(d) \/ DropFails(d)

Next ==
  \/ \E c \in Foreign : CommitForeign(c) \/ CreateHere(c) \/ BeginPatch(c)
  \/ CommitPatch \/ PatchSucceeds \/ PatchFails
  \/ ChannelStep \/ Hint
  \/ StartFetch \/ AnswerFetch \/ SettleFetch \/ FailFetch
  \/ Drag
  \/ \E d \in Drop : CommitDrop(d) \/ Settle(d)
  \/ Turn

\* Requests are answered, callbacks and effects run, and the channel keeps
\* its promise.  Nobody has to drag, create, commit or turn.
Fairness ==
  /\ WF_vars(told # committed /\ ~excused /\ Hint)
  /\ WF_vars(StartFetch)
  /\ WF_vars(AnswerFetch \/ SettleFetch \/ FailFetch)
  /\ \A d \in Drop : WF_vars(CommitDrop(d) \/ Settle(d))
  /\ WF_vars(CommitPatch \/ PatchSucceeds \/ PatchFails)

Spec == Init /\ [][Next]_vars /\ Fairness

-----------------------------------------------------------------------------
(* Properties *)

\* The Board is of this Project, the channel promises a signal and no error
\* tells the user that the Board may be old.
Watching == here /\ attached /\ ~excused /\ ~error

\* A signal is promised, or a fetch, a drag or a PATCH will still settle.
Coming ==
  \/ told # committed \/ requested
  \/ fetch.state # "none" \/ Pending # {} \/ patch # NoPatch

\* The Board forgets no change, except around a drag that fails after an
\* answer was skipped for it, or that is abandoned while a signal is held, and
\* where the answer of a PATCH is older than the card it replaces.
NothingForgotten ==
  /\ TypeOK
  /\ Watching => (board = committed \/ Coming \/ suspect)

\* Liveness of the same: however often the two part, the Board is again and
\* again what the server has.
Converges == []<>(Watching => (board = committed \/ suspect))

\* An answer never takes the newest drag off the Board while its request is
\* pending, unless the user created an item meanwhile; nor does anything
\* else but its failure and the answer of a PATCH of the same card.
NewestDragKept ==
  [][ (seq \in Pending /\ seq \in board /\ seq \notin board')
      => \/ generation' # generation
         \/ drop'[seq].state = "settled"
         \/ created = seq
         \/ seq \in Card /\ patch.state = "done" /\ patch' = NoPatch ]_vars
=============================================================================
