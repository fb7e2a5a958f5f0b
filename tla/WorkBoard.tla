----------------------------- MODULE WorkBoard -----------------------------
(***************************************************************************)
(* The two orders of one Project's Work Items, their statuses and the      *)
(* configuration they refer to:                                            *)
(*   - the Project board: one order per status category                    *)
(*     (work_items/services.py, WorkItem.board_position);                  *)
(*   - the My Work board of one user: personal rows (category, position)   *)
(*     (work_items/my_work_board_order.py, MyWorkBoardPosition);           *)
(*   - the status and type definitions (projects/configuration_services).  *)
(*                                                                         *)
(* Workers are requests.  A Project writer takes the Project row and the   *)
(* Work Item rows it changes, and references the user's row when it        *)
(* commits (history event, assignment).  A My Work move takes the user's   *)
(* row first, the Project only when its snapshot of the Work Item says     *)
(* that the category changes, and reads its column before it writes it.    *)
(* A Work Item is the number of its creation, a definition the number of   *)
(* its configured order; "todo" and "done" are the categories of the code  *)
(* that some rule names.                                                   *)
(***************************************************************************)
EXTENDS Integers, FiniteSets, Sequences, SequencesExt

CONSTANTS Item, Status, Type, Category, Worker,
          NoOne,          \* not a worker: a free row
          Seeded,         \* the Work Items at the start
          Definitions,    \* the status definitions at the start
          MaxRequests     \* bound: requests begun

ASSUME ConfigurationAssumption ==
    /\ Item = 1..Cardinality(Item) /\ IsFiniteSet(Item)
    /\ Status \subseteq Nat \ {0} /\ 1 \in Status
    /\ {"todo", "done"} \subseteq Category /\ "none" \notin Category
    /\ NoOne \notin Worker
    /\ Seeded \subseteq Item
    /\ DOMAIN Definitions \subseteq Status /\ {1, 2} \subseteq DOMAIN Definitions
    /\ Definitions \in [DOMAIN Definitions ->
                          [category : Category, active : BOOLEAN, default : BOOLEAN]]
    /\ \E d \in DOMAIN Definitions :
          /\ Definitions[d] = [category |-> "todo", active |-> TRUE, default |-> TRUE]
          /\ \A e \in DOMAIN Definitions : Definitions[e].default => e = d
    /\ Type # {}
    /\ MaxRequests \in Nat

VARIABLES items,          \* the Work Items that exist
          statusOf,       \* their status definition
          boardPosition,  \* board_position, 0 for NULL
          completed,      \* the Work Items with completed_at
          mine,           \* the user's My Work projection
          personal,       \* the user's MyWorkBoardPosition rows
          status,         \* the status definitions
          types,          \* the active type definitions
          retiring,       \* deactivations of types that have counted
          overlapped,     \* history: two of them counted before a commit
          userRow, projectRow, phase, job, requests

board == <<items, statusOf, boardPosition, completed>>
types_ == <<types, retiring, overlapped>>
requests_ == <<phase, job, requests>>
vars == <<board, mine, personal, status, types_, userRow, projectRow, requests_>>
-----------------------------------------------------------------------------
Absent == 0        \* no anchor, no Work Item
NoRow == [category |-> "none", position |-> 0]
Request(kind, i, d, c) == [kind |-> kind, item |-> i, to |-> "none", before |-> Absent,
                           def |-> d, cites |-> c, order |-> <<>>]
NoJob == Request("none", Absent, 0, FALSE)
Unwritten == [category |-> "none", active |-> FALSE, default |-> FALSE]

CategoryOf(i) == status[statusOf[i]].category
Column(c) == {i \in items : CategoryOf(i) = c}

(* ORDER BY position ASC NULLS LAST, created_at, id *)
Unplaced == Cardinality(Item) + 1
Before(key, i, j) == key[i] < key[j] \/ (key[i] = key[j] /\ i < j)
Rank(S, key, i) == Cardinality({j \in S : Before(key, j, i)}) + 1
RenderedByCreation(S, key) ==  \* the positions ignored
    [n \in 1..Cardinality(S) |-> CHOOSE i \in S : Cardinality({j \in S : j < i}) + 1 = n]
Rendered(S, key) == [n \in 1..Cardinality(S) |-> CHOOSE i \in S : Rank(S, key, i) = n]

BoardKey == [i \in Item |-> IF boardPosition[i] = 0 THEN Unplaced ELSE boardPosition[i]]
(* a personal row applies only in the category it was written for *)
PersonalKey == [i \in Item |-> IF i \in items /\ personal[i].category = CategoryOf(i)
                               THEN personal[i].position ELSE Unplaced]
PersonalColumn(c) == Rendered(Column(c) \cap mine, PersonalKey)

PlaceIn(column, i) == SelectInSeq(column, LAMBDA j : j = i)
(* a column with the item inserted before the anchor, or at its end *)
Inserted(column, i, anchor) ==
    IF anchor = Absent THEN Append(column, i)
    ELSE InsertAt(column, PlaceIn(column, anchor), i)
Numbered(column) == [i \in Item |-> IF i \in ToSet(column) THEN PlaceIn(column, i)
                                                           ELSE boardPosition[i]]

(* completed_at is set on entering "done" and cleared on leaving it *)
CompletedAfter(i, d) == IF status[d].category = "done" THEN completed \cup {i}
                                                        ELSE completed \ {i}

(* resolve_my_work_status_target: the first active definition *)
Targets(c) == {d \in Status : status[d].category = c /\ status[d].active}
FirstTarget(c) == CHOOSE d \in Targets(c) : \A e \in Targets(c) : d <= e
-----------------------------------------------------------------------------
TypeOK ==
    /\ items \subseteq Item /\ completed \subseteq items /\ mine \subseteq items
    /\ statusOf \in [Item -> Status]
    /\ boardPosition \in [Item -> 0..Cardinality(Item)]
    /\ personal \in [Item -> [category : Category \cup {"none"}, position : 0..Cardinality(Item)]]
    /\ status \in [Status -> [category : Category \cup {"none"}, active : BOOLEAN, default : BOOLEAN]]
    /\ retiring \subseteq types /\ types \subseteq Type /\ overlapped \in BOOLEAN
    /\ {userRow, projectRow} \subseteq Worker \cup {NoOne}
    /\ phase \in [Worker -> {"idle", "begun", "user", "reading", "writing", "project"}]
    /\ requests \in 0..MaxRequests

(* A Project with its configuration, whose Work Items are the user's and   *)
(* have not been dragged yet.                                              *)
Init ==
    /\ items = Seeded /\ mine = Seeded
    /\ status = [d \in Status |-> IF d \in DOMAIN Definitions THEN Definitions[d] ELSE Unwritten]
    /\ statusOf \in {f \in [Item -> {1, 2}] : \A i \in Item \ Seeded : f[i] = 1}
    /\ completed = {i \in items : CategoryOf(i) = "done"}
    /\ boardPosition = [i \in Item |-> 0]
    /\ personal = [i \in Item |-> NoRow]
    /\ types = Type /\ retiring = {} /\ overlapped = FALSE
    /\ userRow = NoOne /\ projectRow = NoOne
    /\ phase = [w \in Worker |-> "idle"]
    /\ job = [w \in Worker |-> NoJob]
    /\ requests = 0
-----------------------------------------------------------------------------
Begin(w) == /\ phase[w] = "idle" /\ requests < MaxRequests
            /\ requests' = requests + 1

Work(w, p, j) == phase' = [phase EXCEPT ![w] = p] /\ job' = [job EXCEPT ![w] = j]

(* commit or rollback: the rows of the transaction are free again *)
Return(w) ==
    /\ userRow' = IF userRow = w THEN NoOne ELSE userRow
    /\ projectRow' = IF projectRow = w THEN NoOne ELSE projectRow
    /\ Work(w, "idle", NoJob)
    /\ UNCHANGED requests

RollbackKeepsUser(w) ==  \* the user's row outlives a failed transaction
    /\ projectRow' = IF projectRow = w THEN NoOne ELSE projectRow
    /\ Work(w, "idle", NoJob)
    /\ UNCHANGED <<board, mine, personal, status, types_, userRow, requests>>

Rollback(w) == Return(w) /\ UNCHANGED <<board, mine, personal, status, types_>>

(* the Work Item rows a Project writer holds FOR UPDATE *)
ItemRows(w) ==
    IF phase[w] # "project" THEN {}
    ELSE {job[w].item} \cup
         IF job[w].kind = "drag" THEN Column(status[job[w].def].category) ELSE {}
-----------------------------------------------------------------------------
(* Project writers *)

(* A request takes the Project row, then the rows of the Work Items it     *)
(* changes.  It cites the user when the user is its actor or is assigned   *)
(* by it: those foreign keys are checked at its commit.                    *)
LockProject(w, j) ==
    /\ Begin(w)
    /\ projectRow = NoOne
    /\ projectRow' = w
    /\ Work(w, "project", j)
    /\ UNCHANGED <<board, mine, personal, status, types_, userRow>>

StartItemWrite(w) ==
    \E kind \in {"drag", "transition", "edit", "assign"}, i \in items,
       d \in {e \in Status : status[e] # Unwritten}, c \in BOOLEAN :
        /\ kind = "assign" => d = statusOf[i]
        /\ LockProject(w, Request(kind, i, d, c))

StartCreate(w) ==
    \E i \in Item, d \in {e \in Status : status[e] # Unwritten}, c \in BOOLEAN :
        /\ i \notin items /\ \A j \in items : j < i
        /\ LockProject(w, Request("create", i, d, c))

StartSettings(w) ==
    \E d \in Status : LockProject(w, Request("settings", Absent, d, FALSE))

(* the check of a foreign key to the user waits for a move of the user *)
MayCommit(w, kind) ==
    /\ phase[w] = "project" /\ job[w].kind = kind
    /\ job[w].cites => userRow = NoOne

(* reposition_work_item: the status changes only between categories, and   *)
(* only to an active definition; the whole column is numbered.             *)
Reposition(w) ==
    LET i == job[w].item
        c == status[job[w].def].category
        column == Rendered(Column(c) \ {i}, BoardKey)
    IN /\ MayCommit(w, "drag")
       /\ c = CategoryOf(i) \/ status[job[w].def].active
       /\ \E anchor \in ToSet(column) \cup {Absent} :
            boardPosition' = Numbered(Inserted(column, i, anchor))
       /\ IF c = CategoryOf(i) THEN UNCHANGED <<statusOf, completed>>
          ELSE /\ statusOf' = [statusOf EXCEPT ![i] = job[w].def]
               /\ completed' = CompletedAfter(i, job[w].def)
       /\ Return(w)
       /\ UNCHANGED <<items, mine, personal, status, types_>>

(* transition_work_item_status keeps the position in the Project board *)
Transition(w) ==
    /\ MayCommit(w, "transition")
    /\ status[job[w].def].active
    /\ statusOf' = [statusOf EXCEPT ![job[w].item] = job[w].def]
    /\ completed' = CompletedAfter(job[w].item, job[w].def)
    /\ Return(w)
    /\ UNCHANGED <<items, boardPosition, mine, personal, status, types_>>

(* update_work_item with a status: to the end of the numbered column, even *)
(* to an inactive definition or within the category.                       *)
EditStatus(w) ==
    LET i == job[w].item
        d == job[w].def
        column == Rendered(Column(status[d].category) \ {i}, BoardKey)
    IN /\ MayCommit(w, "edit")
       /\ boardPosition' = IF d = statusOf[i] THEN boardPosition
                           ELSE Numbered(Append(column, i))
       /\ statusOf' = [statusOf EXCEPT ![i] = d]
       /\ completed' = CompletedAfter(i, d)
       /\ Return(w)
       /\ UNCHANGED <<items, mine, personal, status, types_>>

(* update_work_item with assignees: the Work Item enters or leaves the     *)
(* projection of the user, whose personal row stays.                       *)
Assign(w) ==
    /\ MayCommit(w, "assign")
    /\ mine' \in {mine \cup {job[w].item}, mine \ {job[w].item}}
    /\ job[w].item \in mine' \ mine => job[w].cites
    /\ Return(w)
    /\ UNCHANGED <<board, personal, status, types_>>

(* create_work_item: the requested definition, not positioned *)
CreateItem(w) ==
    LET i == job[w].item IN
    /\ MayCommit(w, "create")
    /\ items' = items \cup {i}
    /\ statusOf' = [statusOf EXCEPT ![i] = job[w].def]
    /\ completed' = CompletedAfter(i, job[w].def)
    /\ mine' \in {mine, mine \cup {i}}
    /\ i \in mine' => job[w].cites
    /\ Return(w)
    /\ UNCHANGED <<boardPosition, personal, status, types_>>

(* a domain error or a lost permission, found under the lock *)
Refuse(w) ==
    /\ phase[w] = "project"
    /\ Rollback(w)
-----------------------------------------------------------------------------
(* Configuration *)

(* create_status_definition: a new default replaces the old one *)
CreateStatusDefinition(w) ==
    LET d == job[w].def IN
    /\ MayCommit(w, "settings") /\ status[d] = Unwritten
    /\ \E c \in Category, def \in BOOLEAN :
        /\ def => c = "todo"
        /\ status' = [e \in Status |->
              IF e = d THEN [category |-> c, active |-> TRUE, default |-> def]
              ELSE [status[e] EXCEPT !.default = @ /\ ~(def /\ status[e].active)]]
    /\ Return(w)
    /\ UNCHANGED <<board, mine, personal, types_>>

(* The checks of update_status_definition, in its order: category, then    *)
(* default, then activity; "keep" is a field the request leaves out.       *)
Keep == "keep"
CategoryAllowedLate(d, c) ==  \* the rule for the default is left to the later branches
    c # Keep => \A i \in items : statusOf[i] # d

CategoryAllowed(d, c) ==
    c # Keep => /\ \A i \in items : statusOf[i] # d
                /\ status[d].active /\ status[d].default => c = "todo"
DefaultAllowed(d, c, makeDefault, activity) ==
    IF makeDefault = "yes"
    THEN /\ (IF c = Keep THEN status[d].category ELSE c) = "todo"
         /\ activity = "yes" \/ (activity = Keep /\ status[d].active)
    ELSE makeDefault = "no" => ~status[d].default
ActivityAllowed(d, makeDefault, activity) ==
    activity = "no" => ~status[d].default /\ makeDefault # "yes"

UpdateStatusDefinition(w) ==
    LET d == job[w].def IN
    /\ MayCommit(w, "settings") /\ status[d] # Unwritten
    /\ \E c \in Category \cup {Keep}, makeDefault, activity \in {Keep, "yes", "no"} :
        /\ CategoryAllowed(d, c)
        /\ DefaultAllowed(d, c, makeDefault, activity)
        /\ ActivityAllowed(d, makeDefault, activity)
        /\ status' = [e \in Status |->
              IF e = d
              THEN [category |-> IF c = Keep THEN status[d].category ELSE c,
                    active |-> activity = "yes" \/ (activity = Keep /\ status[d].active),
                    default |-> makeDefault = "yes" \/ status[d].default]
              ELSE [status[e] EXCEPT !.default =
                       @ /\ ~(makeDefault = "yes" /\ status[e].active)]]
    /\ Return(w)
    /\ UNCHANGED <<board, mine, personal, types_>>

CountTypesOfNone(t) ==  \* off by one: the last type is counted with its own
    /\ requests < MaxRequests /\ requests' = requests + 1
    /\ t \in types \ retiring /\ Cardinality(types) > 0
    /\ overlapped' = (overlapped \/ retiring # {})
    /\ retiring' = retiring \cup {t}
    /\ UNCHANGED <<board, mine, personal, status, types, userRow, projectRow, phase, job>>

(* update_type_definition holds only the row of its own definition *)
CountTypes(t) ==
    /\ requests < MaxRequests /\ requests' = requests + 1
    /\ t \in types \ retiring /\ Cardinality(types) > 1
    /\ overlapped' = (overlapped \/ retiring # {})
    /\ retiring' = retiring \cup {t}
    /\ UNCHANGED <<board, mine, personal, status, types, userRow, projectRow, phase, job>>

DeactivateType(t) ==
    /\ t \in retiring
    /\ types' = types \ {t} /\ retiring' = retiring \ {t}
    /\ UNCHANGED <<board, mine, personal, status, overlapped, userRow, projectRow, requests_>>

ActivateType(t) ==
    /\ requests < MaxRequests /\ requests' = requests + 1
    /\ t \notin types
    /\ types' = types \cup {t}
    /\ UNCHANGED <<board, mine, personal, status, retiring, overlapped,
                   userRow, projectRow, phase, job>>
-----------------------------------------------------------------------------
(* A My Work move *)

(* the view and the pre-flight check of move_my_work_item, before the      *)
(* transaction: the category in this snapshot decides which rows it locks  *)
BeginMove(w) ==
    \E i \in items \cap mine, c \in Category, anchor \in (items \cap mine) \cup {Absent} :
        /\ Begin(w)
        /\ anchor # i
        /\ anchor # Absent => CategoryOf(anchor) = c
        /\ CategoryOf(i) # c => Targets(c) # {}
        /\ Work(w, "begun", [kind |-> IF CategoryOf(i) = c THEN "reorder" ELSE "cross",
                             item |-> i, to |-> c, before |-> anchor,
                             def |-> 0, cites |-> FALSE, order |-> <<>>])
        /\ UNCHANGED <<board, mine, personal, status, types_, userRow, projectRow>>

LockUserShared(w) ==  \* the user's row does not serialize the moves
    /\ phase[w] = "begun"
    /\ userRow' = w
    /\ Work(w, IF job[w].kind = "cross" THEN "user" ELSE "reading", job[w])
    /\ UNCHANGED <<board, mine, personal, status, types_, projectRow, requests>>

LockUser(w) ==
    /\ phase[w] = "begun" /\ userRow = NoOne
    /\ userRow' = w
    /\ Work(w, IF job[w].kind = "cross" THEN "user" ELSE "reading", job[w])
    /\ UNCHANGED <<board, mine, personal, status, types_, projectRow, requests>>

(* Under the Project lock the projection, the category and the target are  *)
(* read again; the transition waits in the transaction.                    *)
LockMoveProject(w) ==
    LET i == job[w].item
        c == job[w].to
    IN /\ phase[w] = "user" /\ projectRow = NoOne
       /\ IF i \notin items \cap mine \/ (CategoryOf(i) # c /\ Targets(c) = {})
          THEN Rollback(w)
          ELSE /\ projectRow' = w
               /\ Work(w, "reading", [job[w] EXCEPT !.def =
                     IF CategoryOf(i) = c THEN statusOf[i] ELSE FirstTarget(c)])
               /\ UNCHANGED <<board, mine, personal, status, types_, userRow, requests>>

(* _user_column and the place of the item in it; the snapshot's category   *)
(* stays decisive for a reorder                                            *)
ReadColumn(w) ==
    LET i == job[w].item
        column == Rendered((Column(job[w].to) \cap mine) \ {i}, PersonalKey)
    IN /\ phase[w] = "reading"
       /\ IF \/ i \notin items \cap mine
             \/ job[w].before # Absent /\ job[w].before \notin ToSet(column)
          THEN Rollback(w)
          ELSE /\ Work(w, "writing", [job[w] EXCEPT !.order = Inserted(column, i, job[w].before)])
               /\ UNCHANGED <<board, mine, personal, status, types_, userRow, projectRow, requests>>

(* a new row needs the key of its Work Item, which a Project writer holds  *)
KeysFree(w) ==
    \A i \in ToSet(job[w].order) : personal[i] = NoRow =>
        \A v \in Worker \ {w} : i \notin ItemRows(v)

WriteColumnCreating(w) ==  \* get_or_create: a row that exists keeps its position
    LET i == job[w].item
        column == job[w].order
    IN /\ phase[w] = "writing" /\ KeysFree(w)
       /\ ToSet(column) \subseteq items
       /\ personal' = [j \in Item |->
             IF j \in ToSet(column) /\ personal[j] = NoRow
             THEN [category |-> job[w].to, position |-> PlaceIn(column, j)]
             ELSE personal[j]]
       /\ IF job[w].kind = "reorder" THEN UNCHANGED <<statusOf, completed>>
          ELSE /\ statusOf' = [statusOf EXCEPT ![i] = job[w].def]
               /\ completed' = CompletedAfter(i, job[w].def)
       /\ Return(w)
       /\ UNCHANGED <<items, boardPosition, mine, status, types_>>

(* The column is numbered in the user's rows and the transition commits;   *)
(* a row for a deleted Work Item fails the transaction.                    *)
WriteColumn(w) ==
    LET i == job[w].item
        column == job[w].order
    IN /\ phase[w] = "writing" /\ KeysFree(w)
       /\ ToSet(column) \subseteq items
       /\ personal' = [j \in Item |->
             IF j \in ToSet(column) THEN [category |-> job[w].to, position |-> PlaceIn(column, j)]
                                    ELSE personal[j]]
       /\ IF job[w].kind = "reorder" THEN UNCHANGED <<statusOf, completed>>
          ELSE /\ statusOf' = [statusOf EXCEPT ![i] = job[w].def]
               /\ completed' = CompletedAfter(i, job[w].def)
       /\ Return(w)
       /\ UNCHANGED <<items, boardPosition, mine, status, types_>>

RowMissing(w) ==
    /\ phase[w] = "writing" /\ ~(ToSet(job[w].order) \subseteq items)
    /\ Rollback(w)
-----------------------------------------------------------------------------
(* delete_work_item takes no Project lock; it waits for the holders of the *)
(* Work Item's row and of the personal rows that go with it.               *)
DeleteItem(i) ==
    /\ requests < MaxRequests /\ requests' = requests + 1
    /\ i \in items
    /\ \A w \in Worker :
        /\ i \notin ItemRows(w)
        /\ ~(projectRow = w /\ job[w].item = i)
        /\ phase[w] = "writing" /\ personal[i].category = job[w].to
           => i \notin ToSet(job[w].order) \ {job[w].item}
    /\ items' = items \ {i} /\ mine' = mine \ {i} /\ completed' = completed \ {i}
    /\ boardPosition' = [boardPosition EXCEPT ![i] = 0]
    /\ statusOf' = [statusOf EXCEPT ![i] = 1]
    /\ personal' = [personal EXCEPT ![i] = NoRow]
    /\ UNCHANGED <<status, types_, userRow, projectRow, phase, job>>

(* A move that holds the user's row waits for a Project writer that cites  *)
(* the user.  PostgreSQL aborts one of them.                               *)
Blocks(v, w) == \/ phase[w] = "user" /\ projectRow = v
                \/ phase[w] = "writing" /\ ~KeysFree(w) /\ projectRow = v
Deadlocked(v, w) == /\ phase[v] = "project" /\ job[v].cites
                    /\ userRow = w
                    /\ Blocks(v, w)
Victim(v, w) == Deadlocked(v, w) /\ (Rollback(v) \/ Rollback(w))
-----------------------------------------------------------------------------
Start(w) == StartItemWrite(w) \/ StartCreate(w) \/ StartSettings(w) \/ BeginMove(w)

Step(w) ==
    \/ Reposition(w) \/ Transition(w) \/ EditStatus(w) \/ Assign(w) \/ CreateItem(w)
    \/ CreateStatusDefinition(w) \/ UpdateStatusDefinition(w) \/ Refuse(w)
    \/ LockUser(w) \/ LockMoveProject(w) \/ ReadColumn(w) \/ WriteColumn(w) \/ RowMissing(w)

Next ==
    \/ \E w \in Worker : Start(w) \/ Step(w)
    \/ \E t \in Type : CountTypes(t) \/ DeactivateType(t) \/ ActivateType(t)
    \/ \E i \in Item : DeleteItem(i)
    \/ \E v, w \in Worker : Victim(v, w)

Spec == Init /\ [][Next]_vars
-----------------------------------------------------------------------------
(* Properties *)

Stay(i, j) == /\ {i, j} \subseteq items \cap items'
              /\ CategoryOf(i) = CategoryOf(j) /\ CategoryOf(i)' = CategoryOf(j)'
Commits(w) == phase[w] \in {"project", "writing"} /\ phase'[w] = "idle"

(* Two Work Items of a column of the Project board change places only when *)
(* one of them is dragged or edited: numbering a column whose positions    *)
(* are missing or collide, a My Work move, a transition that keeps a       *)
(* position of another column and a deletion reorder nothing else.         *)
BoardOrderKept ==
    [][\A i, j \in Item :
         Stay(i, j) /\ Before(BoardKey, i, j) /\ ~Before(BoardKey, i, j)' =>
            \E w \in Worker : Commits(w) /\ job[w].item \in {i, j} /\ job[w].kind \in {"drag", "edit"}]_vars

(* On the user's My Work board only the Work Item of a move changes its    *)
(* place among the others, unless the other one came into the column after *)
(* the move had read it: the user's row serializes the moves of the user.  *)
(* Work Items that left the column meanwhile lose the places they have     *)
(* where they are now: a Work Item has one row, and the move takes it.     *)
PersonalOrderKept ==
    [][\A i, j \in Item :
         Stay(i, j) /\ Before(PersonalKey, i, j) /\ ~Before(PersonalKey, i, j)' =>
            \E w \in Worker : /\ phase[w] = "writing" /\ Commits(w)
                              /\ \/ job[w].item \in {i, j}
                                 \/ ~({i, j} \subseteq ToSet(job[w].order))
                                 \/ CategoryOf(i) # job[w].to]_vars

(* A move across categories that commits leaves its Work Item in the       *)
(* category it was dropped in, directly before its anchor, although the    *)
(* decision to lock the Project came from an older snapshot.  A reorder    *)
(* does so unless another request has moved the Work Item or the anchor    *)
(* to another column meanwhile.                                            *)
MovesLand ==
    [][\A w \in Worker, i \in Item, c \in Category :
         WriteColumn(w) /\ i = job[w].item /\ c = job[w].to =>
            LET placed == PersonalColumn(c)'
                order == job[w].order
            IN IF job[w].kind = "cross" THEN placed = order
               ELSE /\ i \in ToSet(placed) \/ CategoryOf(i)' # c \/ i \notin mine
                    /\ i \in ToSet(placed) =>
                          \A j \in ToSet(order) \cap ToSet(placed) :
                             PlaceIn(order, i) < PlaceIn(order, j) <=>
                             PlaceIn(placed, i) < PlaceIn(placed, j)]_vars

(* Whatever fields a request combines, the Project has exactly one active  *)
(* default status, a "todo" one, and the Work Items with completed_at are  *)
(* those of a "done" status.                                               *)
StatusesSound ==
    /\ TypeOK
    /\ Cardinality({d \in Status : status[d].active /\ status[d].default}) = 1
    /\ \A d \in Status : status[d].default => status[d].active /\ status[d].category = "todo"
    /\ completed = {i \in items : CategoryOf(i) = "done"}

(* The Project loses its last active type only when two deactivations      *)
(* count the types before either commits: each holds its own row only.     *)
LastTypeNeedsRace == types = {} => overlapped

(* The only circular wait is between a move that holds the user's row and  *)
(* a Project writer that cites the user; the writers, the moves and the    *)
(* deletions alone never wait for each other in a circle.                  *)
Busy == {w \in Worker : phase[w] # "idle"}
Waits(w) == \/ phase[w] = "begun" /\ userRow # NoOne
            \/ phase[w] = "user" /\ projectRow # NoOne
            \/ phase[w] = "writing" /\ ~KeysFree(w)
            \/ phase[w] = "project" /\ job[w].cites /\ userRow # NoOne
CirclesNeedMove ==
    Busy # {} /\ (\A w \in Busy : Waits(w)) => \E v, w \in Worker : Deadlocked(v, w)
=============================================================================
