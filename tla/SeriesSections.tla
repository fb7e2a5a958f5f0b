--------------------------- MODULE SeriesSections ---------------------------
(***************************************************************************)
(* The ordered Sections of one Meeting Template and of one Meeting that is *)
(* created from it (apps/api/meetings/services.py).  A list is ordered by  *)
(* "position", unique per list: PostgreSQL checks it row by row.           *)
(*                                                                         *)
(* A creation and a replacement take the Template row; a reorder takes     *)
(* only the rows it updates, first shifting them all by the length of the  *)
(* list and then giving each its place; a deletion leaves a gap.           *)
(***************************************************************************)
EXTENDS Integers, FiniteSets, Sequences, SequencesExt, FiniteSetsExt

CONSTANTS Section, Worker, NoOne   \* NoOne: no worker, no Section

ASSUME NoOneAssumption == NoOne \notin Worker \cup Section
ASSUME SectionAssumption == IsFiniteSet(Section)

VARIABLES list,       \* the list of a Section, or that it is unborn or deleted
          position, active,
          source,     \* the Template Section a snapshot was taken from
          meeting,    \* the Meeting exists
          seriesRow,  \* the worker that holds the Template row
          sectionRow, \* the worker that holds the row of a Section
          job

stored == <<list, position, active, source, meeting>>
rows == <<seriesRow, sectionRow>>
vars == <<stored, rows, job>>

Lists == {"series", "meeting"}
NoJob == [step |-> "idle", of |-> "none", order |-> <<>>, offset |-> 0]
In(l) == {s \in Section : list[s] = l}
Positions(S) == {position[s] : s \in S}
(* the Sections of S by position: the n-th has n - 1 before it *)
Before(S, s) == {t \in S : position[t] < position[s]}
Ordered(S) == [n \in 1..Cardinality(S) |-> CHOOSE s \in S : Cardinality(Before(S, s)) + 1 = n]
IndexIn(order, s) == SelectInSeq(order, LAMBDA t : t = s)
Snapshots(S) == {s \in Section : source[s] \in S}
RowsFree(S) == \A s \in S : sectionRow[s] = NoOne

TypeOK ==
    /\ list \in [Section -> Lists \cup {"unborn", "deleted"}]
    /\ position \in [Section -> Nat]
    /\ active \subseteq In("series")
    /\ source \in [Section -> In("series") \cup {NoOne}]
    /\ meeting \in BOOLEAN
    /\ seriesRow \in Worker \cup {NoOne}
    /\ sectionRow \in [Section -> Worker \cup {NoOne}]
    /\ \A l \in Lists : \A s, t \in In(l) : s # t => position[s] # position[t]

Init ==
    /\ list = [s \in Section |-> "unborn"] /\ position = [s \in Section |-> 0]
    /\ active = {} /\ source = [s \in Section |-> NoOne] /\ meeting = FALSE
    /\ seriesRow = NoOne /\ sectionRow = [s \in Section |-> NoOne]
    /\ job = [w \in Worker |-> NoJob]
-----------------------------------------------------------------------------
Work(w, j) == job' = [job EXCEPT ![w] = j]

(* commit or rollback: the rows of the transaction are free again *)
Return(w) ==
    /\ seriesRow' = IF seriesRow = w THEN NoOne ELSE seriesRow
    /\ sectionRow' = [s \in Section |-> IF sectionRow[s] = w THEN NoOne ELSE sectionRow[s]]
    /\ Work(w, NoJob)
Rollback(w) == Return(w) /\ UNCHANGED stored

(* the positions a reorder in progress occupies in the index *)
Shifted(w) == IF job[w].step = "shifted"
              THEN {position[s] + job[w].offset : s \in {t \in Section : sectionRow[t] = w}}
              ELSE {}

CreateSectionByCount(l, s) ==  \* the position is the number of Sections
    LET p == Cardinality(In(l)) IN
    /\ l = "series" => seriesRow = NoOne
    /\ l = "meeting" => meeting
    /\ list[s] = "unborn"
    /\ \A w \in Worker : job[w].of = l => p \notin Shifted(w)
    /\ list' = [list EXCEPT ![s] = l] /\ position' = [position EXCEPT ![s] = p]
    /\ active' = IF l = "series" THEN active \cup {s} ELSE active
    /\ UNCHANGED <<source, meeting, rows, job>>

(* create_series_section, create_meeting_section: behind the last position *)
CreateSection(l, s) ==
    LET p == IF In(l) = {} THEN 0 ELSE Max(Positions(In(l))) + 1 IN
    /\ l = "series" => seriesRow = NoOne
    /\ l = "meeting" => meeting
    /\ list[s] = "unborn"
    /\ \A w \in Worker : job[w].of = l => p \notin Shifted(w)
    /\ list' = [list EXCEPT ![s] = l] /\ position' = [position EXCEPT ![s] = p]
    /\ active' = IF l = "series" THEN active \cup {s} ELSE active
    /\ UNCHANGED <<source, meeting, rows, job>>

(* update_series_section: the row may be in use, the Template row is not asked for *)
ToggleSection(s) ==
    /\ list[s] = "series" /\ RowsFree({s})
    /\ active' = IF s \in active THEN active \ {s} ELSE active \cup {s}
    /\ UNCHANGED <<list, position, source, meeting, rows, job>>

(* delete_series_section: the snapshots lose their source and stay *)
DeleteSection(s) ==
    /\ list[s] = "series" /\ RowsFree({s} \cup Snapshots({s}))
    /\ list' = [list EXCEPT ![s] = "deleted"] /\ active' = active \ {s}
    /\ position' = [position EXCEPT ![s] = 0]
    /\ source' = [t \in Section |-> IF source[t] = s THEN NoOne ELSE source[t]]
    /\ UNCHANGED <<meeting, rows, job>>
-----------------------------------------------------------------------------
(* reorder_series_sections, reorder_meeting_sections *)

BeginReorderShort(w, l) ==  \* off by one: the rows are shifted by one less
    /\ job[w] = NoJob /\ In(l) # {}
    /\ \E order \in [1..Cardinality(In(l)) -> In(l)] :
        /\ ToSet(order) = In(l)
        /\ Work(w, [step |-> "ordered", of |-> l, order |-> order, offset |-> Len(order) - 1])
    /\ UNCHANGED <<stored, rows>>

(* the requested order names every Section of the list once *)
BeginReorder(w, l) ==
    /\ job[w] = NoJob /\ In(l) # {}
    /\ \E order \in [1..Cardinality(In(l)) -> In(l)] :
        /\ ToSet(order) = In(l)
        /\ Work(w, [step |-> "ordered", of |-> l, order |-> order, offset |-> Len(order)])
    /\ UNCHANGED <<stored, rows>>

Reordered(w) == ToSet(job[w].order) \cap In(job[w].of)
Others(w) == In(job[w].of) \ ToSet(job[w].order)

(* Every row moves up by the length of the list.  A row that lands on the  *)
(* position of one not moved yet, or of a Section the request does not     *)
(* name, fails the statement; which row is first is PostgreSQL's choice.   *)
ShiftCollides(w) ==
    \E s \in Reordered(w) : position[s] + job[w].offset \in Positions(In(job[w].of))
ShiftMustCollide(w) ==
    \E s \in Reordered(w) : position[s] + job[w].offset \in Positions(Others(w))
Shift(w) ==
    /\ job[w].step = "ordered" /\ RowsFree(Reordered(w))
    /\ ~ShiftMustCollide(w)
    /\ sectionRow' = [s \in Section |-> IF s \in Reordered(w) THEN w ELSE sectionRow[s]]
    /\ Work(w, [job[w] EXCEPT !.step = "shifted"])
    /\ UNCHANGED <<stored, seriesRow>>
ShiftFails(w) ==
    /\ job[w].step = "ordered" /\ RowsFree(Reordered(w))
    /\ ShiftCollides(w)
    /\ Rollback(w)

(* each Section gets its index in the requested order *)
PlaceOf(w, s) == IndexIn(job[w].order, s) - 1
Moved(w) == {s \in Section : sectionRow[s] = w}
PlaceCollides(w) == \E s \in Moved(w) : PlaceOf(w, s) \in Positions(Others(w))
PlaceChanged(w) ==  \* a row whose index is its old position is left shifted
    /\ job[w].step = "shifted" /\ ~PlaceCollides(w)
    /\ position' = [s \in Section |-> IF s \notin Moved(w) THEN position[s]
                      ELSE IF PlaceOf(w, s) = position[s] THEN position[s] + job[w].offset
                      ELSE PlaceOf(w, s)]
    /\ Return(w)
    /\ UNCHANGED <<list, active, source, meeting>>
Place(w) ==
    /\ job[w].step = "shifted" /\ ~PlaceCollides(w)
    /\ position' = [s \in Section |-> IF s \in Moved(w) THEN PlaceOf(w, s) ELSE position[s]]
    /\ Return(w)
    /\ UNCHANGED <<list, active, source, meeting>>
PlaceFails(w) ==
    /\ job[w].step = "shifted" /\ PlaceCollides(w)
    /\ Rollback(w)
-----------------------------------------------------------------------------
(* replace_series_sections: under the Template row, all rows go and the    *)
(* imported ones are numbered from zero, active or not.                    *)
BeginReplace(w) ==
    /\ job[w] = NoJob /\ seriesRow = NoOne
    /\ RowsFree(In("series") \cup Snapshots(In("series")))
    /\ seriesRow' = w
    /\ sectionRow' = [s \in Section |-> IF s \in In("series") \cup Snapshots(In("series"))
                                        THEN w ELSE sectionRow[s]]
    /\ Work(w, [NoJob EXCEPT !.step = "replacing"])
    /\ UNCHANGED stored

CommitReplace(w) ==
    LET old == In("series") IN
    /\ job[w].step = "replacing"
    /\ \E new \in SUBSET In("unborn") : \E order \in SetToAllKPermutations(new), on \in SUBSET new :
        /\ ToSet(order) = new
        /\ list' = [s \in Section |-> IF s \in old THEN "deleted"
                                      ELSE IF s \in new THEN "series" ELSE list[s]]
        /\ position' = [s \in Section |-> IF s \in new
                          THEN IndexIn(order, s) - 1
                          ELSE IF s \in old THEN 0 ELSE position[s]]
        /\ active' = on
    /\ source' = [s \in Section |-> IF source[s] \in old THEN NoOne ELSE source[s]]
    /\ Return(w)
    /\ UNCHANGED meeting

(* create_meeting_from_series: _snapshot_series_sections reads the active  *)
(* Sections; the foreign keys to them are checked at the commit.           *)
BeginSnapshot(w) ==
    /\ job[w] = NoJob /\ ~meeting /\ \A v \in Worker : job[v].step # "copying"
    /\ Work(w, [step |-> "copying", of |-> "none", order |-> Ordered(active), offset |-> 0])
    /\ UNCHANGED <<stored, rows>>

CommitSnapshot(w) ==
    LET copied == job[w].order IN
    /\ job[w].step = "copying" /\ RowsFree(ToSet(copied))
    /\ IF ToSet(copied) \subseteq In("series")
       THEN \E copies \in SetToAllKPermutations(In("unborn")) :
              /\ Len(copies) = Len(copied)
              /\ list' = [s \in Section |-> IF s \in ToSet(copies) THEN "meeting" ELSE list[s]]
              /\ position' = [s \in Section |-> IF s \in ToSet(copies)
                                THEN IndexIn(copies, s) - 1 ELSE position[s]]
              /\ source' = [s \in Section |-> IF s \in ToSet(copies)
                              THEN copied[IndexIn(copies, s)] ELSE source[s]]
              /\ meeting' = TRUE
              /\ Return(w)
              /\ UNCHANGED active
       ELSE Rollback(w)
-----------------------------------------------------------------------------
Next ==
    \/ \E s \in Section : ToggleSection(s) \/ DeleteSection(s) \/ \E l \in Lists : CreateSection(l, s)
    \/ \E w \in Worker :
        \/ \E l \in Lists : BeginReorder(w, l)
        \/ Shift(w) \/ ShiftFails(w) \/ Place(w) \/ PlaceFails(w)
        \/ BeginReplace(w) \/ CommitReplace(w) \/ BeginSnapshot(w) \/ CommitSnapshot(w)
Spec == Init /\ [][Next]_vars
-----------------------------------------------------------------------------
(* Properties *)

(* A reorder that commits leaves the Sections it named, those that still   *)
(* exist, in the requested order, whatever was created, deleted, replaced  *)
(* or reordered meanwhile.                                                 *)
ReorderExact ==
    [][\A w \in Worker : Place(w) =>
         \A s, t \in ToSet(job[w].order) :
            s \in In(job[w].of) /\ t \in In(job[w].of) /\ PlaceOf(w, s) < PlaceOf(w, t)
            => position'[s] < position'[t]]_vars

(* A reorder of a list that nothing has disturbed does not fail: only a    *)
(* gap in the positions, or a Section created or deleted since the request *)
(* was validated, can make it collide.                                     *)
UndisturbedReorderSucceeds ==
    [][\A w \in Worker : ShiftFails(w) \/ PlaceFails(w) =>
         \/ In(job[w].of) # ToSet(job[w].order)
         \/ Positions(In(job[w].of)) # 0..(Len(job[w].order) - 1)]_vars
=============================================================================
