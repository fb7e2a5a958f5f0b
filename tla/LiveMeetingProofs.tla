-------------------------- MODULE LiveMeetingProofs --------------------------
(***************************************************************************)
(* The properties of LiveMeeting for any number of Meetings, items and     *)
(* concurrent requests, with all operations together.                      *)
(***************************************************************************)
EXTENDS LiveMeeting, FiniteSetTheorems, TLAPS

-----------------------------------------------------------------------------
(* The inductive invariant *)

\* The row of an item that is on an agenda.
Rows == [title : Title, notes : Notes, content : Title \X (Notes \cup Markdown)]

Writes == LegacyWrites \cup ContentWrites

Requests ==
  [op : OperationNames \cup {"none"}, item : Item \cup {None},
   source : Meeting \cup {None}, target : Meeting \cup {None},
   section : Section \cup {None}, new : Texts, copy : Texts]

\* Primary keys are given out once, in order.
ItemsInv ==
  \A i \in Item : home[i] # None => i <= lastItem /\ section[i] \in Section /\ text[i] \in Rows

\* A record keeps its source, and is the only one with its item.
FollowUpsInv ==
  \A f \in followUps :
    /\ home[f.source] \notin {None, f.target}
    /\ f.item <= lastItem
    /\ \A g \in followUps : g.item = f.item => g = f
    /\ f.status = "scheduled" =>
         f.kept /\ home[f.item] = f.target /\ ActiveFrom(f.source) = {f}

InFollowUp == {"lock_first", "lock_second", "sch_section", "sch_commit", "can_commit"}
InSchedule(w) == pc[w] \in InFollowUp /\ req[w].op = "schedule"
InCancel(w) == pc[w] \in InFollowUp /\ req[w].op = "cancel"

\* What a handler was asked for fits where it is.
RequestInv(w) ==
  /\ pc[w] \in {"add_lock", "add_commit"} =>
       req[w].op = "add" /\ req[w].target \in Meeting /\ req[w].section \in Section
       /\ req[w].copy \in Rows
  /\ pc[w] \in InFollowUp =>
       /\ req[w].op \in {"schedule", "cancel"}
       /\ pc[w] \in {"sch_section", "sch_commit"} => req[w].op = "schedule"
       /\ pc[w] = "can_commit" => req[w].op = "cancel"
       /\ req[w].source \in Meeting /\ req[w].target \in Meeting
       /\ req[w].source # req[w].target
       /\ req[w].item \in Item /\ req[w].item <= lastItem
  /\ pc[w] \in {"dm_lock", "dm_commit"} => req[w].target \in Meeting
  /\ pc[w] \in {"note_save", "edit_save"} => req[w].item \in Item
  /\ pc[w] = "edit_save" =>
       req[w].new \in Writes /\ (req[w].new.content = None => req[w].copy \in Rows)

\* What it has read without a lock stays true, or its rows go.
ReadInv(w) ==
  /\ InSchedule(w) => req[w].section \in Section /\ home[req[w].item] \in {None, req[w].source}
  /\ InCancel(w) => \A f \in followUps : f.item = req[w].item =>
                      f.target = req[w].target /\ home[f.source] = req[w].source
  /\ pc[w] = "sch_commit" => ~ScheduleRefused(w)

\* The Meeting rows a handler holds.
Held(w) ==
  IF pc[w] = "lock_second" THEN {FirstKey(w)}
  ELSE IF pc[w] \in {"sch_section", "sch_commit", "can_commit"} THEN Keys(w)
  ELSE IF pc[w] = "dm_commit" THEN {req[w].target} ELSE {}

HeldSections(w) ==
  IF pc[w] \in {"add_commit", "sch_commit"} THEN {<<req[w].target, req[w].section>>} ELSE {}

LockInv(w) ==
  /\ \A m \in Meeting : meetingLock[m] = w <=> m \in Held(w)
  /\ \A p \in Meeting \X Section : sectionLock[p] = w <=> p \in HeldSections(w)

IInv ==
  /\ TypeOK /\ req \in [Worker -> Requests]
  /\ ItemsInv /\ FollowUpsInv /\ PointerOnLiveAgenda
  /\ \A w \in Worker : RequestInv(w) /\ ReadInv(w) /\ LockInv(w)

USE NullAssumption, WorkerAssumption, TextAssumption, OperationsAssumption
-----------------------------------------------------------------------------
(* The order of an agenda *)

LEMMA Numbers ==
  Meeting \subseteq Nat /\ Section \subseteq Nat /\ Item \subseteq Nat /\ IsFiniteSet(Item)
<1>1. Cardinality(Item) \in Nat
  BY KeysAssumption, FS_CardinalityType
<1> QED BY <1>1, KeysAssumption

LEMMA BeforeOrder ==
  ASSUME NEW S \in SUBSET Item, \A i \in S : section[i] \in Nat
  PROVE  /\ \A i \in S : ~Before(i, i)
         /\ \A i, j \in S : i # j => Before(i, j) \/ Before(j, i)
         /\ \A i, j, k \in S : Before(i, j) /\ Before(j, k) => Before(i, k)
<1>1. S \subseteq Nat
  BY Numbers
<1> QED BY <1>1 DEF Before

StrictTotalOrder(R, S) ==
  /\ \A i \in S : <<i, i>> \notin R
  /\ \A i, j \in S : i # j => <<i, j>> \in R \/ <<j, i>> \in R
  /\ \A i, j, k \in S : <<i, j>> \in R /\ <<j, k>> \in R => <<i, k>> \in R

\* A finite set has a first element in a strict total order: the numbers of
\* elements before each go from 0.
LEMMA FirstOfFinite ==
  ASSUME NEW S, IsFiniteSet(S), S # {}, NEW R, StrictTotalOrder(R, S)
  PROVE  \E i \in S : \A j \in S \ {i} : <<i, j>> \in R
<1> DEFINE Above(i) == {j \in S : <<j, i>> \in R}
           N == Cardinality(S)
<1>1. N \in Nat /\ N # 0
  BY FS_CardinalityType, FS_EmptySet
<1>2. ASSUME NEW i \in S
      PROVE  IsFiniteSet(Above(i)) /\ Cardinality(Above(i)) \in 0..(N - 1)
  <2>1. Above(i) \in SUBSET (S \ {i})
    BY DEF StrictTotalOrder
  <2>2. IsFiniteSet(S \ {i}) /\ Cardinality(S \ {i}) = N - 1
    BY <1>1, FS_RemoveElement
  <2>3. IsFiniteSet(Above(i)) /\ Cardinality(Above(i)) <= Cardinality(S \ {i})
    BY <2>1, <2>2, FS_Subset
  <2>4. Cardinality(Above(i)) \in Nat
    BY <2>3, FS_CardinalityType
  <2> QED BY <1>1, <2>2, <2>3, <2>4
<1>3. ASSUME NEW i \in S, NEW j \in S, <<i, j>> \in R
      PROVE  Cardinality(Above(i)) # Cardinality(Above(j))
  <2>1. i \notin Above(i) /\ Above(i) \cup {i} \in SUBSET Above(j)
    BY <1>3 DEF StrictTotalOrder
  <2>2. Cardinality(Above(i) \cup {i}) = Cardinality(Above(i)) + 1
    BY <1>2, <2>1, FS_AddElement
  <2>3. Cardinality(Above(i) \cup {i}) <= Cardinality(Above(j))
    BY <1>2, <2>1, FS_Subset
  <2>4. Cardinality(Above(i)) \in Nat /\ Cardinality(Above(j)) \in Nat
    BY <1>2, <1>3, FS_CardinalityType
  <2> QED BY <2>2, <2>3, <2>4
<1>4. PICK i \in S : Cardinality(Above(i)) = 0
  <2> DEFINE f == [i \in S |-> Cardinality(Above(i))]
  <2>1. \A i, j \in S : i # j => <<i, j>> \in R \/ <<j, i>> \in R
    BY DEF StrictTotalOrder
  <2> HIDE DEF Above
  <2>2. \A i, j \in S : i # j => f[i] # f[j]
    BY <1>3, <2>1
  <2>3. f \in Injection(S, 0..(N - 1))
    BY <1>2, <2>2 DEF Injection, IsInjective
  <2>4. IsFiniteSet(0..(N - 1)) /\ Cardinality(0..(N - 1)) = N
    BY <1>1, FS_Interval
  <2>5. f \in Surjection(S, 0..(N - 1))
    BY <1>1, <2>3, <2>4, FS_Injection
  <2>6. 0 \in 0..(N - 1)
    BY <1>1
  <2> QED BY <2>5, <2>6 DEF Surjection
<1>5. Above(i) = {}
  BY <1>2, <1>4, FS_EmptySet
<1>6. \A j \in S \ {i} : <<i, j>> \in R
  BY <1>5 DEF StrictTotalOrder
<1> QED BY <1>6

\* The items of an agenda have a first one.
LEMMA FirstIs ==
  ASSUME NEW S \in SUBSET Item, S # {}, \A i \in S : section[i] \in Nat
  PROVE  First(S) \in S /\ \A j \in S \ {First(S)} : Before(First(S), j)
<1> DEFINE R == {p \in S \X S : Before(p[1], p[2])}
<1>1. IsFiniteSet(S)
  BY Numbers, FS_Subset
<1>2. \A i, j \in S : <<i, j>> \in R <=> Before(i, j)
  OBVIOUS
<1> HIDE DEF R
<1>3. \E i \in S : \A j \in S \ {i} : <<i, j>> \in R
  <2>1. StrictTotalOrder(R, S)
    BY <1>2, BeforeOrder DEF StrictTotalOrder
  <2> QED BY <1>1, <2>1, FirstOfFinite
<1> QED BY <1>2, <1>3 DEF First

\* A finite set of numbers has a largest one.
LEMMA LargestOfFinite ==
  ASSUME NEW S \in SUBSET Nat, IsFiniteSet(S), S # {}
  PROVE  \E i \in S : \A j \in S : j <= i
<1> DEFINE R == {p \in S \X S : p[1] > p[2]}
<1>1. \A i, j \in S : <<i, j>> \in R <=> i > j
  OBVIOUS
<1> HIDE DEF R
<1>2. StrictTotalOrder(R, S)
  BY <1>1 DEF StrictTotalOrder
<1>3. PICK i \in S : \A j \in S \ {i} : <<i, j>> \in R
  BY <1>2, FirstOfFinite
<1>4. ASSUME NEW j \in S
      PROVE  j <= i
  <2>1. j = i \/ i > j
    BY <1>1, <1>3
  <2>2. i \in Nat /\ j \in Nat
    BY <1>3
  <2> QED BY <2>1, <2>2
<1> QED BY <1>4

\* The pointer moves to the next open item of the same agenda, or to none.
LEMMA NextOpenIs ==
  ASSUME ItemsInv, NEW m \in Meeting, NEW i \in Item, home[i] = m, NEW wrap \in BOOLEAN
  PROVE  LET n == NextOpen(m, i, wrap)
             later == {j \in Open(m) : Before(i, j)}
         IN  /\ n \in Open(m) \/ n = None
             /\ later # {} => n \in later /\ \A j \in later \ {n} : Before(n, j)
             /\ later = {} => n = None \/ (wrap /\ n \in Open(m) \ {i})
<1> DEFINE later == {j \in Open(m) : Before(i, j)}
           earlier == {j \in Open(m) : Before(j, i)}
<1>1. Open(m) \in SUBSET Item /\ \A j \in Open(m) \cup {i} : section[j] \in Nat
  BY Numbers DEF Open, ItemsOf, ItemsInv
<1>2. later # {} => First(later) \in later /\ \A j \in later \ {First(later)} : Before(First(later), j)
  <2>1. later \in SUBSET Item /\ \A j \in later : section[j] \in Nat
    BY <1>1
  <2> HIDE DEF later
  <2> QED BY <2>1, FirstIs
<1>3. earlier # {} => First(earlier) \in earlier
  <2>1. earlier \in SUBSET Item /\ \A j \in earlier : section[j] \in Nat
    BY <1>1
  <2> HIDE DEF earlier
  <2> QED BY <2>1, FirstIs
<1>4. i \notin earlier
  BY <1>1, Numbers DEF Before
<1>5. NextOpen(m, i, wrap) = IF later = {} /\ wrap THEN FirstOrNone(earlier) ELSE FirstOrNone(later)
  BY DEF NextOpen
<1> QED BY <1>2, <1>3, <1>4, <1>5 DEF FirstOrNone

LEMMA FirstOpenIs ==
  ASSUME ItemsInv, NEW m \in Meeting
  PROVE  FirstOrNone(Open(m)) \in Open(m) \cup {None}
<1>1. Open(m) \in SUBSET Item /\ \A j \in Open(m) : section[j] \in Nat
  BY Numbers DEF Open, ItemsOf, ItemsInv
<1> QED BY <1>1, FirstIs DEF FirstOrNone

-----------------------------------------------------------------------------
(* Texts *)

LEMMA TextTypes ==
  /\ NoText \in Texts /\ NoRequest \in Requests /\ NoRequest.op = "none"
  /\ Rows \subseteq Texts /\ Writes \subseteq Texts
<1>1. NoText \in Texts
  BY DEF NoText, Texts
<1>2. NoRequest \in Requests /\ NoRequest.op = "none"
  BY <1>1 DEF NoRequest, Requests
<1>3. Rows \subseteq Texts
  BY DEF Rows, Texts
<1>4. Writes \subseteq Texts
  BY DEF Writes, LegacyWrites, ContentWrites, Texts
<1> QED BY <1>1, <1>2, <1>3, <1>4

LEMMA WrittenRow ==
  ASSUME NEW new \in Writes, NEW row, NEW copy, row.title \in Title, row.notes \in Notes,
         new.content = None => copy.title \in Title /\ copy.notes \in Notes
  PROVE  Written(new, row, copy) \in Rows
BY DEF Written, Given, LegacyContent, Writes, LegacyWrites, ContentWrites, Rows

LEMMA AddedRow ==
  ASSUME NEW new \in Writes, new.title # None \/ new.content # None
  PROVE  Written(new, EmptyText, EmptyText) \in Rows
BY DEF Written, Given, LegacyContent, Writes, LegacyWrites, ContentWrites, Rows, EmptyText, NoText

LEMMA CopiedRow ==
  ASSUME NEW t \in Rows
  PROVE  CopyForTarget(t) \in Rows
BY DEF CopyForTarget, ContentAuthored, LegacyContent, Rows

-----------------------------------------------------------------------------
(* What the parts of an action do *)

\* What other handlers may rely on: keys grow, rows only leave their agenda,
\* records keep their source and target.
RowsOnlyGo ==
  /\ lastItem' \in Nat /\ lastItem <= lastItem'
  /\ \A i \in Item : i <= lastItem => home'[i] \in {home[i], None}
  /\ \A g \in followUps' :
       \/ g.item > lastItem
       \/ \E f \in followUps : f.item = g.item /\ f.source = g.source /\ f.target = g.target

\* A Meeting row a handler holds, and the agenda below it, are left alone.
LockRespected(v) ==
  \A m \in Meeting : meetingLock[m] = v =>
    /\ meetingStatus'[m] = meetingStatus[m]
    /\ \A i \in Item : home[i] = m =>
         /\ home'[i] = m
         /\ \A f \in followUps' : f.source = i /\ f.status = "scheduled" => f \in followUps

\* A handler stays where it is, with the locks it has.
StaysPut(v) ==
  /\ pc'[v] = pc[v] /\ req'[v] = req[v]
  /\ \A m \in Meeting : meetingLock'[m] = v <=> meetingLock[m] = v
  /\ \A p \in Meeting \X Section : sectionLock'[p] = v <=> sectionLock[p] = v

HandlerInv(w) == RequestInv(w) /\ ReadInv(w) /\ LockInv(w)

LEMMA FirstKeyKept ==
  ASSUME NEW v \in Worker, req'[v] = req[v]
  PROVE  FirstKey(v)' = FirstKey(v) /\ SecondKey(v)' = SecondKey(v) /\ Keys(v)' = Keys(v)
<1>1. Keys(v)' = Keys(v)
  BY DEF Keys
<1>2. FirstKey(v)' = FirstKey(v)
  BY <1>1 DEF FirstKey
<1>3. SecondKey(v)' = SecondKey(v)
  BY <1>1, <1>2 DEF SecondKey
<1> QED BY <1>1, <1>2, <1>3

LEMMA OtherHandler ==
  ASSUME IInv, NEW v \in Worker, StaysPut(v), LockRespected(v), RowsOnlyGo, FollowUpsInv',
         followUps' \subseteq FollowUpRows
  PROVE  HandlerInv(v)'
<1>0. RequestInv(v) /\ ReadInv(v) /\ LockInv(v) /\ lastItem \in Nat
  BY Numbers DEF IInv, TypeOK
<1>1. RequestInv(v)'
  <2>1. pc'[v] = pc[v] /\ req'[v] = req[v] /\ lastItem' \in Nat /\ lastItem <= lastItem'
    BY DEF StaysPut, RowsOnlyGo
  <2>2. req[v].item \in Item /\ req[v].item <= lastItem => req[v].item <= lastItem'
    BY <1>0, <2>1, Numbers
  <2> QED BY <1>0, <2>1, <2>2 DEF RequestInv
<1>2. LockInv(v)'
  <2>1. Held(v)' = Held(v)
    BY FirstKeyKept DEF Held, StaysPut, Keys
  <2>2. HeldSections(v)' = HeldSections(v)
    BY DEF HeldSections, StaysPut
  <2> QED BY <1>0, <2>1, <2>2 DEF LockInv, StaysPut
<1>3. ReadInv(v)'
  <2>1. InSchedule(v)' => (req[v].section \in Section /\ home[req[v].item] \in {None, req[v].source})'
    BY <1>0 DEF ReadInv, RequestInv, InSchedule, InFollowUp, StaysPut, RowsOnlyGo
  <2>2. ASSUME InCancel(v)', NEW g \in followUps', g.item = req'[v].item
        PROVE  g.target = req'[v].target /\ home'[g.source] = req'[v].source
    <3>1. InCancel(v) /\ req[v].item <= lastItem /\ req[v].item \in Item
      BY <1>0, <2>2 DEF InCancel, StaysPut, RequestInv
    <3>7. g.item = req[v].item
      BY <2>2 DEF StaysPut
    <3>0. ~(g.item > lastItem)
      <4>1. g.item \in Nat /\ g.item <= lastItem
        BY <3>7, <3>1, Numbers
      <4> QED BY <1>0, <4>1
    <3>2. PICK f \in followUps : f.item = g.item /\ f.source = g.source /\ f.target = g.target
      BY <2>2, <3>0 DEF RowsOnlyGo
    <3>3. f.target = req[v].target /\ home[f.source] = req[v].source
      BY <1>0, <3>1, <3>2, <3>7 DEF ReadInv
    <3>4. f.source \in Item /\ home[f.source] # None
      BY <3>2 DEF IInv, TypeOK, FollowUpRows, FollowUpsInv
    <3>5. home'[f.source] \in {home[f.source], None}
      BY <3>4 DEF IInv, ItemsInv, RowsOnlyGo
    <3>6. home'[g.source] # None
      BY <2>2 DEF FollowUpsInv
    <3> QED BY <3>2, <3>3, <3>5, <3>6 DEF StaysPut
  <2>3. ASSUME pc'[v] = "sch_commit"
        PROVE  ~ScheduleRefused(v)'
    <3>1. pc[v] = "sch_commit" /\ ~ScheduleRefused(v)
      BY <1>0, <2>3 DEF StaysPut, ReadInv
    <3>2. req[v].source \in Meeting /\ req[v].target \in Meeting /\ req[v].item \in Item /\ req[v].op = "schedule"
      BY <1>0, <3>1 DEF RequestInv, InFollowUp
    <3>3. home[req[v].item] = req[v].source
      BY <1>0, <3>1, <3>2 DEF ReadInv, InSchedule, InFollowUp, ScheduleRefused
    <3>4. meetingLock[req[v].source] = v /\ meetingLock[req[v].target] = v
      BY <1>0, <3>1, <3>2 DEF LockInv, Held, Keys
    <3>5. home'[req[v].item] = req[v].source /\ meetingStatus'[req[v].target] = meetingStatus[req[v].target]
      BY <3>2, <3>3, <3>4 DEF LockRespected
    <3>8. \A f \in followUps' : f.source = req[v].item /\ f.status = "scheduled" => f \in followUps
      BY <3>2, <3>3, <3>4 DEF LockRespected
    <3>6. ActiveFrom(req[v].item)' = {}
      BY <1>0, <3>1, <3>8 DEF ScheduleRefused, ActiveFrom, StaysPut
    <3> QED BY <3>1, <3>2, <3>5, <3>6 DEF ScheduleRefused, StaysPut, ActiveFrom
  <2> QED BY <2>1, <2>2, <2>3 DEF ReadInv
<1> QED BY <1>1, <1>2, <1>3 DEF HandlerInv

-----------------------------------------------------------------------------
(* Assembling a step from what it does to the rows and to the handlers *)

Database ==
  /\ meetingStatus \in
       [Meeting -> {"upcoming", "live", "completed", "cancelled", "deleted"}]
  /\ current \in [Meeting -> Item \cup {None}]
  /\ home \in [Item -> Meeting \cup {None}]
  /\ section \in [Item -> Section \cup {None}]
  /\ outcome \in [Item -> {"not_discussed", "done", "follow_up"}]
  /\ text \in [Item -> Texts]
  /\ noted \subseteq Item /\ linked \subseteq Item
  /\ followUps \subseteq FollowUpRows
  /\ lastItem \in Item \cup {0}

Handlers ==
  /\ meetingLock \in [Meeting -> Worker \cup {Nobody}]
  /\ sectionLock \in [Meeting \X Section -> Worker \cup {Nobody}]
  /\ pc \in [Worker -> Labels]
  /\ req \in [Worker -> Requests]

Data == Database /\ ItemsInv /\ FollowUpsInv /\ PointerOnLiveAgenda

LEMMA Parts ==
  IInv <=> Data /\ Handlers /\ \A w \in Worker : HandlerInv(w)
BY DEF IInv, TypeOK, Data, Database, Handlers, HandlerInv

LEMMA PartsNext ==
  ASSUME Data', Handlers', \A w \in Worker : HandlerInv(w)'
  PROVE  IInv'
BY DEF IInv, TypeOK, Data, Database, Handlers, HandlerInv

LEMMA DataUnchanged ==
  ASSUME IInv, UNCHANGED db
  PROVE  Data' /\ RowsOnlyGo /\ \A v \in Worker : LockRespected(v)
<1>0. Data /\ Database
  BY Parts DEF Data
<1>1. Database'
  BY <1>0 DEF Database, db, items
<1>2. ItemsInv'
  BY <1>0 DEF Data, ItemsInv, db, items
<1>3. FollowUpsInv'
  <2>1. followUps' = followUps /\ home' = home /\ lastItem' = lastItem
    BY DEF db, items
  <2>2. \A i \in Item : ActiveFrom(i)' = ActiveFrom(i)
    BY <2>1 DEF ActiveFrom
  <2>3. \A f \in followUps : f.source \in Item
    BY <1>0 DEF Database, FollowUpRows
  <2> QED BY <1>0, <2>1, <2>2, <2>3 DEF Data, FollowUpsInv
<1>4. PointerOnLiveAgenda'
  BY <1>0 DEF Data, PointerOnLiveAgenda, db, items
<1>5. RowsOnlyGo
  BY <1>0, Numbers DEF Database, RowsOnlyGo, db, items
<1>6. \A v \in Worker : LockRespected(v)
  BY DEF LockRespected, db, items
<1> QED BY <1>1, <1>2, <1>3, <1>4, <1>5, <1>6 DEF Data

\* A step of a handler that leaves the rows alone.
LEMMA MovedStep ==
  ASSUME IInv, NEW w \in Worker, UNCHANGED db, Handlers', HandlerInv(w)',
         \A v \in Worker \ {w} : StaysPut(v)
  PROVE  IInv'
<1>1. Data' /\ RowsOnlyGo /\ \A v \in Worker : LockRespected(v)
  BY DataUnchanged
<1>2. FollowUpsInv' /\ followUps' \subseteq FollowUpRows
  BY <1>1 DEF Data, Database
<1>3. ASSUME NEW v \in Worker
      PROVE  HandlerInv(v)'
  <2>1. CASE v = w
    BY <2>1
  <2>2. CASE v # w
    BY <1>1, <1>2, <2>2, OtherHandler
  <2> QED BY <2>1, <2>2
<1> QED BY <1>1, <1>3, PartsNext

\* A step outside of all handlers.
LEMMA QuietStep ==
  ASSUME IInv, UNCHANGED <<locks, pc, req>>, Data', RowsOnlyGo,
         \A v \in Worker : LockRespected(v)
  PROVE  IInv'
<1>1. FollowUpsInv' /\ followUps' \subseteq FollowUpRows
  BY DEF Data, Database
<1>2. \A v \in Worker : StaysPut(v)
  BY DEF StaysPut, locks
<1>3. \A v \in Worker : HandlerInv(v)'
  BY <1>1, <1>2, OtherHandler
<1>4. Handlers'
  BY Parts DEF Handlers, locks
<1> QED BY <1>3, <1>4, PartsNext

\* The end of a request: its locks are free, the others' are held.
LEMMA FinishStep ==
  ASSUME IInv, NEW w \in Worker, Finish(w)
  PROVE  Handlers' /\ HandlerInv(w)' /\ \A v \in Worker \ {w} : StaysPut(v)
<1>0. Handlers
  BY Parts
<1>1. meetingLock' \in [Meeting -> Worker \cup {Nobody}]
  BY <1>0 DEF Handlers, Finish, ReleaseLocks
<1>2. sectionLock' \in [Meeting \X Section -> Worker \cup {Nobody}]
  BY <1>0 DEF Handlers, Finish, ReleaseLocks
<1>3. pc' \in [Worker -> Labels] /\ req' \in [Worker -> Requests]
  BY <1>0, TextTypes DEF Handlers, Finish, Goto, Labels
<1>4. pc'[w] = "idle" /\ req'[w] = NoRequest
  BY <1>0 DEF Handlers, Finish, Goto
<1>5. HandlerInv(w)'
  <2>1. \A m \in Meeting : meetingLock'[m] # w
    BY DEF Finish, ReleaseLocks
  <2>2. \A p \in Meeting \X Section : sectionLock'[p] # w
    BY DEF Finish, ReleaseLocks
  <2>3. LockInv(w)'
    BY <1>4, <2>1, <2>2 DEF LockInv, Held, HeldSections
  <2> QED BY <1>4, <2>3 DEF HandlerInv, RequestInv, ReadInv, InSchedule, InCancel, InFollowUp
<1>6. ASSUME NEW v \in Worker \ {w}
      PROVE  StaysPut(v)
  <2>1. pc'[v] = pc[v] /\ req'[v] = req[v]
    BY <1>0 DEF Handlers, Finish, Goto
  <2>2. \A m \in Meeting : meetingLock'[m] = v <=> meetingLock[m] = v
    BY DEF Finish, ReleaseLocks
  <2>3. \A p \in Meeting \X Section : sectionLock'[p] = v <=> sectionLock[p] = v
    BY DEF Finish, ReleaseLocks
  <2> QED BY <2>1, <2>2, <2>3 DEF StaysPut
<1> QED BY <1>1, <1>2, <1>3, <1>5, <1>6 DEF Handlers

\* A request that ends with a write.
LEMMA FinishedStep ==
  ASSUME IInv, NEW w \in Worker, Finish(w), Data', RowsOnlyGo,
         \A v \in Worker \ {w} : LockRespected(v)
  PROVE  IInv'
<1>1. Handlers' /\ HandlerInv(w)' /\ \A v \in Worker \ {w} : StaysPut(v)
  BY FinishStep
<1>2. FollowUpsInv' /\ followUps' \subseteq FollowUpRows
  BY DEF Data, Database
<1>3. ASSUME NEW v \in Worker
      PROVE  HandlerInv(v)'
  <2>1. CASE v = w
    BY <1>1, <2>1
  <2>2. CASE v # w
    BY <1>1, <1>2, <2>2, OtherHandler
  <2> QED BY <2>1, <2>2
<1> QED BY <1>1, <1>3, PartsNext

LEMMA UnchangedStep ==
  ASSUME IInv, NEW w \in Worker, FinishUnchanged(w)
  PROVE  IInv'
BY FinishStep, MovedStep DEF FinishUnchanged

-----------------------------------------------------------------------------
(* Requests begin *)

LEMMA BegunStep ==
  ASSUME IInv, NEW w \in Worker, NEW r \in Requests,
         NEW label \in {"add_lock", "lock_first", "dm_lock", "note_save", "edit_save"},
         Begin(w, label, r), RequestInv(w)', ReadInv(w)'
  PROVE  IInv'
<1>0. Handlers /\ HandlerInv(w)
  BY Parts
<1>1. UNCHANGED db /\ UNCHANGED locks
  BY DEF Begin
<1>2. Handlers' /\ pc[w] = "idle" /\ pc'[w] = label
  BY <1>0 DEF Handlers, Begin, Goto, At, locks, Labels
<1>3. LockInv(w)'
  BY <1>0, <1>2, <1>1 DEF HandlerInv, LockInv, Held, HeldSections, locks
<1>4. \A v \in Worker \ {w} : StaysPut(v)
  BY <1>0 DEF Handlers, Begin, Goto, locks, StaysPut
<1> QED BY <1>1, <1>2, <1>3, <1>4, MovedStep DEF HandlerInv

LEMMA BeginAddStep ==
  ASSUME IInv, NEW w \in Worker, NEW m \in Meeting, NEW s \in Section, NEW new \in Writes,
         BeginAdd(w, m, s, new)
  PROVE  IInv'
<1> DEFINE r == [NoRequest EXCEPT !.op = "add", !.target = m, !.section = s,
                                  !.copy = Written(new, EmptyText, EmptyText)]
<1>1. Written(new, EmptyText, EmptyText) \in Rows
  BY AddedRow DEF BeginAdd
<1>2. r \in Requests /\ r.op = "add" /\ r.target = m /\ r.section = s /\ r.copy \in Rows
  BY <1>1, TextTypes DEF NoRequest, Requests, OperationNames
<1>3. Begin(w, "add_lock", r)
  BY DEF BeginAdd
<1> HIDE DEF r
<1>4. pc'[w] = "add_lock" /\ req'[w] = r
  BY <1>3, Parts DEF Begin, Goto, Handlers
<1>5. RequestInv(w)' /\ ReadInv(w)'
  BY <1>2, <1>4 DEF RequestInv, ReadInv, InSchedule, InCancel, InFollowUp
<1> QED BY <1>2, <1>3, <1>5, BegunStep

LEMMA BeginScheduleStep ==
  ASSUME IInv, NEW w \in Worker, NEW i \in Item, NEW m \in Meeting, NEW s \in Section,
         BeginSchedule(w, i, m, s)
  PROVE  IInv'
<1> DEFINE r == [NoRequest EXCEPT !.op = "schedule", !.item = i, !.source = home[i],
                                  !.target = m, !.section = s]
<1>1. home[i] \in Meeting /\ home[i] # m /\ i <= lastItem
  BY Parts DEF BeginSchedule, Data, Database, ItemsInv
<1>2. r \in Requests /\ r.op = "schedule" /\ r.item = i /\ r.source = home[i] /\ r.target = m /\ r.section = s
  BY <1>1, TextTypes DEF NoRequest, Requests, OperationNames
<1>3. Begin(w, "lock_first", r)
  BY DEF BeginSchedule
<1> HIDE DEF r
<1>4. pc'[w] = "lock_first" /\ req'[w] = r /\ home' = home /\ lastItem' = lastItem
  BY <1>3, Parts DEF Begin, Goto, Handlers, db, items
<1>5. RequestInv(w)' /\ ReadInv(w)'
  BY <1>1, <1>2, <1>4 DEF RequestInv, ReadInv, InSchedule, InCancel, InFollowUp
<1> QED BY <1>2, <1>3, <1>5, BegunStep

LEMMA BeginCancelStep ==
  ASSUME IInv, NEW w \in Worker, NEW f \in followUps, BeginCancel(w, f)
  PROVE  IInv'
<1> DEFINE r == [NoRequest EXCEPT !.op = "cancel", !.item = f.item,
                                  !.source = home[f.source], !.target = f.target]
<1>1. f \in FollowUpRows /\ home[f.source] \in Meeting /\ home[f.source] # f.target /\ f.item <= lastItem
  BY Parts DEF Data, Database, FollowUpsInv, FollowUpRows
<1>2. r \in Requests /\ r.op = "cancel" /\ r.item = f.item /\ r.source = home[f.source] /\ r.target = f.target
  BY <1>1, TextTypes DEF NoRequest, Requests, OperationNames, FollowUpRows
<1>3. Begin(w, "lock_first", r)
  BY DEF BeginCancel
<1> HIDE DEF r
<1>4. pc'[w] = "lock_first" /\ req'[w] = r /\ home' = home /\ lastItem' = lastItem /\ followUps' = followUps
  BY <1>3, Parts DEF Begin, Goto, Handlers, db, items
<1>5. RequestInv(w)'
  BY <1>1, <1>2, <1>4 DEF RequestInv, InFollowUp, FollowUpRows
<1>6. \A g \in followUps : g.item = f.item => g = f
  BY Parts DEF Data, FollowUpsInv
<1>7. ReadInv(w)'
  BY <1>1, <1>2, <1>4, <1>6 DEF ReadInv, InSchedule, InCancel, InFollowUp
<1> QED BY <1>2, <1>3, <1>5, <1>7, BegunStep

LEMMA BeginDeleteMeetingStep ==
  ASSUME IInv, NEW w \in Worker, NEW m \in Meeting, BeginDeleteMeeting(w, m)
  PROVE  IInv'
<1> DEFINE r == [NoRequest EXCEPT !.op = "delete_meeting", !.target = m]
<1>1. r \in Requests /\ r.target = m
  BY TextTypes DEF NoRequest, Requests, OperationNames
<1>2. Begin(w, "dm_lock", r)
  BY DEF BeginDeleteMeeting
<1> HIDE DEF r
<1>3. pc'[w] = "dm_lock" /\ req'[w] = r
  BY <1>2, Parts DEF Begin, Goto, Handlers
<1>4. RequestInv(w)' /\ ReadInv(w)'
  BY <1>1, <1>3 DEF RequestInv, ReadInv, InSchedule, InCancel, InFollowUp
<1> QED BY <1>1, <1>2, <1>4, BegunStep

LEMMA BeginNoteStep ==
  ASSUME IInv, NEW w \in Worker, NEW i \in Item, NEW op \in {"note", "unnote"},
         BeginNote(w, i, op)
  PROVE  IInv'
<1> DEFINE r == [NoRequest EXCEPT !.op = op, !.item = i]
<1>1. r \in Requests /\ r.item = i
  BY TextTypes DEF NoRequest, Requests, OperationNames
<1>2. Begin(w, "note_save", r)
  BY DEF BeginNote
<1> HIDE DEF r
<1>3. pc'[w] = "note_save" /\ req'[w] = r
  BY <1>2, Parts DEF Begin, Goto, Handlers
<1>4. RequestInv(w)' /\ ReadInv(w)'
  BY <1>1, <1>3 DEF RequestInv, ReadInv, InSchedule, InCancel, InFollowUp
<1> QED BY <1>1, <1>2, <1>4, BegunStep

LEMMA BeginEditStep ==
  ASSUME IInv, NEW w \in Worker, NEW i \in Item, NEW new \in Writes, BeginEdit(w, i, new)
  PROVE  IInv'
<1> DEFINE copy == IF new.content = None THEN text[i] ELSE NoText
           r == [NoRequest EXCEPT !.op = "edit", !.item = i, !.new = new, !.copy = copy]
<1>1. text[i] \in Rows /\ copy \in Texts /\ new \in Texts
  BY Parts, TextTypes DEF BeginEdit, Data, ItemsInv
<1>2. r \in Requests /\ r.item = i /\ r.new = new /\ r.copy = copy
  BY <1>1, TextTypes DEF NoRequest, Requests, OperationNames
<1>3. new.content = None => copy \in Rows
  BY <1>1
<1>4. Begin(w, "edit_save", r)
  BY DEF BeginEdit
<1> HIDE DEF copy, r
<1>5. pc'[w] = "edit_save" /\ req'[w] = r
  BY <1>4, Parts DEF Begin, Goto, Handlers
<1>6. RequestInv(w)' /\ ReadInv(w)'
  BY <1>2, <1>3, <1>5 DEF RequestInv, ReadInv, InSchedule, InCancel, InFollowUp
<1> QED BY <1>2, <1>4, <1>6, BegunStep

LEMMA BeginRequestStep ==
  ASSUME IInv, NEW w \in Worker, BeginRequest(w)
  PROVE  IInv'
BY BeginAddStep, BeginScheduleStep, BeginCancelStep, BeginDeleteMeetingStep, BeginNoteStep,
   BeginEditStep DEF BeginRequest, Writes

-----------------------------------------------------------------------------
(* Row locks are taken *)

\* The two Meetings of a follow-up, in the order of their keys.
LEMMA KeysOrdered ==
  ASSUME IInv, NEW w \in Worker, pc[w] \in InFollowUp
  PROVE  /\ FirstKey(w) \in Meeting /\ SecondKey(w) \in Meeting
         /\ FirstKey(w) < SecondKey(w)
         /\ Keys(w) = {FirstKey(w), SecondKey(w)}
<1> DEFINE a == req[w].source
           b == req[w].target
<1>1. a \in Meeting /\ b \in Meeting /\ a # b /\ a \in Nat /\ b \in Nat
  BY Parts, Numbers DEF HandlerInv, RequestInv
<1>2. \E m \in Keys(w) : \A n \in Keys(w) : m <= n
  <2>1. CASE a <= b
    BY <1>1, <2>1 DEF Keys
  <2>2. CASE b <= a
    BY <1>1, <2>2 DEF Keys
  <2> QED BY <1>1, <2>1, <2>2
<1>3. FirstKey(w) \in Keys(w) /\ \A n \in Keys(w) : FirstKey(w) <= n
  BY <1>2 DEF FirstKey
<1>4. \E m \in Keys(w) : m # FirstKey(w)
  BY <1>1, <1>3 DEF Keys
<1>5. SecondKey(w) \in Keys(w) /\ SecondKey(w) # FirstKey(w)
  BY <1>4 DEF SecondKey
<1> HIDE DEF a, b
<1>6. Keys(w) = {a, b}
  BY DEF Keys, a, b
<1>7. Keys(w) = {FirstKey(w), SecondKey(w)}
  BY <1>1, <1>3, <1>5, <1>6
<1> QED BY <1>1, <1>3, <1>5, <1>6, <1>7

LEMMA LockedMeetingStep ==
  ASSUME IInv, NEW w \in Worker, NEW m \in Meeting, NEW label \in Labels,
         Free(m), meetingLock' = [meetingLock EXCEPT ![m] = w], Goto(w, label),
         UNCHANGED <<db, sectionLock, req>>,
         Held(w)' = Held(w) \cup {m}, HeldSections(w)' = HeldSections(w),
         RequestInv(w)', ReadInv(w)'
  PROVE  IInv'
<1>0. Handlers /\ LockInv(w)
  BY Parts DEF HandlerInv
<1>1. Handlers'
  BY <1>0 DEF Handlers, Goto
<1>2. \A n \in Meeting : meetingLock'[n] = w <=> meetingLock[n] = w \/ n = m
  BY <1>0 DEF Handlers
<1>3. LockInv(w)'
  BY <1>0, <1>2 DEF LockInv
<1>4. ASSUME NEW v \in Worker \ {w}
      PROVE  StaysPut(v)
  <2>1. \A n \in Meeting : meetingLock'[n] = v <=> meetingLock[n] = v
    BY <1>0 DEF Handlers, Free
  <2> QED BY <1>0, <2>1 DEF Handlers, Goto, StaysPut
<1>5. UNCHANGED db
  OBVIOUS
<1> QED BY <1>1, <1>3, <1>4, <1>5, MovedStep DEF HandlerInv

LEMMA LockFirstStep ==
  ASSUME IInv, NEW w \in Worker, LockFirst(w)
  PROVE  IInv'
<1>0. Handlers /\ RequestInv(w) /\ ReadInv(w) /\ pc[w] = "lock_first"
  BY Parts DEF HandlerInv, LockFirst, At
<1>1. FirstKey(w) \in Meeting
  BY <1>0, KeysOrdered DEF InFollowUp
<1>2. pc'[w] = "lock_second" /\ req' = req /\ UNCHANGED db
  BY <1>0 DEF LockFirst, Goto, Handlers
<1>3. Held(w)' = Held(w) \cup {FirstKey(w)} /\ HeldSections(w)' = HeldSections(w)
  BY <1>0, <1>2, FirstKeyKept DEF Held, HeldSections
<1>4. RequestInv(w)'
  BY <1>0, <1>2 DEF RequestInv, InFollowUp, db, items
<1>5. ReadInv(w)'
  BY <1>0, <1>2 DEF ReadInv, InSchedule, InCancel, InFollowUp, db, items
<1> QED BY <1>1, <1>3, <1>4, <1>5, LockedMeetingStep DEF LockFirst, Labels

LEMMA LockSecondStep ==
  ASSUME IInv, NEW w \in Worker, LockSecond(w)
  PROVE  IInv'
<1> DEFINE label == IF req[w].op = "schedule" THEN "sch_section" ELSE "can_commit"
<1>0. Handlers /\ RequestInv(w) /\ ReadInv(w) /\ pc[w] = "lock_second"
  BY Parts DEF HandlerInv, LockSecond, At
<1>1. SecondKey(w) \in Meeting /\ Keys(w) = {FirstKey(w), SecondKey(w)}
  BY <1>0, KeysOrdered DEF InFollowUp
<1>2. pc'[w] = label /\ req' = req /\ UNCHANGED db /\ req[w].op \in {"schedule", "cancel"}
  BY <1>0 DEF LockSecond, Goto, Handlers, RequestInv, InFollowUp
<1>3. Held(w)' = Held(w) \cup {SecondKey(w)} /\ HeldSections(w)' = HeldSections(w)
  BY <1>0, <1>1, <1>2, FirstKeyKept DEF Held, HeldSections
<1>4. RequestInv(w)'
  BY <1>0, <1>2 DEF RequestInv, InFollowUp, db, items
<1>5. ReadInv(w)'
  BY <1>0, <1>2 DEF ReadInv, InSchedule, InCancel, InFollowUp, db, items
<1> QED BY <1>1, <1>3, <1>4, <1>5, LockedMeetingStep DEF LockSecond, Labels

LEMMA DmLockStep ==
  ASSUME IInv, NEW w \in Worker, DmLock(w)
  PROVE  IInv'
<1> DEFINE m == req[w].target
<1>0. Handlers /\ RequestInv(w) /\ ReadInv(w) /\ pc[w] = "dm_lock"
  BY Parts DEF HandlerInv, DmLock, At
<1>1. CASE FinishUnchanged(w)
  BY <1>1, UnchangedStep
<1>2. CASE ~FinishUnchanged(w)
  <2>1. /\ meetingLock' = [meetingLock EXCEPT ![m] = w] /\ Free(m) /\ Goto(w, "dm_commit")
        /\ UNCHANGED <<db, sectionLock, req>>
    BY <1>2 DEF DmLock
  <2>2. pc'[w] = "dm_commit" /\ req' = req /\ m \in Meeting
    BY <1>0, <2>1 DEF Goto, Handlers, RequestInv
  <2>3. Held(w)' = Held(w) \cup {m} /\ HeldSections(w)' = HeldSections(w)
    BY <1>0, <2>2 DEF Held, HeldSections
  <2>4. RequestInv(w)' /\ ReadInv(w)'
    BY <1>0, <2>1, <2>2 DEF RequestInv, ReadInv, InSchedule, InCancel, InFollowUp
  <2> HIDE DEF m
  <2> QED BY <2>1, <2>2, <2>3, <2>4, LockedMeetingStep DEF Labels
<1> QED BY <1>1, <1>2

LEMMA LockedSectionStep ==
  ASSUME IInv, NEW w \in Worker, NEW p \in Meeting \X Section, NEW label \in Labels,
         sectionLock[p] = Nobody, sectionLock' = [sectionLock EXCEPT ![p] = w], Goto(w, label),
         UNCHANGED <<db, meetingLock, req>>,
         Held(w)' = Held(w), HeldSections(w)' = HeldSections(w) \cup {p},
         RequestInv(w)', ReadInv(w)'
  PROVE  IInv'
<1>0. Handlers /\ LockInv(w)
  BY Parts DEF HandlerInv
<1>1. Handlers'
  BY <1>0 DEF Handlers, Goto
<1>2. \A q \in Meeting \X Section : sectionLock'[q] = w <=> sectionLock[q] = w \/ q = p
  BY <1>0 DEF Handlers
<1>3. LockInv(w)'
  BY <1>0, <1>2 DEF LockInv
<1>4. ASSUME NEW v \in Worker \ {w}
      PROVE  StaysPut(v)
  <2>1. \A q \in Meeting \X Section : sectionLock'[q] = v <=> sectionLock[q] = v
    BY <1>0 DEF Handlers
  <2> QED BY <1>0, <2>1 DEF Handlers, Goto, StaysPut
<1>5. UNCHANGED db
  OBVIOUS
<1> QED BY <1>1, <1>3, <1>4, <1>5, MovedStep DEF HandlerInv

LEMMA AddLockStep ==
  ASSUME IInv, NEW w \in Worker, AddLock(w)
  PROVE  IInv'
<1> DEFINE p == <<req[w].target, req[w].section>>
<1>0. Handlers /\ RequestInv(w) /\ ReadInv(w) /\ pc[w] = "add_lock"
  BY Parts DEF HandlerInv, AddLock, At
<1>1. CASE FinishUnchanged(w)
  BY <1>1, UnchangedStep
<1>2. CASE ~FinishUnchanged(w)
  <2>1. /\ sectionLock' = [sectionLock EXCEPT ![p] = w] /\ sectionLock[p] = Nobody
        /\ Goto(w, "add_commit") /\ UNCHANGED <<db, meetingLock, req>>
    BY <1>2 DEF AddLock
  <2>2. pc'[w] = "add_commit" /\ req' = req /\ p \in Meeting \X Section
    BY <1>0, <2>1 DEF Goto, Handlers, RequestInv
  <2>3. Held(w)' = Held(w) /\ HeldSections(w)' = HeldSections(w) \cup {p}
    BY <1>0, <2>2 DEF Held, HeldSections
  <2>4. RequestInv(w)' /\ ReadInv(w)'
    BY <1>0, <2>1, <2>2 DEF RequestInv, ReadInv, InSchedule, InCancel, InFollowUp
  <2> HIDE DEF p
  <2> QED BY <2>1, <2>2, <2>3, <2>4, LockedSectionStep DEF Labels
<1> QED BY <1>1, <1>2

LEMMA SchSectionStep ==
  ASSUME IInv, NEW w \in Worker, SchSection(w)
  PROVE  IInv'
<1> DEFINE p == <<req[w].target, req[w].section>>
<1>0. Handlers /\ RequestInv(w) /\ ReadInv(w) /\ pc[w] = "sch_section"
  BY Parts DEF HandlerInv, SchSection, At
<1>1. CASE FinishUnchanged(w)
  BY <1>1, UnchangedStep
<1>2. CASE ~FinishUnchanged(w)
  <2>1. /\ sectionLock' = [sectionLock EXCEPT ![p] = w] /\ sectionLock[p] = Nobody
        /\ Goto(w, "sch_commit") /\ UNCHANGED <<db, meetingLock, req>> /\ ~ScheduleRefused(w)
    BY <1>2 DEF SchSection
  <2>2. pc'[w] = "sch_commit" /\ req' = req /\ p \in Meeting \X Section
    BY <1>0, <2>1 DEF Goto, Handlers, RequestInv, ReadInv, InSchedule, InFollowUp
  <2>3. Held(w)' = Held(w) /\ HeldSections(w)' = HeldSections(w) \cup {p}
    BY <1>0, <2>2 DEF Held, HeldSections, Keys
  <2>4. RequestInv(w)'
    BY <1>0, <2>1, <2>2 DEF RequestInv, InFollowUp, db, items
  <2>5. ~ScheduleRefused(w)'
    BY <2>1 DEF ScheduleRefused, ActiveFrom, db, items
  <2>6. ReadInv(w)'
    BY <1>0, <2>1, <2>2, <2>5 DEF RequestInv, ReadInv, InSchedule, InCancel, InFollowUp, db, items
  <2> HIDE DEF p
  <2> QED BY <2>1, <2>2, <2>3, <2>4, <2>6, LockedSectionStep DEF Labels
<1> QED BY <1>1, <1>2

-----------------------------------------------------------------------------
(* Rows appear and disappear *)

LEMMA Inserted ==
  ASSUME IInv, NEW m \in Meeting, NEW s \in Section, NEW t \in Rows, InsertItem(m, s, t)
  PROVE  /\ lastItem \in Nat /\ lastItem + 1 \in Item /\ lastItem' = lastItem + 1
         /\ home[lastItem + 1] = None /\ home'[lastItem + 1] = m
         /\ \A i \in Item : i # lastItem + 1 => home'[i] = home[i]
         /\ home' \in [Item -> Meeting \cup {None}]
         /\ section' \in [Item -> Section \cup {None}]
         /\ text' \in [Item -> Texts]
         /\ ItemsInv'
<1> DEFINE n == lastItem + 1
<1>0. Data /\ Database
  BY Parts DEF Data
<1>1. lastItem \in Nat /\ n \in Item /\ lastItem' = n
  BY <1>0, Numbers DEF Database, InsertItem
<1>2. home[n] = None
  BY <1>0, <1>1, Numbers DEF Data, ItemsInv
<1>3. home' = [home EXCEPT ![n] = m] /\ section' = [section EXCEPT ![n] = s] /\ text' = [text EXCEPT ![n] = t]
  BY DEF InsertItem
<1> HIDE DEF n
<1>4. home' \in [Item -> Meeting \cup {None}] /\ home'[n] = m /\ \A i \in Item : i # n => home'[i] = home[i]
  BY <1>0, <1>1, <1>3 DEF Database
<1>5. section' \in [Item -> Section \cup {None}] /\ section'[n] = s /\ \A i \in Item : i # n => section'[i] = section[i]
  BY <1>0, <1>1, <1>3 DEF Database
<1>6. text' \in [Item -> Texts] /\ text'[n] = t /\ \A i \in Item : i # n => text'[i] = text[i]
  BY <1>0, <1>1, <1>3, TextTypes DEF Database
<1>7. ASSUME NEW i \in Item, home'[i] # None
      PROVE  i <= lastItem' /\ section'[i] \in Section /\ text'[i] \in Rows
  <2>1. CASE i = n
    BY <1>1, <1>5, <1>6, <2>1, Numbers
  <2>2. CASE i # n
    <3>1. i <= lastItem /\ section[i] \in Section /\ text[i] \in Rows
      BY <1>0, <1>4, <1>7, <2>2 DEF Data, ItemsInv
    <3>2. i <= lastItem'
      BY <1>1, <3>1, Numbers DEF n
    <3> QED BY <1>5, <1>6, <2>2, <3>1, <3>2
  <2> QED BY <2>1, <2>2
<1>8. ItemsInv'
  BY <1>7 DEF ItemsInv
<1> QED BY <1>1, <1>2, <1>4, <1>5, <1>6, <1>8 DEF n

LEMMA Removed ==
  ASSUME IInv, NEW S \in SUBSET Item, RemoveItems(S)
  PROVE  /\ lastItem \in Nat /\ lastItem' = lastItem
         /\ \A i \in Item : home'[i] = IF i \in S THEN None ELSE home[i]
         /\ home' \in [Item -> Meeting \cup {None}]
         /\ section' \in [Item -> Section \cup {None}]
         /\ text' \in [Item -> Texts]
         /\ noted' \subseteq Item /\ linked' \subseteq Item
         /\ ItemsInv'
<1>0. Data /\ Database
  BY Parts DEF Data
<1>1. lastItem \in Nat /\ lastItem' = lastItem
  BY <1>0, Numbers DEF Database, RemoveItems
<1>2. home' \in [Item -> Meeting \cup {None}] /\ \A i \in Item : home'[i] = IF i \in S THEN None ELSE home[i]
  BY <1>0 DEF Database, RemoveItems
<1>3. section' \in [Item -> Section \cup {None}] /\ \A i \in Item \ S : section'[i] = section[i]
  BY <1>0 DEF Database, RemoveItems
<1>4. text' \in [Item -> Texts] /\ \A i \in Item \ S : text'[i] = text[i]
  BY <1>0, TextTypes DEF Database, RemoveItems
<1>5. noted' \subseteq Item /\ linked' \subseteq Item
  BY <1>0 DEF Database, RemoveItems
<1>6. ItemsInv'
  BY <1>0, <1>1, <1>2, <1>3, <1>4 DEF Data, ItemsInv
<1> QED BY <1>1, <1>2, <1>3, <1>4, <1>5, <1>6

\* The rows of the agenda and the records stay as they are.
LEMMA RowsKept ==
  ASSUME IInv, UNCHANGED <<home, section, lastItem, followUps>>,
         \A i \in Item : home[i] # None => text'[i] \in Rows
  PROVE  ItemsInv' /\ FollowUpsInv' /\ RowsOnlyGo
<1>0. Data /\ Database
  BY Parts DEF Data
<1>1. ItemsInv'
  BY <1>0 DEF Data, ItemsInv
<1>2. FollowUpsInv'
  <2>1. \A i \in Item : ActiveFrom(i)' = ActiveFrom(i)
    BY DEF ActiveFrom
  <2>2. \A f \in followUps : f.source \in Item
    BY <1>0 DEF Database, FollowUpRows
  <2> QED BY <1>0, <2>1, <2>2 DEF Data, FollowUpsInv
<1>3. RowsOnlyGo
  BY <1>0, Numbers DEF Database, RowsOnlyGo
<1> QED BY <1>1, <1>2, <1>3

\* Records stay, and so do the rows they need.
LEMMA RecordsKept ==
  ASSUME IInv, followUps' = followUps, lastItem' \in Nat, lastItem <= lastItem',
         \A f \in followUps : /\ home'[f.source] = home[f.source]
                              /\ f.status = "scheduled" => home'[f.item] = home[f.item]
  PROVE  FollowUpsInv'
<1>0. Data /\ Database
  BY Parts DEF Data
<1>4. lastItem \in Nat
  BY <1>0, Numbers DEF Database
<1>1. \A i \in Item : ActiveFrom(i)' = ActiveFrom(i)
  BY DEF ActiveFrom
<1>2. \A f \in followUps : f.source \in Item /\ f.item \in Nat
  BY <1>0, Numbers DEF Database, FollowUpRows
<1>3. ASSUME NEW f \in followUps
      PROVE  /\ home'[f.source] \notin {None, f.target}
             /\ f.item <= lastItem'
             /\ \A g \in followUps : g.item = f.item => g = f
             /\ f.status = "scheduled" => f.kept /\ home'[f.item] = f.target /\ ActiveFrom(f.source)' = {f}
  <2>1. /\ home[f.source] \notin {None, f.target} /\ f.item <= lastItem
        /\ \A g \in followUps : g.item = f.item => g = f
    BY <1>0 DEF Data, FollowUpsInv
  <2>2. f.status = "scheduled" => f.kept /\ home[f.item] = f.target /\ ActiveFrom(f.source) = {f}
    BY <1>0 DEF Data, FollowUpsInv
  <2>3. f.item <= lastItem'
    BY <1>2, <1>4, <2>1
  <2> QED BY <1>1, <1>2, <2>1, <2>2, <2>3
<1> QED BY <1>3 DEF FollowUpsInv

-----------------------------------------------------------------------------
(* Items are created *)

LEMMA AddCommitStep ==
  ASSUME IInv, NEW w \in Worker, AddCommit(w)
  PROVE  IInv'
<1>0. Data /\ Database /\ RequestInv(w)
  BY Parts DEF Data, HandlerInv
<1>1. req[w].target \in Meeting /\ req[w].section \in Section /\ req[w].copy \in Rows
  BY <1>0 DEF AddCommit, At, RequestInv
<1>2. /\ InsertItem(req[w].target, req[w].section, req[w].copy) /\ Finish(w)
      /\ UNCHANGED <<meetingStatus, current, outcome, noted, linked, followUps>>
  BY DEF AddCommit
<1>3. /\ lastItem \in Nat /\ lastItem' = lastItem + 1 /\ lastItem + 1 \in Item
      /\ home[lastItem + 1] = None
      /\ \A i \in Item : i # lastItem + 1 => home'[i] = home[i]
  BY <1>1, <1>2, Inserted
<1>4. Database' /\ ItemsInv'
  <2>1. /\ home' \in [Item -> Meeting \cup {None}] /\ section' \in [Item -> Section \cup {None}]
        /\ text' \in [Item -> Texts] /\ ItemsInv'
    BY <1>1, <1>2, Inserted
  <2> QED BY <1>0, <1>2, <1>3, <2>1 DEF Database
<1>5. \A i \in Item : home[i] # None => home'[i] = home[i]
  BY <1>3
<1>6. FollowUpsInv'
  <2>1. ASSUME NEW f \in followUps
        PROVE  home'[f.source] = home[f.source] /\ (f.status = "scheduled" => home'[f.item] = home[f.item])
    BY <1>0, <1>5 DEF Data, Database, FollowUpRows, FollowUpsInv
  <2>2. lastItem' \in Nat /\ lastItem <= lastItem' /\ followUps' = followUps
    BY <1>2, <1>3
  <2> QED BY <2>1, <2>2, RecordsKept
<1>7. PointerOnLiveAgenda'
  BY <1>0, <1>2, <1>5 DEF Data, Database, PointerOnLiveAgenda
<1>8. RowsOnlyGo
  BY <1>2, <1>3, Numbers DEF RowsOnlyGo
<1>9. \A v \in Worker : LockRespected(v)
  BY <1>2, <1>5 DEF LockRespected
<1> QED BY <1>2, <1>4, <1>6, <1>7, <1>8, <1>9, FinishedStep DEF Data

\* What the schedule has read stands at its commit.
LEMMA ScheduleReady ==
  ASSUME IInv, NEW w \in Worker, pc[w] = "sch_commit"
  PROVE  /\ req[w].item \in Item /\ req[w].source \in Meeting /\ req[w].target \in Meeting
         /\ req[w].source # req[w].target /\ req[w].section \in Section
         /\ home[req[w].item] = req[w].source /\ ActiveFrom(req[w].item) = {}
         /\ meetingStatus[req[w].target] = "upcoming"
         /\ \A v \in Worker \ {w} :
              meetingLock[req[w].source] # v /\ meetingLock[req[w].target] # v
<1>0. RequestInv(w) /\ ReadInv(w) /\ LockInv(w)
  BY Parts DEF HandlerInv
<1>1. /\ req[w].item \in Item /\ req[w].source \in Meeting /\ req[w].target \in Meeting
      /\ req[w].source # req[w].target /\ req[w].op = "schedule"
  BY <1>0 DEF RequestInv, InFollowUp
<1>2. ~ScheduleRefused(w)
  BY <1>0 DEF ReadInv
<1>3. req[w].section \in Section /\ home[req[w].item] = req[w].source
  BY <1>0, <1>1, <1>2 DEF ReadInv, InSchedule, InFollowUp, ScheduleRefused
<1>4. meetingLock[req[w].source] = w /\ meetingLock[req[w].target] = w
  BY <1>0, <1>1 DEF LockInv, Held, Keys
<1> QED BY <1>1, <1>2, <1>3, <1>4 DEF ScheduleRefused

\* The record a schedule writes.
Traced(w) ==
  [source |-> req[w].item, target |-> req[w].target, item |-> lastItem + 1,
   status |-> "scheduled", kept |-> TRUE]

LEMMA AdvanceIs ==
  ASSUME Data, NEW m \in Meeting, NEW i \in Item, home[i] = m, NEW wrap \in BOOLEAN
  PROVE  /\ Advance(m, i, wrap) \in Item \cup {None}
         /\ Advance(m, i, wrap) # None => home[Advance(m, i, wrap)] = m /\ meetingStatus[m] = "live"
<1>0. current[m] \in Item \cup {None} /\ (current[m] # None => home[current[m]] = m /\ meetingStatus[m] = "live")
  BY DEF Data, Database, PointerOnLiveAgenda
<1>1. CASE current[m] = i
  <2>1. NextOpen(m, i, wrap) \in Open(m) \/ NextOpen(m, i, wrap) = None
    BY NextOpenIs DEF Data
  <2>2. Advance(m, i, wrap) = NextOpen(m, i, wrap) /\ meetingStatus[m] = "live"
    BY <1>0, <1>1 DEF Advance
  <2>3. CASE NextOpen(m, i, wrap) \in Open(m)
    BY <2>2, <2>3 DEF Open, ItemsOf
  <2>4. CASE NextOpen(m, i, wrap) = None
    BY <2>2, <2>4
  <2> QED BY <2>1, <2>3, <2>4
<1>2. CASE current[m] # i
  BY <1>0, <1>2 DEF Advance
<1> QED BY <1>1, <1>2

LEMMA SchCommitStep ==
  ASSUME IInv, NEW w \in Worker, SchCommit(w)
  PROVE  IInv'
<1> DEFINE i == req[w].item
           m == req[w].source
           g == Traced(w)
           n == lastItem + 1
<1>0. Data /\ Database
  BY Parts DEF Data
<1>1. /\ i \in Item /\ m \in Meeting /\ req[w].target \in Meeting /\ m # req[w].target
      /\ req[w].section \in Section /\ home[i] = m /\ ActiveFrom(i) = {}
      /\ \A v \in Worker \ {w} : meetingLock[m] # v
  BY ScheduleReady DEF SchCommit, At
<1>2. /\ InsertItem(req[w].target, req[w].section, CopyForTarget(text[i])) /\ Finish(w)
      /\ followUps' = followUps \cup {g}
      /\ outcome' = [outcome EXCEPT ![i] = "follow_up"]
      /\ current' = [current EXCEPT ![m] = Advance(m, i, FALSE)]
      /\ UNCHANGED <<meetingStatus, noted, linked>>
  BY DEF SchCommit, Traced
<1>3. CopyForTarget(text[i]) \in Rows
  BY <1>0, <1>1, CopiedRow DEF Data, ItemsInv
<1>4. /\ lastItem \in Nat /\ lastItem' = n /\ n \in Item
      /\ home[n] = None /\ home'[n] = req[w].target
      /\ \A j \in Item : j # n => home'[j] = home[j]
      /\ home' \in [Item -> Meeting \cup {None}] /\ section' \in [Item -> Section \cup {None}]
      /\ text' \in [Item -> Texts] /\ ItemsInv'
  BY <1>1, <1>2, <1>3, Inserted
<1>5. /\ g \in FollowUpRows /\ g.source = i /\ g.target = req[w].target /\ g.item = n
      /\ g.status = "scheduled" /\ g.kept
  BY <1>1, <1>4 DEF Traced, FollowUpRows
<1>6. /\ Advance(m, i, FALSE) \in Item \cup {None}
      /\ Advance(m, i, FALSE) # None => home[Advance(m, i, FALSE)] = m /\ meetingStatus[m] = "live"
  BY <1>0, <1>1, AdvanceIs
<1> HIDE DEF i, m, g, n
<1>7. Database'
  BY <1>0, <1>2, <1>4, <1>5, <1>6 DEF Database
<1>8. \A j \in Item : home[j] # None => home'[j] = home[j] /\ j # n
  BY <1>4
<1>9. \A f \in followUps : /\ f.source \in Item /\ f.item \in Item /\ f.item # n
                           /\ f.item <= lastItem /\ home[f.source] \notin {None, f.target}
  BY <1>0, <1>4, Numbers DEF Data, Database, FollowUpRows, FollowUpsInv, n
<1>10. FollowUpsInv'
  <2>1. ASSUME NEW f \in followUps
        PROVE  /\ home'[f.source] \notin {None, f.target} /\ f.item <= lastItem'
               /\ \A h \in followUps' : h.item = f.item => h = f
    <3>1. home'[f.source] \notin {None, f.target}
      BY <1>8, <1>9
    <3>4. f.item \in Nat /\ f.item <= lastItem
      BY <1>9, Numbers
    <3>2. f.item <= lastItem'
      BY <1>4, <3>4 DEF n
    <3>3. \A h \in followUps' : h.item = f.item => h = f
      BY <1>0, <1>2, <1>5, <1>9 DEF Data, FollowUpsInv
    <3> QED BY <3>1, <3>2, <3>3
  <2>2. ASSUME NEW f \in followUps, f.status = "scheduled"
        PROVE  f.kept /\ home'[f.item] = f.target /\ ActiveFrom(f.source)' = {f}
    <3>1. f.kept /\ home[f.item] = f.target /\ ActiveFrom(f.source) = {f} /\ f.target \in Meeting
      BY <1>0, <2>2 DEF Data, Database, FollowUpsInv, FollowUpRows
    <3>2. f.source # i
      BY <1>1, <3>1
    <3>3. ActiveFrom(f.source)' = {f}
      BY <1>2, <1>5, <3>1, <3>2 DEF ActiveFrom
    <3> QED BY <1>8, <1>9, <3>1, <3>3
  <2>3. /\ home'[g.source] \notin {None, g.target} /\ g.item <= lastItem'
        /\ \A h \in followUps' : h.item = g.item => h = g
    BY <1>1, <1>2, <1>4, <1>5, <1>8, <1>9, Numbers
  <2>4. home'[g.item] = g.target
    BY <1>4, <1>5
  <2>5. ASSUME NEW h, h = g
        PROVE  ActiveFrom(h.source)' = {h}
    <3>1. \A f \in followUps : ~(f.source = i /\ f.status = "scheduled")
      BY <1>1 DEF ActiveFrom
    <3>2. \A f \in followUps' : f.source = h.source /\ f.status = "scheduled" <=> f = h
      BY <1>2, <1>5, <2>5, <3>1
    <3>3. h \in followUps'
      BY <1>2, <2>5
    <3> QED BY <3>2, <3>3 DEF ActiveFrom
  <2>6. ASSUME NEW f \in followUps'
        PROVE  /\ home'[f.source] \notin {None, f.target} /\ f.item <= lastItem'
               /\ \A h \in followUps' : h.item = f.item => h = f
               /\ f.status = "scheduled" =>
                    f.kept /\ home'[f.item] = f.target /\ ActiveFrom(f.source)' = {f}
    <3>1. CASE f \in followUps
      BY <2>1, <2>2, <3>1
    <3>2. CASE f = g
      BY <1>5, <2>3, <2>4, <2>5, <3>2
    <3> QED BY <1>2, <3>1, <3>2
  <2> QED BY <2>6 DEF FollowUpsInv
<1>11. PointerOnLiveAgenda'
  <2>1. ASSUME NEW k \in Meeting, current'[k] # None
        PROVE  meetingStatus'[k] = "live" /\ home'[current'[k]] = k
    <3>1. CASE k = m
      <4>1. current'[m] = Advance(m, i, FALSE)
        BY <1>0, <1>1, <1>2 DEF Database
      <4>2. home[current'[m]] = m /\ meetingStatus[m] = "live" /\ current'[m] \in Item
        BY <1>6, <2>1, <3>1, <4>1
      <4> QED BY <1>1, <1>2, <1>8, <3>1, <4>2
    <3>2. CASE k # m
      BY <1>0, <1>2, <1>8, <2>1, <3>2 DEF Data, Database, PointerOnLiveAgenda
    <3> QED BY <3>1, <3>2
  <2> QED BY <2>1 DEF PointerOnLiveAgenda
<1>12. RowsOnlyGo
  <2>1. lastItem' \in Nat /\ lastItem <= lastItem' /\ g.item > lastItem
    BY <1>4, <1>5 DEF n
  <2>2. \A j \in Item : j <= lastItem => home'[j] \in {home[j], None}
    BY <1>4, Numbers DEF n
  <2> QED BY <1>2, <2>1, <2>2 DEF RowsOnlyGo
<1>13. ASSUME NEW v \in Worker \ {w}
       PROVE  LockRespected(v)
  BY <1>1, <1>2, <1>5, <1>8 DEF LockRespected
<1> QED BY <1>2, <1>4, <1>7, <1>10, <1>11, <1>12, <1>13, FinishedStep DEF Data

-----------------------------------------------------------------------------
(* Items and records disappear *)

\* What the cancellation has read stands at its commit.
LEMMA CancelReady ==
  ASSUME IInv, NEW w \in Worker, pc[w] = "can_commit", NEW f \in followUps,
         f.item = req[w].item, ~CancelRefused(f)
  PROVE  /\ f \in FollowUpRows /\ f.status = "scheduled" /\ f.kept
         /\ outcome[f.source] = "follow_up"
         /\ meetingStatus[f.target] = "upcoming" /\ home[f.item] = f.target
         /\ home[f.source] \in Meeting /\ home[f.source] # f.target
         /\ f.source # f.item
         /\ \A v \in Worker \ {w} : meetingLock[f.target] # v /\ meetingLock[home[f.source]] # v
<1>0. RequestInv(w) /\ ReadInv(w) /\ LockInv(w) /\ Data /\ Database
  BY Parts DEF HandlerInv, Data
<1>1. f \in FollowUpRows /\ f.status = "scheduled"
  BY <1>0 DEF Database, CancelRefused, FollowUpRows
<1>2. f.kept /\ home[f.item] = f.target /\ home[f.source] \in Meeting /\ home[f.source] # f.target
  BY <1>0, <1>1 DEF Data, Database, FollowUpsInv, FollowUpRows
<1>3. /\ req[w].source \in Meeting /\ req[w].target \in Meeting /\ req[w].op = "cancel"
  BY <1>0 DEF RequestInv, InFollowUp
<1>4. f.target = req[w].target /\ home[f.source] = req[w].source
  BY <1>0, <1>3 DEF ReadInv, InCancel, InFollowUp
<1>5. meetingLock[req[w].source] = w /\ meetingLock[req[w].target] = w
  BY <1>0, <1>3 DEF LockInv, Held, Keys
<1> QED BY <1>1, <1>2, <1>4, <1>5 DEF CancelRefused

LEMMA CancelledIs ==
  ASSUME NEW f \in FollowUpRows, NEW kept \in BOOLEAN
  PROVE  LET c == CancelledRecord(f, kept)
         IN  /\ c \in FollowUpRows /\ c.source = f.source /\ c.target = f.target
             /\ c.item = f.item /\ c.status = "cancelled"
BY DEF CancelledRecord, FollowUpRows

LEMMA CanCommitStep ==
  ASSUME IInv, NEW w \in Worker, NEW canWrite \in BOOLEAN, CanCommit(w, canWrite)
  PROVE  IInv'
<1>0. Data /\ Database
  BY Parts DEF Data
<1>1. CASE FinishUnchanged(w)
  BY <1>1, UnchangedStep
<1>2. CASE ~FinishUnchanged(w)
  <2>1. PICK f \in followUps :
          /\ f.item = req[w].item /\ ~CancelRefused(f)
          /\ \E gone \in {{f.item}, {}} :
               /\ followUps' = {g \in followUps \ {f} : g.source \notin gone}
                                 \cup {CancelledRecord(f, gone = {})}
               /\ outcome' = [outcome EXCEPT ![f.source] = "not_discussed"]
               /\ RemoveItems(gone) /\ Finish(w) /\ UNCHANGED <<meetingStatus, current>>
    BY <1>2 DEF CanCommit
  <2>2. PICK gone \in {{f.item}, {}} :
          /\ followUps' = {g \in followUps \ {f} : g.source \notin gone}
                            \cup {CancelledRecord(f, gone = {})}
          /\ outcome' = [outcome EXCEPT ![f.source] = "not_discussed"]
          /\ RemoveItems(gone) /\ Finish(w) /\ UNCHANGED <<meetingStatus, current>>
    BY <2>1
  <2>3. /\ f \in FollowUpRows /\ f.status = "scheduled"
        /\ meetingStatus[f.target] = "upcoming" /\ home[f.item] = f.target
        /\ home[f.source] \in Meeting /\ home[f.source] # f.target /\ f.source # f.item
        /\ \A v \in Worker \ {w} : meetingLock[f.target] # v
    BY <2>1, CancelReady DEF CanCommit, At
  <2>4. gone \in SUBSET Item /\ gone \subseteq {f.item} /\ f.source \in Item /\ f.item \in Item
    BY <2>2, <2>3 DEF FollowUpRows
  <2> DEFINE c == CancelledRecord(f, gone = {})
  <2>5. /\ c \in FollowUpRows /\ c.source = f.source /\ c.target = f.target
        /\ c.item = f.item /\ c.status = "cancelled"
    BY <2>3, CancelledIs
  <2>6. followUps' = {g \in followUps \ {f} : g.source \notin gone} \cup {c}
    BY <2>2
  <2> HIDE DEF c
  <2>7. /\ lastItem \in Nat /\ lastItem' = lastItem
        /\ \A i \in Item : home'[i] = IF i \in gone THEN None ELSE home[i]
        /\ home' \in [Item -> Meeting \cup {None}] /\ section' \in [Item -> Section \cup {None}]
        /\ text' \in [Item -> Texts] /\ noted' \subseteq Item /\ linked' \subseteq Item /\ ItemsInv'
    BY <2>2, <2>4, Removed
  <2>8. Database'
    <3>1. outcome' \in [Item -> {"not_discussed", "done", "follow_up"}]
      BY <1>0, <2>2 DEF Database
    <3>2. followUps' \subseteq FollowUpRows
      BY <1>0, <2>5, <2>6 DEF Database
    <3> QED BY <1>0, <2>2, <2>7, <3>1, <3>2 DEF Database
  <2>9. FollowUpsInv'
    <3>1. \A g \in followUps : g.item = f.item => g = f
      BY <1>0 DEF Data, FollowUpsInv
    <3>2. ASSUME NEW g \in followUps, g # f, g.source \notin gone
          PROVE  /\ home'[g.source] \notin {None, g.target} /\ g.item <= lastItem'
                 /\ \A h \in followUps' : h.item = g.item => h = g
      BY <1>0, <2>5, <2>6, <2>7, <3>1, <3>2 DEF Data, Database, FollowUpsInv, FollowUpRows
    <3>3. ASSUME NEW g \in followUps, g # f, g.source \notin gone, g.status = "scheduled"
          PROVE  g.kept /\ home'[g.item] = g.target /\ ActiveFrom(g.source)' = {g}
      <4>1. g.kept /\ home[g.item] = g.target /\ ActiveFrom(g.source) = {g} /\ g.item \in Item
        BY <1>0, <3>3 DEF Data, Database, FollowUpsInv, FollowUpRows
      <4>2. home'[g.item] = g.target
        BY <2>4, <2>7, <3>1, <3>3, <4>1
      <4>3. \A h \in followUps' : h.source = g.source /\ h.status = "scheduled" => h = g
        BY <2>5, <2>6, <4>1 DEF ActiveFrom
      <4>4. g \in followUps'
        BY <2>6, <3>3
      <4> QED BY <3>3, <4>1, <4>2, <4>3, <4>4 DEF ActiveFrom
    <3>4. /\ home'[c.source] \notin {None, c.target} /\ c.item <= lastItem'
          /\ \A h \in followUps' : h.item = c.item => h = c
      <4>1. home'[c.source] \notin {None, c.target}
        BY <2>3, <2>4, <2>5, <2>7
      <4>2. c.item <= lastItem'
        BY <1>0, <2>5, <2>7 DEF Data, FollowUpsInv
      <4>3. \A h \in followUps' : h.item = c.item => h = c
        BY <2>5, <2>6, <3>1
      <4> QED BY <4>1, <4>2, <4>3
    <3>5. ASSUME NEW g \in followUps'
          PROVE  /\ home'[g.source] \notin {None, g.target} /\ g.item <= lastItem'
                 /\ \A h \in followUps' : h.item = g.item => h = g
                 /\ g.status = "scheduled" =>
                      g.kept /\ home'[g.item] = g.target /\ ActiveFrom(g.source)' = {g}
      <4>1. CASE g \in followUps /\ g # f /\ g.source \notin gone
        BY <3>2, <3>3, <4>1
      <4>2. CASE g = c
        BY <2>5, <3>4, <4>2
      <4> QED BY <2>6, <4>1, <4>2
    <3> QED BY <3>5 DEF FollowUpsInv
  <2>10. PointerOnLiveAgenda'
    <3>1. ASSUME NEW k \in Meeting, current[k] # None
          PROVE  meetingStatus[k] = "live" /\ home'[current[k]] = k
      <4>1. current[k] \in Item /\ meetingStatus[k] = "live" /\ home[current[k]] = k
        BY <1>0, <3>1 DEF Data, Database, PointerOnLiveAgenda
      <4>2. current[k] # f.item
        BY <2>3, <4>1
      <4> QED BY <2>4, <2>7, <4>1, <4>2
    <3> QED BY <2>2, <3>1 DEF PointerOnLiveAgenda
  <2>11. RowsOnlyGo
    BY <2>1, <2>5, <2>6, <2>7 DEF RowsOnlyGo
  <2>12. ASSUME NEW v \in Worker \ {w}
         PROVE  LockRespected(v)
    BY <2>2, <2>3, <2>4, <2>5, <2>6, <2>7 DEF LockRespected
  <2> QED BY <2>2, <2>7, <2>8, <2>9, <2>10, <2>11, <2>12, FinishedStep DEF Data
<1> QED BY <1>1, <1>2

LEMMA DmCommitStep ==
  ASSUME IInv, NEW w \in Worker, DmCommit(w)
  PROVE  IInv'
<1> DEFINE m == req[w].target
<1>0. Data /\ Database
  BY Parts DEF Data
<1>1. CASE FinishUnchanged(w)
  BY <1>1, UnchangedStep
<1>2. CASE ~FinishUnchanged(w)
  <2>1. /\ \A f \in followUps : f.target # m
        /\ meetingStatus' = [meetingStatus EXCEPT ![m] = "deleted"]
        /\ current' = [current EXCEPT ![m] = None]
        /\ followUps' = {f \in followUps : home[f.source] # m}
        /\ outcome' = [i \in Item |-> IF home[i] = m THEN "not_discussed" ELSE outcome[i]]
        /\ RemoveItems(ItemsOf(m)) /\ Finish(w)
    BY <1>2 DEF DmCommit
  <2>2. m \in Meeting /\ \A v \in Worker \ {w} : meetingLock[m] # v
    BY Parts DEF HandlerInv, RequestInv, LockInv, Held, DmCommit, At
  <2> HIDE DEF m
  <2>3. /\ lastItem \in Nat /\ lastItem' = lastItem
        /\ \A i \in Item : home'[i] = IF i \in ItemsOf(m) THEN None ELSE home[i]
        /\ home' \in [Item -> Meeting \cup {None}] /\ section' \in [Item -> Section \cup {None}]
        /\ text' \in [Item -> Texts] /\ noted' \subseteq Item /\ linked' \subseteq Item /\ ItemsInv'
  <3>1. ItemsOf(m) \in SUBSET Item
    BY DEF ItemsOf
  <3> QED BY <2>1, <3>1, Removed
  <2>4. \A i \in Item : home'[i] = IF home[i] = m THEN None ELSE home[i]
    BY <2>3 DEF ItemsOf
  <2>5. Database'
    BY <1>0, <2>1, <2>3 DEF Database
  <2>6. FollowUpsInv'
    <3>1. ASSUME NEW g \in followUps, home[g.source] # m
          PROVE  /\ home'[g.source] \notin {None, g.target} /\ g.item <= lastItem'
                 /\ \A h \in followUps' : h.item = g.item => h = g
      BY <1>0, <2>1, <2>3, <2>4, <3>1 DEF Data, Database, FollowUpsInv, FollowUpRows
    <3>2. ASSUME NEW g \in followUps, home[g.source] # m, g.status = "scheduled"
          PROVE  g.kept /\ home'[g.item] = g.target /\ ActiveFrom(g.source)' = {g}
      <4>1. g.kept /\ home[g.item] = g.target /\ ActiveFrom(g.source) = {g} /\ g.item \in Item
        BY <1>0, <3>2 DEF Data, Database, FollowUpsInv, FollowUpRows
      <4>2. home'[g.item] = g.target
        BY <2>1, <2>4, <4>1
      <4>3. ActiveFrom(g.source)' = {g}
        BY <2>1, <3>2, <4>1 DEF ActiveFrom
      <4> QED BY <4>1, <4>2, <4>3
    <3>3. \A g \in followUps' : g \in followUps /\ home[g.source] # m
      BY <2>1
    <3> QED BY <3>1, <3>2, <3>3 DEF FollowUpsInv
  <2>7. PointerOnLiveAgenda'
    BY <1>0, <2>1, <2>2, <2>4 DEF Data, Database, PointerOnLiveAgenda
  <2>8. RowsOnlyGo
    BY <2>1, <2>3, <2>4 DEF RowsOnlyGo
  <2>9. ASSUME NEW v \in Worker \ {w}
        PROVE  LockRespected(v)
    BY <1>0, <2>1, <2>2, <2>4 DEF LockRespected, Database
  <2> QED BY <2>1, <2>3, <2>5, <2>6, <2>7, <2>8, <2>9, FinishedStep DEF Data
<1> QED BY <1>1, <1>2

-----------------------------------------------------------------------------
(* Operations of one step *)

LEMMA NoteSaveStep ==
  ASSUME IInv, NEW w \in Worker, NoteSave(w)
  PROVE  IInv'
<1>0. Data /\ Database
  BY Parts DEF Data
<1>1. CASE FinishUnchanged(w)
  BY <1>1, UnchangedStep
<1>2. CASE ~FinishUnchanged(w)
  <2>1. /\ noted' = IF req[w].op = "note" THEN noted \cup {req[w].item} ELSE noted \ {req[w].item}
        /\ Finish(w) /\ UNCHANGED <<meetingStatus, current, items, linked, followUps>>
    BY <1>2 DEF NoteSave
  <2>2. req[w].item \in Item
    BY Parts DEF HandlerInv, RequestInv, NoteSave, At
  <2>3. Database'
    <3>1. noted' \subseteq Item
      BY <1>0, <2>1, <2>2 DEF Database
    <3> QED BY <1>0, <2>1, <3>1 DEF Database, items
  <2>4. ItemsInv' /\ FollowUpsInv' /\ RowsOnlyGo
    BY <1>0, <2>1, RowsKept DEF items, Data, ItemsInv
  <2>5. PointerOnLiveAgenda'
    BY <1>0, <2>1 DEF Data, PointerOnLiveAgenda, items
  <2>6. \A v \in Worker : LockRespected(v)
    BY <2>1 DEF LockRespected, items
  <2> QED BY <2>1, <2>3, <2>4, <2>5, <2>6, FinishedStep DEF Data
<1> QED BY <1>1, <1>2

LEMMA EditSaveStep ==
  ASSUME IInv, NEW w \in Worker, EditSave(w)
  PROVE  IInv'
<1> DEFINE i == req[w].item
           t == Written(req[w].new, text[i], req[w].copy)
<1>0. Data /\ Database
  BY Parts DEF Data
<1>1. CASE FinishUnchanged(w)
  BY <1>1, UnchangedStep
<1>2. CASE ~FinishUnchanged(w)
  <2>1. /\ home[i] # None /\ text' = [text EXCEPT ![i] = t] /\ Finish(w)
        /\ UNCHANGED <<meetingStatus, current, home, section, outcome, lastItem, noted, linked, followUps>>
    BY <1>2 DEF EditSave
  <2>2. i \in Item /\ req[w].new \in Writes /\ (req[w].new.content = None => req[w].copy \in Rows)
    BY Parts DEF HandlerInv, RequestInv, EditSave, At
  <2>3. text[i] \in Rows
    BY <1>0, <2>1, <2>2 DEF Data, ItemsInv
  <2>4. t \in Rows
    BY <2>2, <2>3, WrittenRow DEF Rows
  <2> HIDE DEF i, t
  <2>5. text' \in [Item -> Texts] /\ \A j \in Item : home[j] # None => text'[j] \in Rows
    <3>1. \A j \in Item : home[j] # None => text[j] \in Rows
      BY <1>0 DEF Data, ItemsInv
    <3> QED BY <1>0, <2>1, <2>2, <2>4, <3>1, TextTypes DEF Database
  <2>6. Database'
    BY <1>0, <2>1, <2>5 DEF Database
  <2>7. ItemsInv' /\ FollowUpsInv' /\ RowsOnlyGo
    BY <2>1, <2>5, RowsKept
  <2>8. PointerOnLiveAgenda'
    BY <1>0, <2>1 DEF Data, PointerOnLiveAgenda
  <2>9. \A v \in Worker : LockRespected(v)
    BY <2>1 DEF LockRespected
  <2> QED BY <2>1, <2>6, <2>7, <2>8, <2>9, FinishedStep DEF Data
<1> QED BY <1>1, <1>2

\* What is left of IInv when neither rows nor records nor handlers change.
LEMMA AgendaStep ==
  ASSUME IInv, UNCHANGED <<items, noted, followUps, locks, pc, req>> \/
               UNCHANGED <<home, section, text, lastItem, noted, followUps, locks, pc, req>>,
         outcome' \in [Item -> {"not_discussed", "done", "follow_up"}],
         meetingStatus' \in
           [Meeting -> {"upcoming", "live", "completed", "cancelled", "deleted"}],
         current' \in [Meeting -> Item \cup {None}],
         linked' \subseteq Item,
         \A m \in Meeting : Free(m) \/ meetingStatus'[m] = meetingStatus[m],
         \A m \in Meeting : current'[m] # None =>
                              meetingStatus'[m] = "live" /\ home[current'[m]] = m
  PROVE  IInv'
<1>0. Data /\ Database
  BY Parts DEF Data
<1>1. UNCHANGED <<home, section, text, lastItem, noted, followUps, locks, pc, req>>
  BY DEF items
<1>2. ItemsInv' /\ FollowUpsInv' /\ RowsOnlyGo
  BY <1>0, <1>1, RowsKept DEF Data, ItemsInv
<1>3. Database'
  BY <1>0, <1>1 DEF Database
<1>4. PointerOnLiveAgenda'
  BY <1>1 DEF PointerOnLiveAgenda
<1>5. \A v \in Worker : LockRespected(v)
  BY <1>1 DEF LockRespected, Free
<1> QED BY <1>1, <1>2, <1>3, <1>4, <1>5, QuietStep DEF Data

LEMMA MeetingActionStep ==
  ASSUME IInv, NEW m \in Meeting, MeetingAction(m)
  PROVE  IInv'
<1>0. Data /\ Database
  BY Parts DEF Data
<1>1. Free(m) /\ UNCHANGED <<items, noted, linked, followUps, locks, pc, req>>
  BY DEF MeetingAction, StartMeeting, EndMeeting, ReopenMeeting, CancelMeeting
<1>2. PICK s \in {"live", "completed", "cancelled"} : meetingStatus' = [meetingStatus EXCEPT ![m] = s]
  BY DEF MeetingAction, StartMeeting, EndMeeting, ReopenMeeting, CancelMeeting
<1>3. PICK c \in Item \cup {None} :
        /\ current' = [current EXCEPT ![m] = c]
        /\ c # None => s = "live" /\ home[c] = m
  <2>1. FirstOrNone(Open(m)) \in Item \cup {None}
        /\ (FirstOrNone(Open(m)) # None => home[FirstOrNone(Open(m))] = m)
    <3>1. FirstOrNone(Open(m)) \in Open(m) \cup {None}
      BY <1>0, FirstOpenIs DEF Data
    <3>2. \A i \in Open(m) : i \in Item /\ home[i] = m
      BY DEF Open, ItemsOf
    <3> QED BY <3>1, <3>2
  <2>2. current[m] \in Item \cup {None} /\ (current[m] # None => meetingStatus[m] = "live" /\ home[current[m]] = m)
    BY <1>0 DEF Data, Database, PointerOnLiveAgenda
  <2>3. meetingStatus'[m] = s
    BY <1>0, <1>2 DEF Database
  <2>4. CASE StartMeeting(m)
    <3>1. current[m] \in ItemsOf(m) => home[current[m]] = m /\ current[m] \in Item
      BY DEF ItemsOf
    <3>2. s = "live"
      BY <1>0, <2>3, <2>4 DEF StartMeeting, Database
    <3>3. current' = [current EXCEPT ![m] = IF current[m] \in ItemsOf(m) THEN current[m] ELSE FirstOrNone(Open(m))]
      BY <1>0, <2>4 DEF StartMeeting, Database
    <3> QED BY <2>1, <3>1, <3>2, <3>3
  <2>5. CASE EndMeeting(m)
    BY <2>5 DEF EndMeeting
  <2>6. CASE ReopenMeeting(m)
    <3>1. s = "live"
      BY <1>0, <2>3, <2>6 DEF ReopenMeeting, Database
    <3>2. current' = [current EXCEPT ![m] = IF current[m] = None THEN FirstOrNone(Open(m)) ELSE current[m]]
      BY <1>0, <2>6 DEF ReopenMeeting, Database
    <3> QED BY <2>1, <2>2, <3>1, <3>2
  <2>7. CASE CancelMeeting(m)
    <3>1. current[m] = None /\ current' = current
      BY <2>2, <2>7 DEF CancelMeeting
    <3>2. current' = [current EXCEPT ![m] = None]
      BY <1>0, <3>1 DEF Database
    <3> QED BY <3>2
  <2> QED BY <2>4, <2>5, <2>6, <2>7 DEF MeetingAction
<1>4. /\ meetingStatus' \in [Meeting -> {"upcoming", "live", "completed", "cancelled", "deleted"}]
      /\ \A n \in Meeting : Free(n) \/ meetingStatus'[n] = meetingStatus[n]
  BY <1>0, <1>1, <1>2 DEF Database
<1>5. /\ current' \in [Meeting -> Item \cup {None}]
      /\ \A n \in Meeting : current'[n] # None => meetingStatus'[n] = "live" /\ home[current'[n]] = n
  BY <1>0, <1>2, <1>3 DEF Data, Database, PointerOnLiveAgenda
<1>6. outcome' \in [Item -> {"not_discussed", "done", "follow_up"}] /\ linked' \subseteq Item
  BY <1>0, <1>1 DEF Database, items
<1> QED BY <1>1, <1>4, <1>5, <1>6, AgendaStep

LEMMA ResolveStep ==
  ASSUME IInv, NEW i \in Item, NEW result \in {"done", "follow_up"}, NEW wrap \in BOOLEAN,
         Resolve(i, result, wrap)
  PROVE  IInv'
<1> DEFINE m == home[i]
           c == Advance(m, i, wrap)
<1>0. Data /\ Database
  BY Parts DEF Data
<1>1. m \in Meeting /\ c \in Item \cup {None} /\ (c # None => home[c] = m /\ meetingStatus[m] = "live")
  <2>1. m \in Meeting
    BY <1>0 DEF Resolve, LiveItem, Database
  <2> QED BY <1>0, <2>1, AdvanceIs
<1>2. /\ outcome' = [outcome EXCEPT ![i] = result] /\ current' = [current EXCEPT ![m] = c]
      /\ UNCHANGED <<meetingStatus, home, section, text, lastItem, noted, linked, followUps, locks, pc, req>>
  BY DEF Resolve
<1> HIDE DEF m, c
<1>3. outcome' \in [Item -> {"not_discussed", "done", "follow_up"}] /\ linked' \subseteq Item
  BY <1>0, <1>2 DEF Database
<1>4. current' \in [Meeting -> Item \cup {None}]
  BY <1>0, <1>1, <1>2 DEF Database
<1>5. \A n \in Meeting : current'[n] # None => meetingStatus'[n] = "live" /\ home[current'[n]] = n
  BY <1>0, <1>1, <1>2 DEF Data, Database, PointerOnLiveAgenda
<1>6. meetingStatus' \in [Meeting -> {"upcoming", "live", "completed", "cancelled", "deleted"}]
      /\ \A n \in Meeting : Free(n) \/ meetingStatus'[n] = meetingStatus[n]
  BY <1>0, <1>2 DEF Database
<1> QED BY <1>2, <1>3, <1>4, <1>5, <1>6, AgendaStep

LEMMA DeleteItemStep ==
  ASSUME IInv, NEW i \in Item, DeleteItem(i)
  PROVE  IInv'
<1>0. Data /\ Database
  BY Parts DEF Data
<1>1. /\ home[i] \in Meeting /\ Free(home[i]) /\ meetingStatus[home[i]] = "upcoming"
      /\ \A f \in followUps : f.source # i /\ (f.item = i => ~f.kept)
      /\ RemoveItems({i}) /\ UNCHANGED <<meetingStatus, current, outcome, followUps, locks, pc, req>>
  BY <1>0 DEF DeleteItem, Deletable, Database
<1>2. /\ lastItem \in Nat /\ lastItem' = lastItem
      /\ \A j \in Item : home'[j] = IF j \in {i} THEN None ELSE home[j]
      /\ home' \in [Item -> Meeting \cup {None}] /\ section' \in [Item -> Section \cup {None}]
      /\ text' \in [Item -> Texts] /\ noted' \subseteq Item /\ linked' \subseteq Item /\ ItemsInv'
  BY <1>1, Removed
<1>3. Database'
  BY <1>0, <1>1, <1>2 DEF Database
<1>4. FollowUpsInv'
  <2>1. ASSUME NEW f \in followUps
        PROVE  home'[f.source] = home[f.source] /\ (f.status = "scheduled" => home'[f.item] = home[f.item])
    BY <1>0, <1>1, <1>2 DEF Data, Database, FollowUpRows, FollowUpsInv
  <2> QED BY <1>1, <1>2, <2>1, RecordsKept
<1>5. PointerOnLiveAgenda'
  <2>1. ASSUME NEW k \in Meeting, current[k] # None
        PROVE  meetingStatus[k] = "live" /\ home'[current[k]] = k
    <3>1. current[k] \in Item /\ meetingStatus[k] = "live" /\ home[current[k]] = k
      BY <1>0, <2>1 DEF Data, Database, PointerOnLiveAgenda
    <3>2. current[k] # i
      BY <1>1, <3>1
    <3> QED BY <1>2, <3>1, <3>2
  <2> QED BY <1>1, <2>1 DEF PointerOnLiveAgenda
<1>6. RowsOnlyGo
  BY <1>1, <1>2 DEF RowsOnlyGo
<1>7. ASSUME NEW v \in Worker
      PROVE  LockRespected(v)
  BY <1>1, <1>2 DEF LockRespected, Free
<1> QED BY <1>1, <1>2, <1>3, <1>4, <1>5, <1>6, <1>7, QuietStep DEF Data

LEMMA ItemActionStep ==
  ASSUME IInv, NEW i \in Item, ItemAction(i)
  PROVE  IInv'
<1>0. Data /\ Database
  BY Parts DEF Data
<1>1. CASE Focus(i)
  <2>1. home[i] \in Meeting /\ meetingStatus[home[i]] = "live" /\ current' = [current EXCEPT ![home[i]] = i]
        /\ UNCHANGED <<meetingStatus, items, noted, linked, followUps, locks, pc, req>>
    BY <1>0, <1>1 DEF Focus, LiveItem, Database
  <2>2. current' \in [Meeting -> Item \cup {None}]
    BY <1>0, <2>1 DEF Database
  <2>3. \A n \in Meeting : current'[n] # None => meetingStatus'[n] = "live" /\ home[current'[n]] = n
    BY <1>0, <2>1 DEF Data, Database, PointerOnLiveAgenda
  <2> QED BY <1>0, <2>1, <2>2, <2>3, AgendaStep DEF Database, items
<1>2. CASE MarkDone(i) \/ MarkFollowUp(i)
  BY <1>2, ResolveStep DEF MarkDone, MarkFollowUp
<1>3. CASE ReopenItem(i)
  <2>1. outcome' \in [Item -> {"not_discussed", "done", "follow_up"}]
        /\ UNCHANGED <<meetingStatus, current, home, section, text, lastItem, noted, linked, followUps, locks, pc, req>>
    BY <1>0, <1>3 DEF ReopenItem, Database
  <2> QED BY <1>0, <2>1, AgendaStep DEF Data, Database, PointerOnLiveAgenda
<1>4. CASE DeleteItem(i)
  BY <1>4, DeleteItemStep
<1>5. CASE LinkWorkItem(i)
  <2>1. linked' \subseteq Item
        /\ UNCHANGED <<meetingStatus, current, items, noted, followUps, locks, pc, req>>
    BY <1>0, <1>5 DEF LinkWorkItem, Database
  <2> QED BY <1>0, <2>1, AgendaStep DEF Data, Database, PointerOnLiveAgenda, items
<1> QED BY <1>1, <1>2, <1>3, <1>4, <1>5 DEF ItemAction

-----------------------------------------------------------------------------
(* The invariant *)

LEMMA InitInv == Init => IInv
<1> SUFFICES ASSUME Init PROVE IInv
  OBVIOUS
<1>1. Database
  BY TextTypes DEF Init, Database
<1>2. Handlers
  BY TextTypes DEF Init, Handlers, Labels
<1>3. ItemsInv /\ FollowUpsInv /\ PointerOnLiveAgenda
  BY DEF Init, ItemsInv, FollowUpsInv, PointerOnLiveAgenda
<1>4. ASSUME NEW w \in Worker
      PROVE  HandlerInv(w)
  <2>1. pc[w] = "idle"
    BY DEF Init
  <2>2. LockInv(w)
    BY <2>1 DEF Init, LockInv, Held, HeldSections
  <2> QED BY <2>1, <2>2 DEF HandlerInv, RequestInv, ReadInv, InSchedule, InCancel, InFollowUp
<1> QED BY <1>1, <1>2, <1>3, <1>4, Parts DEF Data

LEMMA NextInv == IInv /\ [Next]_vars => IInv'
<1> SUFFICES ASSUME IInv, [Next]_vars PROVE IInv'
  OBVIOUS
<1>1. ASSUME NEW w \in Worker, BeginRequest(w) \/ Step(w) \/ Crash(w)
      PROVE  IInv'
  <2>1. CASE BeginRequest(w)
    BY <2>1, BeginRequestStep
  <2>2. CASE Step(w)
    BY <2>2, AddLockStep, AddCommitStep, LockFirstStep, LockSecondStep, SchSectionStep,
       SchCommitStep, CanCommitStep, DmLockStep, DmCommitStep, NoteSaveStep, EditSaveStep DEF Step
  <2>3. CASE Crash(w)
    BY <2>3, UnchangedStep DEF Crash
  <2> QED BY <1>1, <2>1, <2>2, <2>3
<1>2. CASE UNCHANGED vars
  <2>1. UNCHANGED db /\ UNCHANGED <<locks, pc, req>>
    BY <1>2 DEF vars
  <2> QED BY <2>1, DataUnchanged, QuietStep
<1> QED BY <1>1, <1>2, MeetingActionStep, ItemActionStep DEF Next

THEOREM Invariance == Spec => []IInv
BY InitInv, NextInv, PTL DEF Spec

\* Only a live Meeting has a current item, and it is one of its own: no
\* deletion, cancellation, end or cleanup leaves the pointer behind.
THEOREM PointerSafe == Spec => []PointerOnLiveAgenda
<1>1. IInv => PointerOnLiveAgenda
  BY DEF IInv
<1> QED BY <1>1, Invariance, PTL

\* A scheduled follow-up keeps its generated item on the agenda of its target
\* and its source on another one, and is the only one of its source.
THEOREM FollowUpsBacked == Spec => []ActiveFollowUpBacked
<1>1. IInv => ActiveFollowUpBacked
  BY DEF IInv, FollowUpsInv, ActiveFollowUpBacked
<1> QED BY <1>1, Invariance, PTL

-----------------------------------------------------------------------------
(* No circle of waits *)

\* The Meeting row a handler waits for.
Awaited(w) ==
  IF pc[w] = "lock_first" THEN FirstKey(w)
  ELSE IF pc[w] = "lock_second" THEN SecondKey(w) ELSE req[w].target

\* Without the creations of items, one waits only for the row of a Meeting,
\* and the one who holds that row waits, if at all, for one with a higher key.
LEMMA WaitsUpwards ==
  ASSUME IInv, NEW w \in Worker, NEW v \in Worker, req[w].op # "add", req[v].op # "add",
         WaitsFor(w, v)
  PROVE  /\ Awaited(w) \in Meeting
         /\ (\E u \in Worker : req[u].op # "add" /\ WaitsFor(v, u)) =>
              Awaited(v) \in Meeting /\ Awaited(w) < Awaited(v)
<1>0. \A u \in Worker : RequestInv(u) /\ ReadInv(u) /\ LockInv(u)
  BY Parts DEF HandlerInv
<1>1. ASSUME NEW x \in Worker, NEW y \in Worker, req[x].op # "add", req[y].op # "add",
             WaitsFor(x, y)
      PROVE  /\ pc[x] \in {"lock_first", "lock_second", "dm_lock"}
             /\ Awaited(x) \in Meeting /\ meetingLock[Awaited(x)] = y
  <2>1. pc[x] # "add_commit" /\ pc[x] # "add_lock" /\ pc[y] # "add_commit"
    BY <1>0, <1>1 DEF RequestInv
  <2>2. ASSUME NEW s \in Section, req[x].target \in Meeting, sectionLock[<<req[x].target, s>>] = y
        PROVE  meetingLock[req[x].target] = y
    <3>1. <<req[x].target, s>> \in HeldSections(y)
      BY <1>0, <2>2 DEF LockInv
    <3>2. pc[y] = "sch_commit" /\ req[x].target = req[y].target
      BY <2>1, <3>1 DEF HeldSections
    <3>3. req[x].target \in Held(y)
      BY <3>2 DEF Held, Keys
    <3> QED BY <1>0, <2>2, <3>3 DEF LockInv
  <2>3. pc[x] # "sch_section" \/ sectionLock[<<req[x].target, req[x].section>>] # y
    <3> SUFFICES ASSUME pc[x] = "sch_section", sectionLock[<<req[x].target, req[x].section>>] = y
                 PROVE  FALSE
      OBVIOUS
    <3>1. req[x].target \in Meeting /\ req[x].section \in Section
      BY <1>0 DEF RequestInv, ReadInv, InSchedule, InFollowUp
    <3>2. meetingLock[req[x].target] = x
      BY <1>0, <3>1 DEF LockInv, Held, Keys
    <3> QED BY <1>1, <2>2, <3>1, <3>2 DEF WaitsFor
  <2>4. pc[x] # "dm_commit" \/ \A s \in Section : sectionLock[<<req[x].target, s>>] # y
    <3> SUFFICES ASSUME pc[x] = "dm_commit", NEW s \in Section, sectionLock[<<req[x].target, s>>] = y
                 PROVE  FALSE
      OBVIOUS
    <3>1. req[x].target \in Meeting
      BY <1>0 DEF RequestInv
    <3>2. meetingLock[req[x].target] = x
      BY <1>0, <3>1 DEF LockInv, Held
    <3> QED BY <1>1, <2>2, <3>1, <3>2 DEF WaitsFor
  <2>5. \/ pc[x] = "lock_first" /\ meetingLock[FirstKey(x)] = y
        \/ pc[x] = "lock_second" /\ meetingLock[SecondKey(x)] = y
        \/ pc[x] = "dm_lock" /\ meetingLock[req[x].target] = y
    BY <1>1, <2>1, <2>3, <2>4 DEF WaitsFor, At
  <2>6. pc[x] \in {"lock_first", "lock_second"} => FirstKey(x) \in Meeting /\ SecondKey(x) \in Meeting
    BY KeysOrdered DEF InFollowUp
  <2>7. pc[x] = "dm_lock" => req[x].target \in Meeting
    BY <1>0 DEF RequestInv
  <2> QED BY <2>5, <2>6, <2>7 DEF Awaited
<1>2. Awaited(w) \in Meeting /\ meetingLock[Awaited(w)] = v
  BY <1>1
<1>3. ASSUME NEW u \in Worker, req[u].op # "add", WaitsFor(v, u)
      PROVE  Awaited(v) \in Meeting /\ Awaited(w) < Awaited(v)
  <2>1. pc[v] \in {"lock_first", "lock_second", "dm_lock"} /\ Awaited(v) \in Meeting
    BY <1>1, <1>3
  <2>2. Awaited(w) \in Held(v)
    BY <1>0, <1>2 DEF LockInv
  <2>3. pc[v] = "lock_second" /\ Awaited(w) = FirstKey(v)
    BY <2>1, <2>2 DEF Held
  <2>4. FirstKey(v) < SecondKey(v) /\ Awaited(v) = SecondKey(v)
    BY <2>3, KeysOrdered DEF InFollowUp, Awaited
  <2> QED BY <2>1, <2>3, <2>4
<1> QED BY <1>2, <1>3

\* Schedules, cancellations and deletions never wait in a circle among
\* themselves: the awaited keys of a circle would grow for ever.
THEOREM DeadlockFree == Spec => []NoDeadlock
<1>1. IInv => NoDeadlock
  <2> SUFFICES ASSUME IInv, NEW S \in (SUBSET {w \in Worker : req[w].op # "add"}) \ {{}},
                      \A w \in S : \E v \in S : WaitsFor(w, v)
               PROVE  FALSE
    BY DEF NoDeadlock
  <2>1. S \subseteq Worker /\ S # {} /\ (\A w \in S : req[w].op # "add")
    OBVIOUS
  <2> DEFINE f == [w \in S |-> Awaited(w)]
             T == {f[w] : w \in S}
  <2>2. ASSUME NEW w \in S
        PROVE  \E v \in S : Awaited(w) \in Meeting /\ Awaited(w) < Awaited(v)
    <3>1. PICK v \in S : WaitsFor(w, v)
      OBVIOUS
    <3>2. PICK u \in S : WaitsFor(v, u)
      OBVIOUS
    <3> QED BY <2>1, <3>1, <3>2, WaitsUpwards
  <2>3. IsFiniteSet(T)
    <3>1. IsFiniteSet(S)
      BY <2>1, FS_Subset
    <3>2. f \in Surjection(S, T)
      BY DEF Surjection
    <3> QED BY <3>1, <3>2, FS_Surjection
  <2>4. T \in SUBSET Nat /\ T # {}
    BY <2>1, <2>2, Numbers
  <2> HIDE DEF T
  <2>5. PICK k \in T : \A j \in T : j <= k
    BY <2>3, <2>4, LargestOfFinite
  <2>6. PICK w \in S : k = Awaited(w)
    BY <2>5 DEF T
  <2>7. PICK v \in S : k < Awaited(v)
    BY <2>2, <2>6
  <2>8. Awaited(v) \in T
    BY <2>7 DEF T
  <2>9. Awaited(v) \in Nat /\ k \in Nat
    BY <2>4, <2>5, <2>8
  <2> QED BY <2>5, <2>7, <2>8, <2>9
<1> QED BY <1>1, Invariance, PTL

-----------------------------------------------------------------------------
(* What a step may not do *)

\* The steps that write agendas, outcomes or records.
LEMMA Writers ==
  ASSUME [Next]_vars
  PROVE  \/ UNCHANGED <<home, outcome, followUps>>
         \/ \E w \in Worker : \/ AddCommit(w) \/ SchCommit(w)
                              \/ (\E canWrite \in BOOLEAN : CanCommit(w, canWrite)) /\ ~FinishUnchanged(w)
                              \/ DmCommit(w) /\ ~FinishUnchanged(w)
         \/ \E i \in Item : MarkDone(i) \/ MarkFollowUp(i) \/ ReopenItem(i) \/ DeleteItem(i)
<1>1. CASE UNCHANGED vars
  BY <1>1 DEF vars, db, items
<1>2. ASSUME NEW w \in Worker, FinishUnchanged(w)
      PROVE  UNCHANGED <<home, outcome, followUps>>
  BY <1>2 DEF FinishUnchanged, db, items
<1>3. ASSUME NEW w \in Worker, BeginRequest(w)
      PROVE  UNCHANGED <<home, outcome, followUps>>
  BY <1>3 DEF BeginRequest, BeginAdd, BeginSchedule, BeginCancel, BeginDeleteMeeting, BeginNote,
       BeginEdit, Begin, db, items
<1>4. ASSUME NEW w \in Worker, AddLock(w) \/ LockFirst(w) \/ LockSecond(w) \/ SchSection(w) \/ DmLock(w)
      PROVE  UNCHANGED <<home, outcome, followUps>>
  BY <1>2, <1>4 DEF AddLock, LockFirst, LockSecond, SchSection, DmLock, db, items
<1>5. ASSUME NEW w \in Worker, NoteSave(w) \/ EditSave(w)
      PROVE  UNCHANGED <<home, outcome, followUps>>
  BY <1>2, <1>5 DEF NoteSave, EditSave, items
<1>6. ASSUME NEW m \in Meeting, MeetingAction(m)
      PROVE  UNCHANGED <<home, outcome, followUps>>
  BY <1>6 DEF MeetingAction, StartMeeting, EndMeeting, ReopenMeeting, CancelMeeting, items
<1>7. ASSUME NEW i \in Item, Focus(i) \/ LinkWorkItem(i)
      PROVE  UNCHANGED <<home, outcome, followUps>>
  BY <1>7 DEF Focus, LinkWorkItem, items
<1>8. ASSUME NEW w \in Worker, Step(w)
      PROVE  \/ UNCHANGED <<home, outcome, followUps>>
             \/ AddCommit(w) \/ SchCommit(w)
             \/ (\E canWrite \in BOOLEAN : CanCommit(w, canWrite)) /\ ~FinishUnchanged(w)
             \/ DmCommit(w) /\ ~FinishUnchanged(w)
  BY <1>2, <1>4, <1>5, <1>8 DEF Step
<1>9. ASSUME NEW w \in Worker, Crash(w)
      PROVE  UNCHANGED <<home, outcome, followUps>>
  BY <1>2, <1>9 DEF Crash
<1>10. ASSUME NEW i \in Item, ItemAction(i)
       PROVE  \/ UNCHANGED <<home, outcome, followUps>>
              \/ MarkDone(i) \/ MarkFollowUp(i) \/ ReopenItem(i) \/ DeleteItem(i)
  BY <1>7, <1>10 DEF ItemAction
<1>11. ASSUME NEW w \in Worker, BeginRequest(w) \/ Step(w) \/ Crash(w)
       PROVE  \/ UNCHANGED <<home, outcome, followUps>>
              \/ AddCommit(w) \/ SchCommit(w)
              \/ (\E canWrite \in BOOLEAN : CanCommit(w, canWrite)) /\ ~FinishUnchanged(w)
              \/ DmCommit(w) /\ ~FinishUnchanged(w)
  BY <1>3, <1>8, <1>9, <1>11
<1>12. CASE \E w \in Worker : BeginRequest(w) \/ Step(w) \/ Crash(w)
  BY <1>11, <1>12
<1>13. CASE \E m \in Meeting : MeetingAction(m)
  BY <1>6, <1>13
<1>14. CASE \E i \in Item : ItemAction(i)
  BY <1>10, <1>14
<1> QED BY <1>1, <1>12, <1>13, <1>14 DEF Next

\* What a cancellation that goes through does.
LEMMA CancelWrites ==
  ASSUME IInv, NEW w \in Worker, NEW canWrite \in BOOLEAN, CanCommit(w, canWrite), ~FinishUnchanged(w)
  PROVE  \E f \in followUps, gone \in SUBSET Item, c \in FollowUpRows :
           /\ f.status = "scheduled" /\ meetingStatus[f.target] = "upcoming"
           /\ home[f.item] = f.target /\ f.source \notin gone
           /\ gone # {} => gone = {f.item} /\ Untouched(f)
           /\ c.source = f.source /\ c.status = "cancelled"
           /\ followUps' = {g \in followUps \ {f} : g.source \notin gone} \cup {c}
           /\ outcome' = [outcome EXCEPT ![f.source] = "not_discussed"]
           /\ RemoveItems(gone)
           /\ UNCHANGED <<meetingStatus, current>>
<1>1. PICK f \in followUps :
        LET gone == IF canWrite /\ Untouched(f) THEN {f.item} ELSE {} IN
        /\ f.item = req[w].item /\ ~CancelRefused(f)
        /\ followUps' = {g \in followUps \ {f} : g.source \notin gone}
                          \cup {CancelledRecord(f, gone = {})}
        /\ outcome' = [outcome EXCEPT ![f.source] = "not_discussed"]
        /\ RemoveItems(gone)
        /\ UNCHANGED <<meetingStatus, current>>
  BY DEF CanCommit
<1> DEFINE gone == IF canWrite /\ Untouched(f) THEN {f.item} ELSE {}
           c == CancelledRecord(f, gone = {})
<1>2. /\ f \in FollowUpRows /\ f.status = "scheduled" /\ meetingStatus[f.target] = "upcoming"
      /\ home[f.item] = f.target /\ f.source # f.item
  BY <1>1, CancelReady DEF CanCommit, At
<1>3. c \in FollowUpRows /\ c.source = f.source /\ c.status = "cancelled"
  BY <1>2, CancelledIs
<1>4. gone \in SUBSET Item /\ f.source \notin gone /\ (gone # {} => gone = {f.item} /\ Untouched(f))
  BY <1>2 DEF FollowUpRows
<1>5. /\ followUps' = {g \in followUps \ {f} : g.source \notin gone} \cup {c}
      /\ RemoveItems(gone)
  BY <1>1
<1> HIDE DEF gone, c
<1> QED BY <1>1, <1>2, <1>3, <1>4, <1>5

LEMMA DeleteWrites ==
  ASSUME IInv, NEW w \in Worker, DmCommit(w), ~FinishUnchanged(w)
  PROVE  \E m \in Meeting :
           /\ meetingStatus'[m] = "deleted"
           /\ followUps' = {f \in followUps : home[f.source] # m}
           /\ \A i \in Item : /\ home'[i] = IF home[i] = m THEN None ELSE home[i]
                              /\ outcome'[i] # outcome[i] => home[i] = m
<1> DEFINE m == req[w].target
<1>1. m \in Meeting /\ Database
  BY Parts DEF HandlerInv, RequestInv, DmCommit, At, Data
<1>2. /\ meetingStatus' = [meetingStatus EXCEPT ![m] = "deleted"]
      /\ followUps' = {f \in followUps : home[f.source] # m}
      /\ outcome' = [i \in Item |-> IF home[i] = m THEN "not_discussed" ELSE outcome[i]]
      /\ RemoveItems(ItemsOf(m))
  BY DEF DmCommit
<1> HIDE DEF m
<1>3. \A i \in Item : home'[i] = IF home[i] = m THEN None ELSE home[i]
  BY <1>2 DEF RemoveItems, ItemsOf
<1> QED BY <1>1, <1>2, <1>3 DEF Database

\* No deletion or cleanup loses a note, a Work Item or a discussion.
THEOREM NothingTouchedIsLost == Spec => TouchedItemsSurvive
<1>1. ASSUME IInv, [Next]_vars, NEW i \in Item,
             home[i] # None, home'[i] = None, meetingStatus'[home[i]] # "deleted"
      PROVE  /\ meetingStatus[home[i]] = "upcoming" /\ outcome[i] = "not_discussed"
             /\ i \notin noted \cup linked
  <2>0. Data /\ Database
    BY <1>1, Parts DEF Data
  <2>1. CASE UNCHANGED <<home, outcome, followUps>>
    BY <1>1, <2>1
  <2>2. ASSUME NEW w \in Worker, AddCommit(w)
        PROVE  FALSE
    <3>1. req[w].target \in Meeting
      BY <1>1, <2>2, Parts DEF AddCommit, At, HandlerInv, RequestInv
    <3>2. home' = [home EXCEPT ![lastItem + 1] = req[w].target]
      BY <2>2 DEF AddCommit, InsertItem
    <3> QED BY <1>1, <2>0, <3>1, <3>2 DEF Database
  <2>3. ASSUME NEW w \in Worker, SchCommit(w)
        PROVE  FALSE
    <3>1. req[w].target \in Meeting
      BY <1>1, <2>3, ScheduleReady DEF SchCommit, At
    <3>2. home' = [home EXCEPT ![lastItem + 1] = req[w].target]
      BY <2>3 DEF SchCommit, InsertItem
    <3> QED BY <1>1, <2>0, <3>1, <3>2 DEF Database
  <2>4. ASSUME NEW w \in Worker, NEW canWrite \in BOOLEAN, CanCommit(w, canWrite), ~FinishUnchanged(w)
        PROVE  /\ meetingStatus[home[i]] = "upcoming" /\ outcome[i] = "not_discussed"
               /\ i \notin noted \cup linked
    <3>1. PICK f \in followUps, gone \in SUBSET Item, c \in FollowUpRows :
            /\ meetingStatus[f.target] = "upcoming" /\ home[f.item] = f.target
            /\ gone # {} => gone = {f.item} /\ Untouched(f)
            /\ RemoveItems(gone)
      BY <1>1, <2>4, CancelWrites
    <3>2. i \in gone
      BY <1>1, <3>1 DEF RemoveItems
    <3> QED BY <3>1, <3>2 DEF Untouched
  <2>5. ASSUME NEW w \in Worker, DmCommit(w), ~FinishUnchanged(w)
        PROVE  FALSE
    <3>1. PICK m \in Meeting :
            /\ meetingStatus'[m] = "deleted"
            /\ followUps' = {f \in followUps : home[f.source] # m}
            /\ \A j \in Item : /\ home'[j] = IF home[j] = m THEN None ELSE home[j]
                               /\ outcome'[j] # outcome[j] => home[j] = m
      BY <1>1, <2>5, DeleteWrites
    <3> QED BY <1>1, <2>0, <3>1
  <2>6. ASSUME NEW j \in Item, MarkDone(j) \/ MarkFollowUp(j) \/ ReopenItem(j)
        PROVE  FALSE
    BY <1>1, <2>6 DEF MarkDone, MarkFollowUp, Resolve, ReopenItem
  <2>7. ASSUME NEW j \in Item, DeleteItem(j)
        PROVE  /\ meetingStatus[home[i]] = "upcoming" /\ outcome[i] = "not_discussed"
               /\ i \notin noted \cup linked
    BY <1>1, <2>7 DEF DeleteItem, RemoveItems, Deletable
  <2> QED BY <1>1, <2>1, <2>2, <2>3, <2>4, <2>5, <2>6, <2>7, Writers
<1>2. IInv /\ [Next]_vars =>
        \A i \in Item :
          home[i] # None /\ home'[i] = None /\ meetingStatus'[home[i]] # "deleted"
            => /\ meetingStatus[home[i]] = "upcoming"
               /\ outcome[i] = "not_discussed"
               /\ i \notin noted \cup linked
  BY <1>1
<1> QED BY <1>2, Invariance, PTL DEF Spec, TouchedItemsSurvive

\* Outcomes outside a live Meeting only change with a follow-up of the item.
THEOREM OutcomesSettledSafe == Spec => OutcomesSettled
<1>1. ASSUME IInv, [Next]_vars, NEW i \in Item, outcome'[i] # outcome[i],
             home[i] # None, home'[i] # None, meetingStatus[home[i]] # "live"
      PROVE  ActiveFrom(i)' # ActiveFrom(i)
  <2>0. Data /\ Database
    BY <1>1, Parts DEF Data
  <2>1. CASE UNCHANGED <<home, outcome, followUps>>
    BY <1>1, <2>1
  <2>2. ASSUME NEW w \in Worker, AddCommit(w)
        PROVE  FALSE
    BY <1>1, <2>2 DEF AddCommit
  <2>3. ASSUME NEW w \in Worker, SchCommit(w)
        PROVE  ActiveFrom(i)' # ActiveFrom(i)
    <3>1. req[w].item \in Item /\ ActiveFrom(req[w].item) = {}
      BY <1>1, <2>3, ScheduleReady DEF SchCommit, At
    <3>2. i = req[w].item
      BY <1>1, <2>0, <2>3, <3>1 DEF SchCommit, Database
    <3>3. \E g \in followUps' : g.source = i /\ g.status = "scheduled"
      <4>1. Traced(w) \in followUps' /\ Traced(w).source = i /\ Traced(w).status = "scheduled"
        BY <2>3, <3>2 DEF SchCommit, Traced
      <4> QED BY <4>1
    <3> QED BY <3>1, <3>2, <3>3 DEF ActiveFrom
  <2>4. ASSUME NEW w \in Worker, NEW canWrite \in BOOLEAN, CanCommit(w, canWrite), ~FinishUnchanged(w)
        PROVE  ActiveFrom(i)' # ActiveFrom(i)
    <3>1. PICK f \in followUps, gone \in SUBSET Item, c \in FollowUpRows :
            /\ f.status = "scheduled" /\ meetingStatus[f.target] = "upcoming"
            /\ home[f.item] = f.target /\ f.source \notin gone
            /\ gone # {} => gone = {f.item} /\ Untouched(f)
            /\ c.source = f.source /\ c.status = "cancelled"
            /\ followUps' = {g \in followUps \ {f} : g.source \notin gone} \cup {c}
            /\ outcome' = [outcome EXCEPT ![f.source] = "not_discussed"]
            /\ RemoveItems(gone)
            /\ UNCHANGED <<meetingStatus, current>>
      BY <1>1, <2>4, CancelWrites
    <3>2. i = f.source
      BY <1>1, <2>0, <3>1 DEF Database
    <3>3. f \in ActiveFrom(i) /\ f \notin followUps'
      BY <3>1, <3>2 DEF ActiveFrom
    <3> QED BY <3>3 DEF ActiveFrom
  <2>5. ASSUME NEW w \in Worker, DmCommit(w), ~FinishUnchanged(w)
        PROVE  FALSE
    <3>1. PICK m \in Meeting :
            /\ meetingStatus'[m] = "deleted"
            /\ followUps' = {f \in followUps : home[f.source] # m}
            /\ \A j \in Item : /\ home'[j] = IF home[j] = m THEN None ELSE home[j]
                               /\ outcome'[j] # outcome[j] => home[j] = m
      BY <1>1, <2>5, DeleteWrites
    <3> QED BY <1>1, <2>0, <3>1
  <2>6. ASSUME NEW j \in Item, MarkDone(j) \/ MarkFollowUp(j) \/ ReopenItem(j)
        PROVE  FALSE
    <3>1. meetingStatus[home[j]] = "live" /\ \E result : outcome' = [outcome EXCEPT ![j] = result]
      BY <2>6 DEF MarkDone, MarkFollowUp, Resolve, ReopenItem, LiveItem
    <3> QED BY <1>1, <2>0, <3>1 DEF Database
  <2>7. ASSUME NEW j \in Item, DeleteItem(j)
        PROVE  FALSE
    BY <1>1, <2>7 DEF DeleteItem
  <2> QED BY <1>1, <2>1, <2>2, <2>3, <2>4, <2>5, <2>6, <2>7, Writers
<1>2. IInv /\ [Next]_vars =>
        \A i \in Item :
          /\ outcome'[i] # outcome[i]
          /\ home[i] # None /\ home'[i] # None
          /\ meetingStatus[home[i]] # "live"
          => ActiveFrom(i)' # ActiveFrom(i)
  BY <1>1
<1> QED BY <1>2, Invariance, PTL DEF Spec, OutcomesSettled

\* No cancellation undoes a follow-up whose target has left upcoming.
THEOREM TracesKept == Spec => StartedTargetsKeepTraces
<1>1. ASSUME IInv, [Next]_vars, NEW f \in followUps, f.status = "scheduled",
             meetingStatus[f.target] # "upcoming", home'[f.source] # None
      PROVE  f \in followUps'
  <2>0. Data /\ Database /\ f.source \in Item
    BY <1>1, Parts DEF Data, Database, FollowUpRows
  <2>1. CASE UNCHANGED <<home, outcome, followUps>>
    BY <2>1
  <2>2. ASSUME NEW w \in Worker, AddCommit(w) \/ SchCommit(w)
        PROVE  f \in followUps'
    BY <2>2 DEF AddCommit, SchCommit
  <2>3. ASSUME NEW w \in Worker, NEW canWrite \in BOOLEAN, CanCommit(w, canWrite), ~FinishUnchanged(w)
        PROVE  f \in followUps'
    <3>1. PICK g \in followUps, gone \in SUBSET Item, c \in FollowUpRows :
            /\ meetingStatus[g.target] = "upcoming"
            /\ followUps' = {h \in followUps \ {g} : h.source \notin gone} \cup {c}
            /\ RemoveItems(gone)
      BY <1>1, <2>3, CancelWrites
    <3>2. f.source \notin gone
      BY <1>1, <2>0, <3>1 DEF RemoveItems
    <3> QED BY <1>1, <3>1, <3>2
  <2>4. ASSUME NEW w \in Worker, DmCommit(w), ~FinishUnchanged(w)
        PROVE  f \in followUps'
    <3>1. PICK m \in Meeting :
            /\ meetingStatus'[m] = "deleted"
            /\ followUps' = {g \in followUps : home[g.source] # m}
            /\ \A j \in Item : /\ home'[j] = IF home[j] = m THEN None ELSE home[j]
                               /\ outcome'[j] # outcome[j] => home[j] = m
      BY <1>1, <2>4, DeleteWrites
    <3> QED BY <1>1, <2>0, <3>1
  <2>5. ASSUME NEW j \in Item, MarkDone(j) \/ MarkFollowUp(j) \/ ReopenItem(j) \/ DeleteItem(j)
        PROVE  f \in followUps'
    BY <2>5 DEF MarkDone, MarkFollowUp, Resolve, ReopenItem, DeleteItem
  <2> QED BY <1>1, <2>1, <2>2, <2>3, <2>4, <2>5, Writers
<1>2. IInv /\ [Next]_vars =>
        \A f \in followUps :
          /\ f.status = "scheduled"
          /\ meetingStatus[f.target] # "upcoming"
          /\ home'[f.source] # None
          => f \in followUps'
  BY <1>1
<1> QED BY <1>2, Invariance, PTL DEF Spec, StartedTargetsKeepTraces

\* Resolving the current item of a live Meeting moves the pointer to the next
\* open item; only the direct follow-up action starts over at the top.
THEOREM PointerAdvances == Spec => AdvanceRule
<1>1. ASSUME IInv, [Next]_vars, NEW m \in Meeting, current[m] # None, meetingStatus[m] = "live",
             outcome'[current[m]] # outcome[current[m]],
             outcome'[current[m]] \in {"done", "follow_up"}
      PROVE  \E wrap \in BOOLEAN :
               /\ wrap => outcome'[current[m]] = "follow_up"
               /\ current'[m] = NextOpen(m, current[m], wrap)
  <2> DEFINE i == current[m]
  <2>0. Data /\ Database /\ i \in Item /\ home[i] = m
    BY <1>1, Parts DEF Data, Database, PointerOnLiveAgenda
  <2>1. outcome' # outcome
    BY <1>1
  <2>2. ASSUME NEW w \in Worker, AddCommit(w)
        PROVE  FALSE
    BY <2>1, <2>2 DEF AddCommit
  <2>3. ASSUME NEW w \in Worker, SchCommit(w)
        PROVE  current'[m] = NextOpen(m, i, FALSE)
    <3>1. req[w].item \in Item /\ home[req[w].item] = req[w].source
      BY <1>1, <2>3, ScheduleReady DEF SchCommit, At
    <3>2. i = req[w].item /\ m = req[w].source
      BY <1>1, <2>0, <2>3, <3>1 DEF SchCommit, Database
    <3>3. current' = [current EXCEPT ![m] = Advance(m, i, FALSE)]
      BY <2>3, <3>2 DEF SchCommit
    <3>4. current'[m] = Advance(m, i, FALSE)
      BY <2>0, <3>3 DEF Database
    <3> QED BY <3>4 DEF Advance
  <2>4. ASSUME NEW w \in Worker, NEW canWrite \in BOOLEAN, CanCommit(w, canWrite), ~FinishUnchanged(w)
        PROVE  FALSE
    <3>1. \E j : outcome' = [outcome EXCEPT ![j] = "not_discussed"]
      BY <1>1, <2>4, CancelWrites
    <3> QED BY <1>1, <2>0, <3>1 DEF Database
  <2>5. ASSUME NEW w \in Worker, DmCommit(w), ~FinishUnchanged(w)
        PROVE  FALSE
    BY <1>1, <2>0, <2>5 DEF DmCommit, Database
  <2>6. ASSUME NEW j \in Item, NEW result \in {"done", "follow_up"}, NEW wrap \in BOOLEAN,
               Resolve(j, result, wrap)
        PROVE  outcome'[i] = result /\ current'[m] = NextOpen(m, i, wrap)
    <3>1. outcome' = [outcome EXCEPT ![j] = result]
      BY <2>6 DEF Resolve
    <3>2. i = j /\ outcome'[i] = result
      BY <1>1, <2>0, <3>1 DEF Database
    <3>3. current' = [current EXCEPT ![m] = Advance(m, i, wrap)]
      BY <2>0, <2>6, <3>2 DEF Resolve
    <3>4. current'[m] = Advance(m, i, wrap)
      BY <2>0, <3>3 DEF Database
    <3> QED BY <3>2, <3>4 DEF Advance
  <2>7. ASSUME NEW j \in Item, ReopenItem(j)
        PROVE  FALSE
    BY <1>1, <2>0, <2>7 DEF ReopenItem, Database
  <2>8. ASSUME NEW j \in Item, DeleteItem(j)
        PROVE  FALSE
    BY <2>1, <2>8 DEF DeleteItem
  <2>9. ASSUME NEW j \in Item, MarkDone(j)
        PROVE  current'[m] = NextOpen(m, i, FALSE)
    BY <2>6, <2>9 DEF MarkDone
  <2>10. ASSUME NEW j \in Item, MarkFollowUp(j)
         PROVE  outcome'[i] = "follow_up" /\ current'[m] = NextOpen(m, i, TRUE)
    BY <2>6, <2>10 DEF MarkFollowUp
  <2> HIDE DEF i
  <2>11. current'[m] = NextOpen(m, i, FALSE) \/
         (outcome'[i] = "follow_up" /\ current'[m] = NextOpen(m, i, TRUE))
    BY <1>1, <2>1, <2>2, <2>3, <2>4, <2>5, <2>7, <2>8, <2>9, <2>10, Writers
  <2> QED BY <2>11 DEF i
<1>2. ASSUME IInv, [Next]_vars, NEW m \in Meeting, current[m] # None, meetingStatus[m] = "live",
             outcome'[current[m]] # outcome[current[m]],
             outcome'[current[m]] \in {"done", "follow_up"}
      PROVE  LET i == current[m]
                 later == {j \in Open(m) : Before(i, j)}
                 n == current'[m]
             IN  IF later # {}
                 THEN n \in later /\ \A j \in later \ {n} : Before(n, j)
                 ELSE n = None \/ (outcome'[i] = "follow_up" /\ n \in Open(m) \ {i})
  <2> DEFINE i == current[m]
             later == {j \in Open(m) : Before(i, j)}
             n == current'[m]
  <2>1. ItemsInv /\ i \in Item /\ home[i] = m
    BY <1>2, Parts DEF Data, Database, PointerOnLiveAgenda
  <2>2. PICK wrap \in BOOLEAN : /\ wrap => outcome'[i] = "follow_up"
                                /\ n = NextOpen(m, i, wrap)
    BY <1>1, <1>2
  <2>3. /\ later # {} => n \in later /\ \A j \in later \ {n} : Before(n, j)
        /\ later = {} => n = None \/ (wrap /\ n \in Open(m) \ {i})
    <3>1. LET k == NextOpen(m, i, wrap)
          IN  /\ later # {} => k \in later /\ \A j \in later \ {k} : Before(k, j)
              /\ later = {} => k = None \/ (wrap /\ k \in Open(m) \ {i})
      BY <2>1, NextOpenIs
    <3> QED BY <2>2, <3>1
  <2> HIDE DEF i, later, n
  <2> QED BY <2>2, <2>3 DEF i, later, n
<1>3. IInv /\ [Next]_vars =>
        \A m \in Meeting :
          LET i == current[m] IN
          /\ i # None /\ meetingStatus[m] = "live" /\ meetingStatus'[m] = "live"
          /\ outcome'[i] # outcome[i] /\ outcome'[i] \in {"done", "follow_up"}
          => LET later == {j \in Open(m) : Before(i, j)}
                 n == current'[m]
             IN  IF later # {}
                 THEN n \in later /\ \A j \in later \ {n} : Before(n, j)
                 ELSE n = None \/ (outcome'[i] = "follow_up" /\ n \in Open(m) \ {i})
  BY <1>2
<1> QED BY <1>3, Invariance, PTL DEF Spec, AdvanceRule
=============================================================================
