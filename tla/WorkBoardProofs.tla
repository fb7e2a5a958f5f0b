-------------------------- MODULE WorkBoardProofs ---------------------------
(***************************************************************************)
(* The properties of WorkBoard for any number of Work Items, definitions,  *)
(* requests and workers: the orders of the two boards, the rules of the    *)
(* configuration and the circular waits.                                   *)
(***************************************************************************)
EXTENDS WorkBoard, FiniteSetTheorems, SequenceTheorems, TLAPS

-----------------------------------------------------------------------------
(* Ranks: a key orders a finite set of numbers *)

LEMMA BeforeOrder ==
  ASSUME NEW S \in SUBSET Nat, NEW key, \A i \in S : key[i] \in Nat
  PROVE  /\ \A i \in S : ~Before(key, i, i)
         /\ \A i, j \in S : i # j => Before(key, i, j) \/ Before(key, j, i)
         /\ \A i, j \in S : ~(Before(key, i, j) /\ Before(key, j, i))
         /\ \A i, j, k \in S : Before(key, i, j) /\ Before(key, j, k) => Before(key, i, k)
BY DEF Before

LEMMA RankBijection ==
  ASSUME NEW S \in SUBSET Nat, IsFiniteSet(S), NEW key, \A i \in S : key[i] \in Nat
  PROVE  /\ Cardinality(S) \in Nat
         /\ \A i \in S : Rank(S, key, i) \in 1..Cardinality(S)
         /\ \A i, j \in S : Before(key, i, j) <=> Rank(S, key, i) < Rank(S, key, j)
         /\ \A i, j \in S : Rank(S, key, i) = Rank(S, key, j) => i = j
         /\ \A n \in 1..Cardinality(S) : \E i \in S : Rank(S, key, i) = n
<1> DEFINE Below(i) == {j \in S : Before(key, j, i)}
           N == Cardinality(S)
<1>1. N \in Nat
  BY FS_CardinalityType
<1>2. ASSUME NEW i \in S
      PROVE  /\ IsFiniteSet(Below(i)) /\ Cardinality(Below(i)) \in Nat
             /\ Cardinality(Below(i)) < N
  <2>1. Below(i) \in SUBSET (S \ {i})
    BY BeforeOrder
  <2>2. IsFiniteSet(S \ {i}) /\ Cardinality(S \ {i}) = N - 1
    BY FS_RemoveElement
  <2>3. IsFiniteSet(Below(i)) /\ Cardinality(Below(i)) <= N - 1
    BY <2>1, <2>2, FS_Subset
  <2>4. Cardinality(Below(i)) \in Nat
    BY <2>3, FS_CardinalityType
  <2> QED BY <1>1, <2>3, <2>4
<1>3. ASSUME NEW i \in S, NEW j \in S, Before(key, i, j)
      PROVE  Cardinality(Below(i)) < Cardinality(Below(j))
  <2>1. i \notin Below(i) /\ Below(i) \cup {i} \in SUBSET Below(j)
    BY <1>3, BeforeOrder
  <2>2. Cardinality(Below(i) \cup {i}) = Cardinality(Below(i)) + 1
    BY <1>2, <2>1, FS_AddElement
  <2>3. Cardinality(Below(i) \cup {i}) <= Cardinality(Below(j))
    BY <1>2, <2>1, FS_Subset
  <2> QED BY <1>2, <2>2, <2>3
<1>4. \A i \in S : Rank(S, key, i) = Cardinality(Below(i)) + 1
  BY DEF Rank
<1> HIDE DEF Below
<1>5. \A i \in S : Rank(S, key, i) \in 1..N
  BY <1>1, <1>2, <1>4
<1>6. \A i, j \in S : Before(key, i, j) => Rank(S, key, i) < Rank(S, key, j)
  BY <1>2, <1>3, <1>4
<1>7. \A i, j \in S : i # j => Rank(S, key, i) < Rank(S, key, j)
                                \/ Rank(S, key, j) < Rank(S, key, i)
  <2>1. \A i, j \in S : i # j => Before(key, i, j) \/ Before(key, j, i)
    BY BeforeOrder
  <2> QED BY <1>6, <2>1
<1>8. ASSUME NEW i \in S, NEW j \in S
      PROVE  /\ Rank(S, key, i) < Rank(S, key, j) => Before(key, i, j)
             /\ Rank(S, key, i) = Rank(S, key, j) => i = j
  <2>1. Rank(S, key, i) \in Nat /\ Rank(S, key, j) \in Nat
    BY <1>1, <1>5
  <2>2. i # j => Before(key, i, j) \/ Before(key, j, i)
    BY BeforeOrder
  <2>3. Before(key, j, i) => Rank(S, key, j) < Rank(S, key, i)
    BY <1>6
  <2>4. i # j => Rank(S, key, i) # Rank(S, key, j)
    BY <1>7, <2>1
  <2> QED BY <2>1, <2>2, <2>3, <2>4
<1>9. \A n \in 1..N : \E i \in S : Rank(S, key, i) = n
  <2> DEFINE f == [i \in S |-> Rank(S, key, i)]
  <2>1. f \in Injection(S, 1..N)
    BY <1>5, <1>8 DEF Injection, IsInjective
  <2>2. IsFiniteSet(1..N) /\ Cardinality(1..N) = N
    BY <1>1, FS_Interval
  <2>3. f \in Surjection(S, 1..N)
    BY <2>1, <2>2, FS_Injection
  <2> QED BY <2>3 DEF Surjection
<1> QED BY <1>1, <1>5, <1>6, <1>8, <1>9

-----------------------------------------------------------------------------
(* Columns: a sequence that names every member of a set once *)

Enumerates(s, S) ==
  /\ s \in Seq(S) /\ \A x \in S : \E n \in 1..Len(s) : s[n] = x
  /\ \A m, n \in 1..Len(s) : s[m] = s[n] => m = n

LEMMA Places ==
  ASSUME NEW S, NEW s, Enumerates(s, S)
  PROVE  /\ Len(s) \in Nat /\ ToSet(s) = S
         /\ \A n \in 1..Len(s) : s[n] \in S /\ PlaceIn(s, s[n]) = n
         /\ \A x \in S : PlaceIn(s, x) \in 1..Len(s) /\ s[PlaceIn(s, x)] = x
         /\ \A x : x \notin S => PlaceIn(s, x) = 0
<1>1. Len(s) \in Nat /\ DOMAIN s = 1..Len(s) /\ \A n \in 1..Len(s) : s[n] \in S
  BY LenProperties, ElementOfSeq DEF Enumerates
<1>2. ToSet(s) = S
  BY <1>1 DEF ToSet, Enumerates
<1>3. ASSUME NEW n \in 1..Len(s) PROVE PlaceIn(s, s[n]) = n
  <2>1. {i \in 1..Len(s) : s[i] = s[n]} = {n}
    BY DEF Enumerates
  <2>2. Min({n}) = n
    BY <1>1 DEF Min
  <2> QED BY <2>1, <2>2 DEF PlaceIn, SelectInSeq
<1>4. ASSUME NEW x, x \notin S PROVE PlaceIn(s, x) = 0
  <2>1. {i \in 1..Len(s) : s[i] = x} = {}
    BY <1>1, <1>4
  <2> QED BY <2>1 DEF PlaceIn, SelectInSeq
<1>5. \A x \in S : PlaceIn(s, x) \in 1..Len(s) /\ s[PlaceIn(s, x)] = x
  BY <1>3 DEF Enumerates
<1> QED BY <1>1, <1>2, <1>3, <1>4, <1>5

LEMMA RenderedColumn ==
  ASSUME NEW S \in SUBSET Nat, IsFiniteSet(S), NEW key, \A i \in S : key[i] \in Nat
  PROVE  /\ Enumerates(Rendered(S, key), S)
         /\ Len(Rendered(S, key)) = Cardinality(S)
         /\ \A i \in S : PlaceIn(Rendered(S, key), i) = Rank(S, key, i)
<1> DEFINE r == Rendered(S, key)
           N == Cardinality(S)
<1>0. N \in Nat
  BY RankBijection
<1>1. ASSUME NEW n \in 1..N PROVE r[n] \in S /\ Rank(S, key, r[n]) = n
  <2>1. r[n] = CHOOSE i \in S : Rank(S, key, i) = n
    BY DEF Rendered
  <2>2. \E i \in S : Rank(S, key, i) = n
    BY RankBijection
  <2> QED BY <2>1, <2>2
<1>2. r \in [1..N -> S]
  BY <1>1 DEF Rendered
<1>3. r \in Seq(S) /\ Len(r) = N
  BY <1>0, <1>2
<1> HIDE DEF r
<1>4. \A m, n \in 1..N : r[m] = r[n] => m = n
  BY <1>1
<1>5. ASSUME NEW i \in S
      PROVE  Rank(S, key, i) \in 1..N /\ r[Rank(S, key, i)] = i
  <2>1. Rank(S, key, i) \in 1..N
    BY RankBijection
  <2>2. LET m == Rank(S, key, i) IN r[m] \in S /\ Rank(S, key, r[m]) = m
    BY <1>1, <2>1
  <2>3. \A j, k \in S : Rank(S, key, j) = Rank(S, key, k) => j = k
    BY RankBijection
  <2> QED BY <2>1, <2>2, <2>3
<1>6. Enumerates(r, S)
  BY <1>3, <1>4, <1>5 DEF Enumerates
<1>7. \A i \in S : PlaceIn(r, i) = Rank(S, key, i)
  BY <1>3, <1>5, <1>6, Places
<1> QED BY <1>3, <1>6, <1>7 DEF r

LEMMA InsertedColumn ==
  ASSUME NEW S, NEW column, Enumerates(column, S), NEW i, i \notin S,
         NEW anchor, anchor \in S \/ anchor = Absent
  PROVE  LET r == Inserted(column, i, anchor)
         IN  /\ Enumerates(r, S \cup {i})
             /\ Len(r) = Len(column) + 1
             /\ \A j, k \in S : PlaceIn(r, j) < PlaceIn(r, k)
                                <=> PlaceIn(column, j) < PlaceIn(column, k)
<1> DEFINE r == Inserted(column, i, anchor)
           T == S \cup {i}
           p == IF anchor = Absent THEN Len(column) + 1 ELSE PlaceIn(column, anchor)
<1>1. column \in Seq(T) /\ Len(column) \in Nat
  BY Places, SeqMonotonic DEF Enumerates
<1>2. p \in 1..(Len(column) + 1)
  <2>1. CASE anchor = Absent
    BY <1>1, <2>1
  <2>2. CASE anchor # Absent
    BY <1>1, <2>2, Places
  <2> QED BY <2>1, <2>2
<1>3. /\ r \in Seq(T) /\ Len(r) = Len(column) + 1
      /\ \A n \in 1..(Len(column) + 1) :
           r[n] = IF n < p THEN column[n] ELSE IF n = p THEN i ELSE column[n-1]
  <2>1. CASE anchor = Absent
    <3>1. r = Append(column, i) /\ p = Len(column) + 1
      BY <2>1 DEF Inserted
    <3> QED BY <1>1, <3>1, AppendProperties
  <2>2. CASE anchor # Absent
    <3> DEFINE a == SubSeq(column, 1, p - 1)
               b == SubSeq(column, p, Len(column))
    <3>1. r = a \o <<i>> \o b
      BY <2>2 DEF Inserted, InsertAt
    <3>2. p \in 1..Len(column)
      BY <2>2, Places
    <3>3. /\ a \in Seq(T) /\ Len(a) = p - 1
          /\ \A n \in 1..(p - 1) : a[n] = column[n]
      BY <1>1, <3>2, SubSeqProperties, ElementOfSeq
    <3>4. /\ b \in Seq(T) /\ Len(b) = Len(column) - p + 1
          /\ \A n \in 1..(Len(column) - p + 1) : b[n] = column[p + n - 1]
      BY <1>1, <3>2, SubSeqProperties, ElementOfSeq
    <3> HIDE DEF a, b, p
    <3>5. /\ <<i>> \in Seq(T) /\ Len(<<i>>) = 1 /\ <<i>>[1] = i
      OBVIOUS
    <3>6. /\ a \o <<i>> \in Seq(T) /\ Len(a \o <<i>>) = p
          /\ \A n \in 1..p : (a \o <<i>>)[n] = IF n <= p - 1 THEN a[n] ELSE <<i>>[n - (p - 1)]
      BY <1>1, <3>2, <3>3, <3>5, ConcatProperties
    <3> DEFINE c == a \o <<i>>
    <3> HIDE DEF c
    <3>7. /\ r \in Seq(T) /\ Len(r) = Len(column) + 1
          /\ \A n \in 1..(Len(column) + 1) : r[n] = IF n <= p THEN c[n] ELSE b[n - p]
      <4>1. /\ c \o b \in Seq(T) /\ Len(c \o b) = Len(c) + Len(b)
            /\ \A n \in 1..(Len(c) + Len(b)) :
                 (c \o b)[n] = IF n <= Len(c) THEN c[n] ELSE b[n - Len(c)]
        BY <3>4, <3>6, ConcatProperties DEF c
      <4>2. r = c \o b /\ Len(c) = p /\ Len(c) + Len(b) = Len(column) + 1
        <5>1. r = c \o b /\ Len(c) = p
          BY <3>1, <3>6 DEF c
        <5> QED BY <1>1, <3>2, <3>4, <5>1
      <4> QED BY <4>1, <4>2
    <3>8. ASSUME NEW n \in 1..(Len(column) + 1)
          PROVE  r[n] = IF n < p THEN column[n] ELSE IF n = p THEN i ELSE column[n-1]
      <4>1. CASE n < p
        BY <1>1, <3>2, <3>3, <3>6, <3>7, <4>1 DEF c
      <4>2. CASE n = p
        BY <1>1, <3>2, <3>5, <3>6, <3>7, <4>2 DEF c
      <4>3. CASE n > p
        BY <1>1, <3>2, <3>4, <3>7, <4>3
      <4> QED BY <1>1, <3>2, <4>1, <4>2, <4>3
    <3> QED BY <3>7, <3>8
  <2> QED BY <2>1, <2>2
<1> HIDE DEF r, p
<1>4. \A j \in S : /\ PlaceIn(column, j) \in 1..Len(column)
                   /\ column[PlaceIn(column, j)] = j
  BY Places
<1>5. \A n \in 1..Len(column) : column[n] \in S /\ column[n] # i
  BY Places
<1>6. ASSUME NEW m \in 1..Len(r), NEW n \in 1..Len(r), r[m] = r[n]
      PROVE  m = n
  <2>1. \A q \in 1..Len(r) :
          \/ q < p /\ q \in 1..Len(column) /\ r[q] = column[q]
          \/ q = p /\ r[q] = i
          \/ q > p /\ q - 1 \in 1..Len(column) /\ r[q] = column[q - 1]
    BY <1>1, <1>2, <1>3
  <2>2. \A u, v \in 1..Len(column) : column[u] = column[v] => u = v
    BY DEF Enumerates
  <2>3. CASE m = p \/ n = p
    BY <1>2, <1>5, <1>6, <2>1, <2>3
  <2>4. CASE m # p /\ n # p
    <3> DEFINE u == IF m < p THEN m ELSE m - 1
               v == IF n < p THEN n ELSE n - 1
    <3>1. u \in 1..Len(column) /\ r[m] = column[u]
      BY <1>2, <1>3, <2>1, <2>4
    <3>2. v \in 1..Len(column) /\ r[n] = column[v]
      BY <1>2, <1>3, <2>1, <2>4
    <3>3. u = v
      BY <1>6, <2>2, <3>1, <3>2
    <3> QED BY <1>1, <1>2, <1>3, <2>4, <3>3
  <2> QED BY <2>3, <2>4
<1>7. \A x \in T : \E n \in 1..Len(r) : r[n] = x
  <2>1. r[p] = i /\ p \in 1..Len(r)
    BY <1>2, <1>3
  <2>2. ASSUME NEW x \in S PROVE \E n \in 1..Len(r) : r[n] = x
    <3> DEFINE q == PlaceIn(column, x)
    <3>1. q \in 1..Len(column) /\ column[q] = x
      BY <1>4
    <3> HIDE DEF q
    <3>2. CASE q < p
      <4>1. q \in 1..Len(r) /\ r[q] = column[q]
        BY <1>1, <1>2, <1>3, <3>1, <3>2
      <4> QED BY <3>1, <4>1
    <3>3. CASE q >= p
      <4>1. q + 1 \in 1..Len(r) /\ r[q + 1] = column[q]
        BY <1>1, <1>2, <1>3, <3>1, <3>3
      <4> QED BY <3>1, <4>1
    <3> QED BY <1>1, <1>2, <3>1, <3>2, <3>3
  <2> QED BY <2>1, <2>2
<1>8. Enumerates(r, T)
  BY <1>3, <1>6, <1>7 DEF Enumerates
<1>9. ASSUME NEW j \in S
      PROVE  PlaceIn(r, j) = IF PlaceIn(column, j) < p THEN PlaceIn(column, j)
                                                       ELSE PlaceIn(column, j) + 1
  <2> DEFINE q == PlaceIn(column, j)
             n == IF q < p THEN q ELSE q + 1
  <2>1. q \in 1..Len(column) /\ column[q] = j
    BY <1>4
  <2> HIDE DEF q
  <2>2. n \in 1..Len(r) /\ r[n] = j
    BY <1>1, <1>2, <1>3, <2>1
  <2> HIDE DEF n
  <2>3. PlaceIn(r, j) = n
    BY <1>8, <2>2, Places
  <2> QED BY <2>3 DEF n, q
<1>10. \A j, k \in S : PlaceIn(r, j) < PlaceIn(r, k)
                       <=> PlaceIn(column, j) < PlaceIn(column, k)
  BY <1>1, <1>2, <1>4, <1>9
<1> QED BY <1>3, <1>8, <1>10 DEF r

-----------------------------------------------------------------------------
(* The inductive invariant *)

ItemKinds == {"drag", "transition", "edit", "assign"}
ProjectKinds == ItemKinds \cup {"create", "settings"}
MoveKinds == {"reorder", "cross"}
Jobs == [kind : ProjectKinds \cup MoveKinds \cup {"none"}, item : Item \cup {Absent},
         to : Category \cup {"none"}, before : Item \cup {Absent},
         def : Status \cup {0}, cites : BOOLEAN, order : Seq(Item)]

Moving(w) == phase[w] \in {"user", "reading", "writing"}
Crossing(w) == phase[w] \in {"reading", "writing"} /\ job[w].kind = "cross"

\* A phase is what the worker holds and of which kind its request is.
LocksInv ==
  /\ job \in [Worker -> Jobs]
  /\ \A w \in Worker :
       /\ phase[w] = "project" => projectRow = w /\ job[w].kind \in ProjectKinds
       /\ phase[w] = "begun" \/ Moving(w) => job[w].kind \in MoveKinds
       /\ Moving(w) => userRow = w
       /\ phase[w] = "user" => job[w].kind = "cross"
       /\ Crossing(w) => projectRow = w
       /\ userRow = w => Moving(w)
       /\ projectRow = w => phase[w] = "project" \/ Crossing(w)

\* The configuration, and the definitions Work Items and requests refer to.
Written(d) == d \in Status /\ status[d].category \in Category

DefaultInv ==
  /\ \A d \in Status : status[d].category = "none" => status[d] = Unwritten
  /\ \A d \in Status : status[d].default => status[d].active /\ status[d].category = "todo"
  /\ \E d \in Status : status[d].default /\ \A e \in Status : status[e].default => e = d

ItemsInv ==
  /\ \A i \in items : Written(statusOf[i])
  /\ completed = {i \in items : CategoryOf(i) = "done"}

RequestInv(w) ==
  /\ phase[w] = "project" =>
       /\ job[w].def \in Status
       /\ job[w].kind # "settings" => job[w].item \in Item /\ Written(job[w].def)
       /\ job[w].kind \in ItemKinds => job[w].item \in items
  /\ phase[w] = "begun" \/ Moving(w) =>
       job[w].item \in Item /\ job[w].to \in Category /\ job[w].before # job[w].item
  /\ Crossing(w) => Written(job[w].def) /\ status[job[w].def].category = job[w].to
  /\ phase[w] = "writing" =>
       /\ Enumerates(job[w].order, ToSet(job[w].order)) /\ job[w].item \in ToSet(job[w].order)
       /\ Len(job[w].order) <= Cardinality(Item)

RequestsInv == \A w \in Worker : RequestInv(w)

TypesInv == overlapped \/ types \ retiring # {}

\* What a move has read still holds when it writes: the user's rows for its
\* column are in its order, and a column whose Project it holds has the Work
\* Items it read.
RowKey(c) == [i \in Item |-> IF personal[i].category = c THEN personal[i].position ELSE Unplaced]

OrderInv ==
  \A w \in Worker : phase[w] = "writing" =>
    /\ \A i, j \in ToSet(job[w].order) \ {job[w].item} :
         PlaceIn(job[w].order, i) < PlaceIn(job[w].order, j) <=> Before(RowKey(job[w].to), i, j)
    /\ job[w].kind = "cross" =>
         /\ ToSet(job[w].order) \cap items
              = ((Column(job[w].to) \cap mine) \cup {job[w].item}) \cap items
         /\ job[w].item \in items => job[w].item \in mine

IInv == TypeOK /\ LocksInv /\ DefaultInv /\ ItemsInv /\ RequestsInv /\ TypesInv
FullInv == IInv /\ OrderInv

USE ConfigurationAssumption
-----------------------------------------------------------------------------
(* Locks *)

LEMMA NoJobIsJob == NoJob \in Jobs
BY DEF NoJob, Request, Jobs

LEMMA WorkStep ==
  ASSUME LocksInv, TypeOK, NEW w \in Worker, NEW p, NEW j, Work(w, p, j)
  PROVE  /\ phase'[w] = p /\ job'[w] = j
         /\ \A v \in Worker \ {w} : phase'[v] = phase[v] /\ job'[v] = job[v]
         /\ j \in Jobs => job' \in [Worker -> Jobs]
BY DEF LocksInv, TypeOK, Work

LEMMA ReturnStep ==
  ASSUME LocksInv, TypeOK, NEW w \in Worker, Return(w)
  PROVE  /\ LocksInv'
         /\ phase'[w] = "idle"
         /\ \A v \in Worker \ {w} : phase'[v] = phase[v] /\ job'[v] = job[v]
         /\ {userRow', projectRow'} \subseteq Worker \cup {NoOne}
         /\ phase' \in [Worker -> {"idle", "begun", "user", "reading", "writing", "project"}]
         /\ requests' = requests
<1>1. Work(w, "idle", NoJob)
  BY DEF Return
<1>2. /\ phase'[w] = "idle" /\ job' \in [Worker -> Jobs]
      /\ \A v \in Worker \ {w} : phase'[v] = phase[v] /\ job'[v] = job[v]
  BY <1>1, WorkStep, NoJobIsJob
<1>3. LocksInv'
  BY <1>2 DEF LocksInv, Return, Moving, Crossing
<1> QED BY <1>2, <1>3 DEF Return, TypeOK, Work

\* A request leaves the others what they refer to, when it adds Work Items
\* and definitions at most, or changes a definition under the Project row.
LEMMA OtherRequests ==
  ASSUME LocksInv, RequestsInv, NEW w \in Worker, NEW v \in Worker \ {w},
         phase'[v] = phase[v], job'[v] = job[v],
         items \subseteq items', \A d : Written(d) => Written(d)',
         status' = status \/ projectRow = w
  PROVE  RequestInv(v)'
<1>1. RequestInv(v) /\ (Crossing(v) => projectRow = v)
  BY DEF RequestsInv, LocksInv
<1>2. Crossing(v) => status[job[v].def].category = status'[job'[v].def].category
  BY <1>1
<1>3. /\ Moving(v)' <=> Moving(v)
      /\ Crossing(v)' <=> Crossing(v)
  BY DEF Moving, Crossing
<1> QED BY <1>1, <1>2, <1>3 DEF RequestInv

LEMMA ReturnRequests ==
  ASSUME LocksInv, TypeOK, RequestsInv, NEW w \in Worker, Return(w),
         items \subseteq items', \A d : Written(d) => Written(d)',
         status' = status \/ projectRow = w
  PROVE  RequestsInv'
<1>1. ASSUME NEW v \in Worker \ {w} PROVE RequestInv(v)'
  BY <1>1, ReturnStep, OtherRequests
<1>2. RequestInv(w)'
  BY ReturnStep DEF RequestInv, Moving, Crossing
<1> QED BY <1>1, <1>2 DEF RequestsInv

LEMMA RollbackInv ==
  ASSUME IInv, NEW w \in Worker, Rollback(w)
  PROVE  IInv'
<1> USE DEF IInv, Rollback, board, types_
<1>1. LocksInv' /\ phase' \in [Worker -> {"idle", "begun", "user", "reading", "writing", "project"}]
      /\ {userRow', projectRow'} \subseteq Worker \cup {NoOne} /\ requests' = requests
  BY ReturnStep
<1>2. RequestsInv'
  <2>1. \A d : Written(d) => Written(d)'
    BY DEF Written
  <2> QED BY <2>1, ReturnRequests
<1>3. TypeOK'
  BY <1>1 DEF TypeOK
<1>4. DefaultInv' /\ ItemsInv' /\ TypesInv'
  BY DEF DefaultInv, ItemsInv, TypesInv, Written, CategoryOf
<1> QED BY <1>1, <1>2, <1>3, <1>4

-----------------------------------------------------------------------------
(* Types, which belong to no transaction *)

LEMMA TypeDefinitionsInv ==
  ASSUME IInv, NEW t \in Type, CountTypes(t) \/ DeactivateType(t) \/ ActivateType(t)
  PROVE  IInv'
<1> USE DEF IInv, CountTypes, DeactivateType, ActivateType, board, requests_
<1>1. TypeOK'
  BY DEF TypeOK
<1>2. TypesInv'
  <2>1. CASE CountTypes(t)
    <3>1. types # {t}
      <4> SUFFICES ASSUME types = {t} PROVE FALSE
        OBVIOUS
      <4>1. Cardinality(types) = 1
        BY FS_Singleton
      <4> QED BY <2>1, <4>1
    <3>2. ~overlapped' => retiring = {} /\ retiring' = {t}
      BY <2>1
    <3> QED BY <2>1, <3>1, <3>2 DEF TypesInv
  <2>2. CASE DeactivateType(t)
    BY <2>2 DEF TypesInv
  <2>3. CASE ActivateType(t)
    BY <2>3 DEF TypesInv, TypeOK
  <2> QED BY <2>1, <2>2, <2>3
<1>3. LocksInv' /\ DefaultInv' /\ ItemsInv'
  BY DEF LocksInv, DefaultInv, ItemsInv, Moving, Crossing, Written, CategoryOf
<1>4. RequestsInv'
  BY DEF RequestsInv, RequestInv, Moving, Crossing, Written
<1> QED BY <1>1, <1>2, <1>3, <1>4

-----------------------------------------------------------------------------
(* Requests begin *)

LEMMA LockProjectInv ==
  ASSUME IInv, NEW w \in Worker, NEW j \in Jobs, LockProject(w, j),
         j.kind \in ProjectKinds, j.def \in Status,
         j.kind # "settings" => j.item \in Item /\ Written(j.def),
         j.kind \in ItemKinds => j.item \in items
  PROVE  IInv'
<1> USE DEF IInv, LockProject, Begin, board, types_
<1>1. /\ phase'[w] = "project" /\ job'[w] = j
      /\ \A v \in Worker \ {w} : phase'[v] = phase[v] /\ job'[v] = job[v]
      /\ job' \in [Worker -> Jobs]
  BY WorkStep
<1>2. TypeOK'
  BY DEF TypeOK, Work
<1>3. LocksInv'
  BY <1>1 DEF LocksInv, Moving, Crossing
<1>4. DefaultInv' /\ ItemsInv' /\ TypesInv'
  BY DEF DefaultInv, ItemsInv, TypesInv, Written, CategoryOf
<1>5. \A d : Written(d) => Written(d)'
  BY DEF Written
<1>6. RequestsInv'
  <2>1. ASSUME NEW v \in Worker \ {w} PROVE RequestInv(v)'
    BY <1>1, <1>5, OtherRequests
  <2>2. RequestInv(w)'
    BY <1>1, <1>5 DEF RequestInv, Moving, Crossing
  <2> QED BY <2>1, <2>2 DEF RequestsInv
<1> QED BY <1>2, <1>3, <1>4, <1>6

LEMMA StartProjectInv ==
  ASSUME IInv, NEW w \in Worker, StartItemWrite(w) \/ StartCreate(w) \/ StartSettings(w)
  PROVE  IInv'
<1> USE DEF IInv
<1>1. \A d \in Status : status[d] # Unwritten => Written(d)
  BY DEF DefaultInv, TypeOK, Written
<1>2. CASE StartItemWrite(w)
  <2>1. PICK kind \in ItemKinds, i \in items, d \in Status, c \in BOOLEAN :
          Written(d) /\ LockProject(w, Request(kind, i, d, c))
    BY <1>1, <1>2 DEF StartItemWrite, ItemKinds
  <2>2. Request(kind, i, d, c) \in Jobs
    BY DEF Request, Jobs, TypeOK, ProjectKinds
  <2> QED BY <2>1, <2>2, LockProjectInv DEF Request, TypeOK, ItemKinds, ProjectKinds
<1>3. CASE StartCreate(w)
  <2>1. PICK i \in Item, d \in Status, c \in BOOLEAN :
          Written(d) /\ LockProject(w, Request("create", i, d, c))
    BY <1>1, <1>3 DEF StartCreate
  <2>2. Request("create", i, d, c) \in Jobs
    BY DEF Request, Jobs, ProjectKinds
  <2> QED BY <2>1, <2>2, LockProjectInv DEF Request, ItemKinds, ProjectKinds
<1>4. CASE StartSettings(w)
  <2>1. PICK d \in Status : LockProject(w, Request("settings", Absent, d, FALSE))
    BY <1>4 DEF StartSettings
  <2>2. Request("settings", Absent, d, FALSE) \in Jobs
    BY DEF Request, Jobs, ProjectKinds
  <2> QED BY <2>1, <2>2, LockProjectInv DEF Request, ItemKinds, ProjectKinds
<1> QED BY <1>2, <1>3, <1>4

LEMMA BeginMoveInv ==
  ASSUME IInv, NEW w \in Worker, BeginMove(w)
  PROVE  IInv'
<1> USE DEF IInv, BeginMove, Begin, board, types_
<1>1. PICK i \in items \cap mine, c \in Category, anchor \in (items \cap mine) \cup {Absent},
           kind \in MoveKinds :
        /\ anchor # i
        /\ Work(w, "begun", [kind |-> kind, item |-> i, to |-> c, before |-> anchor,
                             def |-> 0, cites |-> FALSE, order |-> <<>>])
  BY DEF MoveKinds
<1> DEFINE j == [kind |-> kind, item |-> i, to |-> c, before |-> anchor,
                 def |-> 0, cites |-> FALSE, order |-> <<>>]
<1>2. j \in Jobs /\ i \in Item /\ c \in Category
  BY DEF Jobs, TypeOK
<1>3. /\ phase'[w] = "begun" /\ job'[w] = j
      /\ \A v \in Worker \ {w} : phase'[v] = phase[v] /\ job'[v] = job[v]
      /\ job' \in [Worker -> Jobs]
  BY <1>1, <1>2, WorkStep
<1>4. j.kind = kind /\ j.item = i /\ j.to = c /\ j.before = anchor
  OBVIOUS
<1> HIDE DEF j
<1>5. TypeOK'
  BY <1>1 DEF TypeOK, Work
<1>6. LocksInv'
  BY <1>3, <1>4 DEF LocksInv, Moving, Crossing
<1>7. DefaultInv' /\ ItemsInv' /\ TypesInv'
  BY DEF DefaultInv, ItemsInv, TypesInv, Written, CategoryOf
<1>8. \A d : Written(d) => Written(d)'
  BY DEF Written
<1>9. RequestsInv'
  <2>1. ASSUME NEW v \in Worker \ {w} PROVE RequestInv(v)'
    BY <1>3, <1>8, OtherRequests
  <2>2. RequestInv(w)'
    BY <1>1, <1>2, <1>3, <1>4 DEF RequestInv, Moving, Crossing
  <2> QED BY <2>1, <2>2 DEF RequestsInv
<1> QED BY <1>5, <1>6, <1>7, <1>9

-----------------------------------------------------------------------------
(* A move takes its rows and reads its column *)

LEMMA KeysAreNumbers ==
  ASSUME TypeOK
  PROVE  /\ IsFiniteSet(Item) /\ Item \in SUBSET Nat /\ Cardinality(Item) \in Nat
         /\ \A i \in Item : BoardKey[i] \in Nat /\ PersonalKey[i] \in Nat
         /\ \A c : \A i \in Item : RowKey(c)[i] \in Nat
<1>1. IsFiniteSet(Item) /\ Cardinality(Item) \in Nat
  BY FS_CardinalityType
<1>2. \A n \in 1..Cardinality(Item) : n \in Nat
  BY <1>1
<1>3. \A n \in 0..Cardinality(Item) : n \in Nat
  BY <1>1
<1> QED BY <1>1, <1>2, <1>3 DEF TypeOK, BoardKey, PersonalKey, RowKey, Unplaced

\* A Work Item put into a column of others: the numbers fit, and the others
\* keep their order.
LEMMA InsertedRank ==
  ASSUME TypeOK, NEW S \in SUBSET Item, NEW key, \A j \in Item : key[j] \in Nat,
         NEW i \in Item \ S, NEW anchor,
         anchor \in ToSet(Rendered(S, key)) \/ anchor = Absent
  PROVE  LET r == Inserted(Rendered(S, key), i, anchor)
         IN  /\ Enumerates(r, S \cup {i}) /\ r \in Seq(Item)
             /\ Len(r) <= Cardinality(Item)
             /\ \A j, k \in S : PlaceIn(r, j) < PlaceIn(r, k) <=> Before(key, j, k)
<1> DEFINE c == Rendered(S, key)
           r == Inserted(c, i, anchor)
<1>1. IsFiniteSet(S) /\ S \in SUBSET Nat /\ Cardinality(S) \in Nat
  BY KeysAreNumbers, FS_Subset, FS_CardinalityType
<1>2. /\ Enumerates(c, S) /\ Len(c) = Cardinality(S)
      /\ \A j \in S : PlaceIn(c, j) = Rank(S, key, j)
  BY <1>1, RenderedColumn
<1>3. ToSet(c) = S
  BY <1>2, Places
<1> HIDE DEF c
<1>4. (anchor \in S \/ anchor = Absent) /\ i \notin S
  BY <1>3 DEF c
<1>5. /\ Enumerates(r, S \cup {i}) /\ Len(r) = Cardinality(S) + 1
      /\ \A j, k \in S : PlaceIn(r, j) < PlaceIn(r, k) <=> PlaceIn(c, j) < PlaceIn(c, k)
  <2>1. /\ Enumerates(r, S \cup {i}) /\ Len(r) = Len(c) + 1
        /\ \A j, k \in S : PlaceIn(r, j) < PlaceIn(r, k) <=> PlaceIn(c, j) < PlaceIn(c, k)
    <3>1. Enumerates(c, S)
      BY <1>2
    <3> HIDE ConfigurationAssumption
    <3> QED BY <1>4, <3>1, InsertedColumn
  <2> QED BY <1>2, <2>1
<1>6. Cardinality(S) + 1 <= Cardinality(Item)
  <2>1. Cardinality(S \cup {i}) = Cardinality(S) + 1
    BY <1>1, FS_AddElement
  <2>2. Cardinality(S \cup {i}) <= Cardinality(Item)
    BY KeysAreNumbers, FS_Subset
  <2> QED BY <2>1, <2>2
<1>7. r \in Seq(Item)
  <2>1. r \in Seq(S \cup {i}) /\ S \cup {i} \subseteq Item
    BY <1>5 DEF Enumerates
  <2> QED BY <2>1, SeqMonotonic
<1>8. \A j, k \in S : Rank(S, key, j) < Rank(S, key, k) <=> Before(key, j, k)
  BY <1>1, RankBijection
<1> QED BY <1>2, <1>5, <1>6, <1>7, <1>8 DEF c

LEMMA LockUserInv ==
  ASSUME IInv, NEW w \in Worker, LockUser(w)
  PROVE  IInv'
<1> USE DEF IInv, LockUser, board, types_
<1> DEFINE p == IF job[w].kind = "cross" THEN "user" ELSE "reading"
<1>1. /\ phase'[w] = p /\ job'[w] = job[w]
      /\ \A v \in Worker \ {w} : phase'[v] = phase[v] /\ job'[v] = job[v]
      /\ job' \in [Worker -> Jobs]
  BY WorkStep DEF LocksInv
<1>2. TypeOK'
  BY DEF TypeOK, Work
<1>3. LocksInv'
  BY <1>1 DEF LocksInv, Moving, Crossing
<1>4. DefaultInv' /\ ItemsInv' /\ TypesInv'
  BY DEF DefaultInv, ItemsInv, TypesInv, Written, CategoryOf
<1>5. \A d : Written(d) => Written(d)'
  BY DEF Written
<1>6. RequestsInv'
  <2>1. ASSUME NEW v \in Worker \ {w} PROVE RequestInv(v)'
    BY <1>1, <1>5, OtherRequests
  <2>2. RequestInv(w)'
    BY <1>1, <1>5 DEF RequestsInv, RequestInv, Moving, Crossing
  <2> QED BY <2>1, <2>2 DEF RequestsInv
<1> QED BY <1>2, <1>3, <1>4, <1>6

\* Some definition is the first of those that fit.
LEMMA FirstOfTargets ==
  ASSUME TypeOK, NEW c \in Category, Targets(c) # {}
  PROVE  FirstTarget(c) \in Targets(c)
<1> DEFINE T(m) == {d \in Targets(c) : d <= m}
           zero == [d \in Nat |-> 0]
<1>1. Targets(c) \in SUBSET Nat
  BY DEF Targets
<1>2. PICK m \in Targets(c) : TRUE
  OBVIOUS
<1>3. m \in Nat /\ T(m) \in SUBSET Nat /\ T(m) # {}
  BY <1>1, <1>2
<1>4. IsFiniteSet(T(m))
  BY <1>1, <1>3, FS_BoundedSetOfNaturals
<1>5. Cardinality(T(m)) \in Nat /\ 1 \in 1..Cardinality(T(m))
  <2>1. Cardinality(T(m)) \in Nat
    BY <1>4, FS_CardinalityType
  <2>2. Cardinality(T(m)) # 0
    BY <1>3, <1>4, FS_EmptySet
  <2> QED BY <2>1, <2>2
<1>6. /\ \A i \in T(m) : Rank(T(m), zero, i) \in 1..Cardinality(T(m))
      /\ \A i, j \in T(m) : Before(zero, i, j) <=> Rank(T(m), zero, i) < Rank(T(m), zero, j)
      /\ \A n \in 1..Cardinality(T(m)) : \E i \in T(m) : Rank(T(m), zero, i) = n
  <2>1. \A i \in T(m) : zero[i] \in Nat
    BY <1>3
  <2> HIDE DEF T, zero
  <2> QED BY <1>3, <1>4, <2>1, RankBijection
<1>7. PICK d \in T(m) : Rank(T(m), zero, d) = 1
  BY <1>5, <1>6
<1>8. \A e \in T(m) : ~Before(zero, e, d)
  BY <1>5, <1>6, <1>7
<1>9. \A e \in T(m) : d <= e
  BY <1>3, <1>7, <1>8 DEF Before
<1>10. \A e \in Targets(c) : d <= e
  BY <1>1, <1>2, <1>7, <1>9
<1> QED BY <1>7, <1>10 DEF FirstTarget

LEMMA LockMoveProjectInv ==
  ASSUME IInv, NEW w \in Worker, LockMoveProject(w)
  PROVE  IInv'
<1> DEFINE i == job[w].item
           c == job[w].to
           d == IF CategoryOf(i) = c THEN statusOf[i] ELSE FirstTarget(c)
           j == [job[w] EXCEPT !.def = d]
<1>1. CASE Rollback(w)
  BY <1>1, RollbackInv
<1>2. CASE ~Rollback(w)
  <2> USE DEF IInv, LockMoveProject, board, types_
  <2>1. /\ phase[w] = "user" /\ projectRow = NoOne /\ projectRow' = w
        /\ i \in items \cap mine /\ (CategoryOf(i) = c \/ Targets(c) # {})
        /\ Work(w, "reading", j)
        /\ UNCHANGED <<board, mine, personal, status, types_, userRow, requests>>
    BY <1>2
  <2>2. job[w] \in Jobs /\ job[w].kind = "cross" /\ c \in Category
    BY <2>1 DEF LocksInv, RequestsInv, RequestInv, Moving
  <2>3. Written(d) /\ status[d].category = c
    <3>1. CASE CategoryOf(i) = c
      BY <2>1, <3>1 DEF ItemsInv, CategoryOf
    <3>2. CASE CategoryOf(i) # c
      BY <2>1, <2>2, <3>2, FirstOfTargets DEF Targets, Written
    <3> QED BY <3>1, <3>2
  <2> HIDE DEF d
  <2>4. /\ j \in Jobs /\ j.def = d /\ j.kind = "cross" /\ j.item = i /\ j.to = c
        /\ j.before = job[w].before
    BY <2>2, <2>3 DEF Jobs, Written
  <2> HIDE DEF j
  <2>5. /\ phase'[w] = "reading" /\ job'[w] = j
        /\ \A v \in Worker \ {w} : phase'[v] = phase[v] /\ job'[v] = job[v]
        /\ job' \in [Worker -> Jobs]
    BY <2>1, <2>4, WorkStep
  <2>6. TypeOK'
    BY <2>1 DEF TypeOK, Work
  <2>7. LocksInv'
    BY <2>1, <2>4, <2>5 DEF LocksInv, Moving, Crossing
  <2>8. DefaultInv' /\ ItemsInv' /\ TypesInv'
    BY <2>1 DEF DefaultInv, ItemsInv, TypesInv, Written, CategoryOf
  <2>9. \A e : Written(e) => Written(e)'
    BY <2>1 DEF Written
  <2>10. RequestsInv'
    <3>1. ASSUME NEW v \in Worker \ {w} PROVE RequestInv(v)'
      BY <2>1, <2>5, <2>9, OtherRequests
    <3>2. RequestInv(w)'
      BY <2>1, <2>3, <2>4, <2>5 DEF RequestsInv, RequestInv, Moving, Crossing, Written
    <3> QED BY <3>1, <3>2 DEF RequestsInv
  <2> QED BY <2>6, <2>7, <2>8, <2>10
<1> QED BY <1>1, <1>2

\* What a move is about to write.
LEMMA ReadOrder ==
  ASSUME IInv, NEW w \in Worker, ReadColumn(w), ~Rollback(w)
  PROVE  LET i == job[w].item
             S == (Column(job[w].to) \cap mine) \ {i}
             r == Inserted(Rendered(S, PersonalKey), i, job[w].before)
         IN  /\ phase[w] = "reading" /\ i \in items \cap mine
             /\ Work(w, "writing", [job[w] EXCEPT !.order = r])
             /\ UNCHANGED <<board, mine, personal, status, types_, userRow, projectRow, requests>>
             /\ Enumerates(r, S \cup {i}) /\ r \in Seq(Item) /\ Len(r) <= Cardinality(Item)
             /\ \A j, k \in S : PlaceIn(r, j) < PlaceIn(r, k) <=> Before(PersonalKey, j, k)
<1> DEFINE i == job[w].item
           S == (Column(job[w].to) \cap mine) \ {i}
<1>1. /\ phase[w] = "reading" /\ i \in items \cap mine
      /\ job[w].before \in ToSet(Rendered(S, PersonalKey)) \/ job[w].before = Absent
      /\ Work(w, "writing", [job[w] EXCEPT
                !.order = Inserted(Rendered(S, PersonalKey), i, job[w].before)])
      /\ UNCHANGED <<board, mine, personal, status, types_, userRow, projectRow, requests>>
  BY DEF ReadColumn
<1>2. S \in SUBSET Item /\ i \in Item \ S
  BY <1>1 DEF Column, IInv, TypeOK
<1>3. TypeOK /\ \A j \in Item : PersonalKey[j] \in Nat
  BY KeysAreNumbers DEF IInv
<1> DEFINE r == Inserted(Rendered(S, PersonalKey), i, job[w].before)
<1> HIDE DEF S, i
<1>4. /\ Enumerates(r, S \cup {i}) /\ r \in Seq(Item) /\ Len(r) <= Cardinality(Item)
      /\ \A j, k \in S : PlaceIn(r, j) < PlaceIn(r, k) <=> Before(PersonalKey, j, k)
  <2>1. job[w].before \in ToSet(Rendered(S, PersonalKey)) \/ job[w].before = Absent
    BY <1>1
  <2> QED BY <1>2, <1>3, <2>1, InsertedRank
<1> QED BY <1>1, <1>4 DEF S, i

LEMMA ReadColumnInv ==
  ASSUME IInv, NEW w \in Worker, ReadColumn(w)
  PROVE  IInv'
<1> DEFINE i == job[w].item
           S == (Column(job[w].to) \cap mine) \ {i}
           r == Inserted(Rendered(S, PersonalKey), i, job[w].before)
           j == [job[w] EXCEPT !.order = r]
<1>1. CASE Rollback(w)
  BY <1>1, RollbackInv
<1>2. CASE ~Rollback(w)
  <2> USE DEF IInv
  <2>1. /\ phase[w] = "reading" /\ i \in items \cap mine
        /\ Work(w, "writing", j)
        /\ UNCHANGED <<board, mine, personal, status, types_, userRow, projectRow, requests>>
        /\ Enumerates(r, S \cup {i}) /\ r \in Seq(Item) /\ Len(r) <= Cardinality(Item)
    BY <1>2, ReadOrder
  <2>2. Enumerates(r, ToSet(r)) /\ i \in ToSet(r)
    BY <2>1, Places
  <2> HIDE DEF r
  <2>3. job[w] \in Jobs
    BY DEF LocksInv
  <2>4. /\ j \in Jobs /\ j.order = r /\ j.kind = job[w].kind /\ j.item = i
        /\ j.to = job[w].to /\ j.before = job[w].before /\ j.def = job[w].def
    BY <2>1, <2>3 DEF Jobs
  <2> HIDE DEF j
  <2>5. /\ phase'[w] = "writing" /\ job'[w] = j
        /\ \A v \in Worker \ {w} : phase'[v] = phase[v] /\ job'[v] = job[v]
        /\ job' \in [Worker -> Jobs]
    BY <2>1, <2>4, WorkStep
  <2>6. TypeOK'
    BY <2>1 DEF TypeOK, Work, board, types_
  <2>7. LocksInv'
    BY <2>1, <2>4, <2>5 DEF LocksInv, Moving, Crossing
  <2>8. DefaultInv' /\ ItemsInv' /\ TypesInv'
    BY <2>1 DEF DefaultInv, ItemsInv, TypesInv, Written, CategoryOf, board, types_
  <2>9. \A e : Written(e) => Written(e)'
    BY <2>1 DEF Written
  <2>10. RequestsInv'
    <3>1. ASSUME NEW v \in Worker \ {w} PROVE RequestInv(v)'
      BY <2>1, <2>5, <2>9, OtherRequests DEF board
    <3>2. RequestInv(w)'
      BY <2>1, <2>2, <2>4, <2>5 DEF RequestsInv, RequestInv, Moving, Crossing, Written
    <3> QED BY <3>1, <3>2 DEF RequestsInv
  <2> QED BY <2>6, <2>7, <2>8, <2>10
<1> QED BY <1>1, <1>2

-----------------------------------------------------------------------------
(* Commits *)

\* A request commits a status for one Work Item, or leaves the statuses.
StatusCommit(i, d) ==
  /\ statusOf' = [statusOf EXCEPT ![i] = d] /\ completed' = CompletedAfter(i, d)
  /\ items' = items \cup {i}
NoStatusCommit == UNCHANGED <<items, statusOf, completed>>

LEMMA CommitInv ==
  ASSUME IInv, NEW w \in Worker, Return(w), UNCHANGED <<status, types_>>,
         NEW i \in Item, NEW d, Written(d),
         StatusCommit(i, d) \/ NoStatusCommit,
         mine' \subseteq items',
         boardPosition' \in [Item -> 0..Cardinality(Item)],
         personal' \in [Item -> [category : Category \cup {"none"}, position : 0..Cardinality(Item)]]
  PROVE  IInv'
<1> USE DEF IInv, types_
<1>1. LocksInv' /\ phase' \in [Worker -> {"idle", "begun", "user", "reading", "writing", "project"}]
      /\ {userRow', projectRow'} \subseteq Worker \cup {NoOne} /\ requests' = requests
  BY ReturnStep
<1>2. items \subseteq items' /\ items' \subseteq Item
  BY DEF StatusCommit, NoStatusCommit, TypeOK
<1>3. \A e : Written(e) => Written(e)'
  BY DEF Written
<1>4. RequestsInv'
  BY <1>2, <1>3, ReturnRequests
<1>5. statusOf' \in [Item -> Status] /\ completed' \subseteq items' /\ ItemsInv'
  <2>1. CASE NoStatusCommit
    BY <2>1, <1>3 DEF NoStatusCommit, TypeOK, ItemsInv, CategoryOf
  <2>2. CASE StatusCommit(i, d)
    <3>1. /\ statusOf' \in [Item -> Status] /\ d \in Status
          /\ statusOf'[i] = d /\ \A j \in Item \ {i} : statusOf'[j] = statusOf[j]
      BY <2>2 DEF StatusCommit, TypeOK, Written
    <3>2. \A j \in items' : Written(statusOf[j])' /\ (j \in completed' <=> CategoryOf(j)' = "done")
      BY <2>2, <1>2, <1>3, <3>1 DEF StatusCommit, ItemsInv, CategoryOf, CompletedAfter, TypeOK
    <3>3. completed' \subseteq items'
      BY <2>2 DEF StatusCommit, CompletedAfter, TypeOK
    <3> QED BY <3>1, <3>2, <3>3 DEF ItemsInv
  <2> QED BY <2>1, <2>2
<1>6. TypeOK'
  BY <1>1, <1>2, <1>5 DEF TypeOK
<1>7. DefaultInv' /\ TypesInv'
  BY DEF DefaultInv, TypesInv
<1> QED BY <1>1, <1>4, <1>5, <1>6, <1>7

\* The numbers of a column fit a position.
LEMMA NumberedPositions ==
  ASSUME TypeOK, NEW T \in SUBSET Item, NEW r, Enumerates(r, T), Len(r) <= Cardinality(Item)
  PROVE  Numbered(r) \in [Item -> 0..Cardinality(Item)]
<1>1. \A j \in ToSet(r) : PlaceIn(r, j) \in 0..Cardinality(Item)
  BY Places, KeysAreNumbers
<1> QED BY <1>1 DEF Numbered, TypeOK

\* The columns that the two writers of the Project board number.
LEMMA BoardColumn ==
  ASSUME TypeOK, NEW c, NEW i \in Item, NEW anchor,
         anchor \in ToSet(Rendered(Column(c) \ {i}, BoardKey)) \/ anchor = Absent
  PROVE  LET r == Inserted(Rendered(Column(c) \ {i}, BoardKey), i, anchor)
         IN  /\ Enumerates(r, Column(c) \cup {i})
             /\ Numbered(r) \in [Item -> 0..Cardinality(Item)]
             /\ \A j, k \in Column(c) \ {i} :
                  PlaceIn(r, j) < PlaceIn(r, k) <=> Before(BoardKey, j, k)
<1> DEFINE S == Column(c) \ {i}
<1>1. S \in SUBSET Item /\ i \in Item \ S /\ S \cup {i} = Column(c) \cup {i}
  BY DEF TypeOK, Column
<1> HIDE DEF S
<1>2. S \cup {i} \in SUBSET Item
  BY <1>1
<1>3. /\ Enumerates(Inserted(Rendered(S, BoardKey), i, anchor), S \cup {i})
      /\ Len(Inserted(Rendered(S, BoardKey), i, anchor)) <= Cardinality(Item)
      /\ \A j, k \in S : PlaceIn(Inserted(Rendered(S, BoardKey), i, anchor), j)
                            < PlaceIn(Inserted(Rendered(S, BoardKey), i, anchor), k)
                         <=> Before(BoardKey, j, k)
  <2>1. \A j \in Item : BoardKey[j] \in Nat
    BY KeysAreNumbers
  <2>2. anchor \in ToSet(Rendered(S, BoardKey)) \/ anchor = Absent
    BY DEF S
  <2> QED BY <1>1, <2>1, <2>2, InsertedRank
<1>4. Numbered(Inserted(Rendered(S, BoardKey), i, anchor)) \in [Item -> 0..Cardinality(Item)]
  BY <1>2, <1>3, NumberedPositions
<1> QED BY <1>1, <1>3, <1>4 DEF S

LEMMA RepositionInv ==
  ASSUME IInv, NEW w \in Worker, Reposition(w)
  PROVE  IInv'
<1> DEFINE i == job[w].item
           d == job[w].def
           c == status[d].category
           column == Rendered(Column(c) \ {i}, BoardKey)
<1>1. i \in Item /\ i \in items /\ Written(d)
  BY DEF IInv, RequestsInv, RequestInv, Reposition, MayCommit, ItemKinds
<1>2. PICK anchor \in ToSet(column) \cup {Absent} :
        boardPosition' = Numbered(Inserted(column, i, anchor))
  BY DEF Reposition
<1>3. boardPosition' \in [Item -> 0..Cardinality(Item)]
  BY <1>1, <1>2, BoardColumn DEF IInv
<1>4. StatusCommit(i, d) \/ NoStatusCommit
  BY <1>1 DEF Reposition, StatusCommit, NoStatusCommit
<1> QED BY <1>1, <1>3, <1>4, CommitInv DEF Reposition, IInv, TypeOK

LEMMA EditStatusInv ==
  ASSUME IInv, NEW w \in Worker, EditStatus(w)
  PROVE  IInv'
<1> DEFINE i == job[w].item
           d == job[w].def
           column == Rendered(Column(status[d].category) \ {i}, BoardKey)
<1>1. i \in Item /\ i \in items /\ Written(d)
  BY DEF IInv, RequestsInv, RequestInv, EditStatus, MayCommit, ItemKinds
<1>2. boardPosition' = boardPosition \/ boardPosition' = Numbered(Inserted(column, i, Absent))
  BY DEF EditStatus, Inserted
<1>3. boardPosition' \in [Item -> 0..Cardinality(Item)]
  <2>1. Numbered(Inserted(column, i, Absent)) \in [Item -> 0..Cardinality(Item)]
    BY <1>1, BoardColumn DEF IInv
  <2> QED BY <1>2, <2>1 DEF IInv, TypeOK
<1>4. StatusCommit(i, d)
  BY <1>1 DEF EditStatus, StatusCommit
<1> QED BY <1>1, <1>3, <1>4, CommitInv DEF EditStatus, IInv, TypeOK

LEMMA PlainWritesInv ==
  ASSUME IInv, NEW w \in Worker, Transition(w) \/ Assign(w) \/ CreateItem(w)
  PROVE  IInv'
<1> DEFINE i == job[w].item
           d == job[w].def
<1>1. i \in Item /\ Written(d)
  BY DEF IInv, RequestsInv, RequestInv, Transition, Assign, CreateItem, MayCommit, ItemKinds
<1>2. CASE Transition(w)
  <2>1. StatusCommit(i, d)
    BY <1>2 DEF Transition, StatusCommit, IInv, RequestsInv, RequestInv, MayCommit, ItemKinds
  <2> QED BY <1>1, <1>2, <2>1, CommitInv DEF Transition, IInv, TypeOK
<1>3. CASE Assign(w)
  <2>1. NoStatusCommit /\ i \in items
    BY <1>3 DEF Assign, NoStatusCommit, board, IInv, RequestsInv, RequestInv, MayCommit, ItemKinds
  <2> QED BY <1>1, <1>3, <2>1, CommitInv DEF Assign, NoStatusCommit, board, IInv, TypeOK
<1>4. CASE CreateItem(w)
  <2>1. StatusCommit(i, d)
    BY <1>4 DEF CreateItem, StatusCommit
  <2> QED BY <1>1, <1>4, <2>1, CommitInv DEF CreateItem, StatusCommit, IInv, TypeOK
<1> QED BY <1>2, <1>3, <1>4

LEMMA WriteColumnInv ==
  ASSUME IInv, NEW w \in Worker, WriteColumn(w)
  PROVE  IInv'
<1> DEFINE i == job[w].item
           r == job[w].order
<1>1. /\ i \in Item /\ i \in items /\ job[w].to \in Category
      /\ Enumerates(r, ToSet(r)) /\ Len(r) <= Cardinality(Item)
      /\ ToSet(r) \subseteq items
      /\ job[w].kind = "cross" => Written(job[w].def)
      /\ job[w].kind \in MoveKinds
  BY DEF IInv, LocksInv, RequestsInv, RequestInv, WriteColumn, Moving, Crossing
<1>2. PICK d : Written(d) /\ (job[w].kind = "cross" => d = job[w].def)
  BY <1>1 DEF IInv, ItemsInv
<1>3. personal' \in [Item -> [category : Category \cup {"none"}, position : 0..Cardinality(Item)]]
  <2>1. \A j \in ToSet(r) : PlaceIn(r, j) \in 0..Cardinality(Item)
    BY <1>1, Places, KeysAreNumbers DEF IInv
  <2> HIDE DEF r
  <2>2. personal' = [j \in Item |->
             IF j \in ToSet(r) THEN [category |-> job[w].to, position |-> PlaceIn(r, j)]
                               ELSE personal[j]]
    BY DEF WriteColumn, r
  <2> QED BY <1>1, <2>1, <2>2 DEF IInv, TypeOK
<1>4. StatusCommit(i, d) \/ NoStatusCommit
  BY <1>1, <1>2 DEF WriteColumn, StatusCommit, NoStatusCommit, MoveKinds
<1> QED BY <1>1, <1>2, <1>3, <1>4, CommitInv DEF WriteColumn, IInv, TypeOK

LEMMA RowMissingInv ==
  ASSUME IInv, NEW w \in Worker, RowMissing(w) \/ Refuse(w)
  PROVE  IInv'
BY RollbackInv DEF RowMissing, Refuse

\* A setting may touch what Work Items and requests refer to only so far as
\* their category stays.
LEMMA SettingsCommit ==
  ASSUME IInv, NEW w \in Worker, projectRow = w, Return(w),
         UNCHANGED <<board, mine, personal, types_>>,
         status' \in [Status -> [category : Category \cup {"none"}, active : BOOLEAN, default : BOOLEAN]],
         DefaultInv', \A d : Written(d) => Written(d)',
         \A i \in items : status'[statusOf[i]].category = status[statusOf[i]].category
  PROVE  IInv' /\ \A i \in items : CategoryOf(i)' = CategoryOf(i)
<1> USE DEF IInv, types_, board
<1>1. LocksInv' /\ phase' \in [Worker -> {"idle", "begun", "user", "reading", "writing", "project"}]
      /\ {userRow', projectRow'} \subseteq Worker \cup {NoOne} /\ requests' = requests
  BY ReturnStep
<1>2. RequestsInv'
  BY ReturnRequests
<1>3. ItemsInv'
  BY DEF ItemsInv, CategoryOf
<1>4. TypeOK'
  BY <1>1 DEF TypeOK
<1>5. TypesInv'
  BY DEF TypesInv
<1> QED BY <1>1, <1>2, <1>3, <1>4, <1>5 DEF CategoryOf

LEMMA CreateStatusDefinitionInv ==
  ASSUME IInv, NEW w \in Worker, CreateStatusDefinition(w)
  PROVE  IInv' /\ \A i \in items : CategoryOf(i)' = CategoryOf(i)
<1> DEFINE d == job[w].def
<1>1. d \in Status /\ projectRow = w
  BY DEF IInv, LocksInv, RequestsInv, RequestInv, CreateStatusDefinition, MayCommit
<1>2. PICK c \in Category, def \in BOOLEAN :
        /\ def => c = "todo"
        /\ status' = [e \in Status |->
              IF e = d THEN [category |-> c, active |-> TRUE, default |-> def]
              ELSE [status[e] EXCEPT !.default = @ /\ ~(def /\ status[e].active)]]
  BY DEF CreateStatusDefinition
<1> HIDE DEF d
<1>3. /\ status[d] = Unwritten /\ status'[d] = [category |-> c, active |-> TRUE, default |-> def]
      /\ c \in Category /\ c # "none" /\ def \in BOOLEAN /\ (def => c = "todo")
      /\ status[d].category = "none" /\ status[d].default = FALSE
      /\ status'[d].category = c /\ status'[d].active = TRUE /\ status'[d].default = def
  <2>1. status[d] = Unwritten
    BY DEF CreateStatusDefinition, d
  <2>2. status'[d] = [category |-> c, active |-> TRUE, default |-> def]
    BY <1>1, <1>2
  <2> QED BY <1>2, <2>1, <2>2 DEF Unwritten
<1>4. ASSUME NEW e \in Status \ {d}
      PROVE  /\ status'[e].category = status[e].category /\ status'[e].active = status[e].active
             /\ status'[e].default \in BOOLEAN
             /\ status'[e].default <=> status[e].default /\ ~(def /\ status[e].active)
             /\ status'[e] \in [category : Category \cup {"none"}, active : BOOLEAN, default : BOOLEAN]
             /\ ~def => status'[e] = status[e]
             /\ status[e].default = FALSE => status'[e] = status[e]
  <2>1. status[e] \in [category : Category \cup {"none"}, active : BOOLEAN, default : BOOLEAN]
    BY DEF IInv, TypeOK
  <2>2. status'[e] = [status[e] EXCEPT !.default = @ /\ ~(def /\ status[e].active)]
    BY <1>2
  <2>3. status'[e] = [category |-> status[e].category, active |-> status[e].active,
                      default |-> status[e].default /\ ~(def /\ status[e].active)]
    BY <2>1, <2>2
  <2> QED BY <2>1, <2>3
<1>5. status' \in [Status -> [category : Category \cup {"none"}, active : BOOLEAN, default : BOOLEAN]]
  BY <1>2, <1>3, <1>4
<1>6. \A e : Written(e) => Written(e)'
  BY <1>3, <1>4 DEF Written
<1>7. \A i \in items : status'[statusOf[i]].category = status[statusOf[i]].category
  <2> SUFFICES ASSUME NEW i \in items
               PROVE  status'[statusOf[i]].category = status[statusOf[i]].category
    OBVIOUS
  <2>1. statusOf[i] \in Status \ {d}
    BY <1>3 DEF IInv, ItemsInv, Written
  <2> QED BY <1>4, <2>1
<1>8. DefaultInv'
  <2>1. \A e \in Status : status'[e].category = "none" => status'[e] = Unwritten
    <3> SUFFICES ASSUME NEW e \in Status, status'[e].category = "none"
                 PROVE  status'[e] = Unwritten
      OBVIOUS
    <3>1. e \in Status \ {d}
      BY <1>3
    <3>0. status[e].category = "none"
      BY <1>4, <3>1
    <3>2. status[e] = Unwritten
      BY <3>0, <3>1 DEF IInv, DefaultInv
    <3>3. status[e].default = FALSE
      BY <3>2 DEF Unwritten
    <3> QED BY <1>4, <3>1, <3>2, <3>3
  <2>2. \A e \in Status : status'[e].default => status'[e].active /\ status'[e].category = "todo"
    BY <1>2, <1>3, <1>4 DEF IInv, DefaultInv
  <2>3. \E e \in Status : status'[e].default /\ \A f \in Status : status'[f].default => f = e
    <3>1. CASE def
      <4>1. \A f \in Status \ {d} : ~status'[f].default
        BY <1>4, <3>1 DEF IInv, DefaultInv
      <4> QED BY <1>1, <1>3, <3>1, <4>1
    <3>2. CASE ~def
      <4>1. PICK e \in Status : status[e].default /\ \A f \in Status : status[f].default => f = e
        BY DEF IInv, DefaultInv
      <4>2. e # d
        BY <1>3, <4>1 DEF Unwritten
      <4>3. \A f \in Status : status'[f].default => status[f].default
        BY <1>3, <1>4, <3>2
      <4>4. status'[e].default
        BY <1>4, <3>2, <4>1, <4>2
      <4> QED BY <4>1, <4>3, <4>4
    <3> QED BY <3>1, <3>2
  <2> QED BY <2>1, <2>2, <2>3 DEF DefaultInv
<1> QED BY <1>1, <1>5, <1>6, <1>7, <1>8, SettingsCommit DEF CreateStatusDefinition

LEMMA UpdateStatusDefinitionInv ==
  ASSUME IInv, NEW w \in Worker, UpdateStatusDefinition(w)
  PROVE  IInv' /\ \A i \in items : CategoryOf(i)' = CategoryOf(i)
<1> DEFINE d == job[w].def
<1>1. d \in Status /\ projectRow = w /\ status[d] # Unwritten
  BY DEF IInv, LocksInv, RequestsInv, RequestInv, UpdateStatusDefinition, MayCommit
<1>2. PICK c \in Category \cup {Keep}, makeDefault \in {Keep, "yes", "no"},
           activity \in {Keep, "yes", "no"} :
        /\ CategoryAllowed(d, c)
        /\ DefaultAllowed(d, c, makeDefault, activity)
        /\ ActivityAllowed(d, makeDefault, activity)
        /\ status' = [e \in Status |->
              IF e = d
              THEN [category |-> IF c = Keep THEN status[d].category ELSE c,
                    active |-> activity = "yes" \/ (activity = Keep /\ status[d].active),
                    default |-> makeDefault = "yes" \/ status[d].default]
              ELSE [status[e] EXCEPT !.default =
                       @ /\ ~(makeDefault = "yes" /\ status[e].active)]]
  BY DEF UpdateStatusDefinition
<1> DEFINE cat == IF c = Keep THEN status[d].category ELSE c
           act == activity = "yes" \/ (activity = Keep /\ status[d].active)
           def == makeDefault = "yes" \/ status[d].default
<1> HIDE DEF d
<1>3. /\ status'[d] = [category |-> cat, active |-> act, default |-> def]
      /\ status'[d].category = cat /\ status'[d].active = act /\ status'[d].default = def
  BY <1>1, <1>2
<1>4. ASSUME NEW e \in Status \ {d}
      PROVE  /\ status'[e].category = status[e].category /\ status'[e].active = status[e].active
             /\ status'[e].default <=> status[e].default /\ ~(makeDefault = "yes" /\ status[e].active)
             /\ status'[e] \in [category : Category \cup {"none"}, active : BOOLEAN, default : BOOLEAN]
             /\ makeDefault # "yes" => status'[e] = status[e]
             /\ status[e].default = FALSE => status'[e] = status[e]
  <2>1. status[e] \in [category : Category \cup {"none"}, active : BOOLEAN, default : BOOLEAN]
    BY DEF IInv, TypeOK
  <2>2. status'[e] = [status[e] EXCEPT !.default = @ /\ ~(makeDefault = "yes" /\ status[e].active)]
    BY <1>2
  <2>3. status'[e] = [category |-> status[e].category, active |-> status[e].active,
                      default |-> status[e].default /\ ~(makeDefault = "yes" /\ status[e].active)]
    BY <2>1, <2>2
  <2> QED BY <2>1, <2>3
<1>5. status[d] \in [category : Category \cup {"none"}, active : BOOLEAN, default : BOOLEAN]
      /\ status[d].category \in Category
  BY <1>1 DEF IInv, TypeOK, DefaultInv
<1>6. cat \in Category /\ act \in BOOLEAN /\ def \in BOOLEAN
  BY <1>2, <1>5
<1>6a. cat \in Category /\ cat # "none"
  BY <1>6
<1>7. (status[d].default => status[d].active /\ status[d].category = "todo")
      /\ (def => act /\ cat = "todo")
  <2>1. status[d].default => status[d].active /\ status[d].category = "todo"
    BY <1>1 DEF IInv, DefaultInv
  <2>2. CASE makeDefault = "yes"
    <3>1. /\ (IF c = Keep THEN status[d].category ELSE c) = "todo"
          /\ activity = "yes" \/ (activity = Keep /\ status[d].active)
      BY <1>2, <2>2 DEF DefaultAllowed
    <3> QED BY <2>1, <3>1
  <2>3. CASE makeDefault # "yes" /\ status[d].default
    <3>1. cat = "todo"
      BY <1>2, <2>1, <2>3 DEF CategoryAllowed
    <3>2. act
      BY <1>2, <2>1, <2>3 DEF ActivityAllowed
    <3> QED BY <2>1, <3>1, <3>2
  <2> QED BY <2>1, <2>2, <2>3
<1>8. status' \in [Status -> [category : Category \cup {"none"}, active : BOOLEAN, default : BOOLEAN]]
  <2>1. status'[d] \in [category : Category \cup {"none"}, active : BOOLEAN, default : BOOLEAN]
    BY <1>3, <1>6
  <2>2. status' = [e \in Status |-> status'[e]]
    BY <1>2
  <2>3. \A e \in Status :
          status'[e] \in [category : Category \cup {"none"}, active : BOOLEAN, default : BOOLEAN]
    BY <1>4, <2>1
  <2> HIDE DEF d
  <2> QED BY <2>2, <2>3
<1>9. \A e : Written(e) => Written(e)'
  <2> SUFFICES ASSUME NEW e, Written(e) PROVE Written(e)'
    OBVIOUS
  <2>1. CASE e = d
    BY <1>1, <1>3, <1>6, <2>1 DEF Written
  <2>2. CASE e # d
    <3>1. e \in Status \ {d} /\ status[e].category \in Category
      BY <2>2 DEF Written
    <3> QED BY <1>4, <3>1 DEF Written
  <2> QED BY <2>1, <2>2
<1>10. \A i \in items : status'[statusOf[i]].category = status[statusOf[i]].category
  <2> SUFFICES ASSUME NEW i \in items
               PROVE  status'[statusOf[i]].category = status[statusOf[i]].category
    OBVIOUS
  <2>1. CASE statusOf[i] = d
    <3>1. c = Keep
      BY <1>2, <2>1 DEF CategoryAllowed
    <3> QED BY <1>3, <2>1, <3>1 DEF cat
  <2>2. CASE statusOf[i] # d
    BY <1>4, <2>2 DEF IInv, ItemsInv, Written
  <2> QED BY <2>1, <2>2
<1>11. DefaultInv'
  <2>1. \A e \in Status : status'[e].category = "none" => status'[e] = Unwritten
    <3> SUFFICES ASSUME NEW e \in Status, status'[e].category = "none"
                 PROVE  status'[e] = Unwritten
      OBVIOUS
    <3>1. e \in Status \ {d}
      BY <1>3, <1>6
    <3>0. status[e].category = "none"
      BY <1>4, <3>1
    <3>2. status[e] = Unwritten
      BY <3>0, <3>1 DEF IInv, DefaultInv
    <3>3. status[e].default = FALSE
      BY <3>2 DEF Unwritten
    <3> QED BY <1>4, <3>1, <3>2, <3>3
  <2>2. \A e \in Status : status'[e].default => status'[e].active /\ status'[e].category = "todo"
    <3> SUFFICES ASSUME NEW e \in Status, status'[e].default
                 PROVE  status'[e].active /\ status'[e].category = "todo"
      OBVIOUS
    <3>1. CASE e = d
      BY <1>3, <1>7, <3>1
    <3>2. CASE e # d
      BY <1>4, <3>2 DEF IInv, DefaultInv
    <3> QED BY <3>1, <3>2
  <2>3. \E e \in Status : status'[e].default /\ \A f \in Status : status'[f].default => f = e
    <3>1. CASE makeDefault = "yes"
      <4>1. \A f \in Status \ {d} : ~status'[f].default
        BY <1>4, <3>1 DEF IInv, DefaultInv
      <4> QED BY <1>1, <1>3, <3>1, <4>1 DEF def
    <3>2. CASE makeDefault # "yes"
      <4>1. PICK e \in Status : status[e].default /\ \A f \in Status : status[f].default => f = e
        BY DEF IInv, DefaultInv
      <4>2. \A f \in Status : status'[f].default <=> status[f].default
        <5> SUFFICES ASSUME NEW f \in Status PROVE status'[f].default <=> status[f].default
          OBVIOUS
        <5>1. CASE f = d
          BY <1>3, <3>2, <5>1 DEF def
        <5>2. CASE f # d
          BY <1>4, <3>2, <5>2
        <5> QED BY <5>1, <5>2
      <4> QED BY <4>1, <4>2
    <3> QED BY <3>1, <3>2
  <2> QED BY <2>1, <2>2, <2>3 DEF DefaultInv
<1> QED BY <1>1, <1>8, <1>9, <1>10, <1>11, SettingsCommit DEF UpdateStatusDefinition

-----------------------------------------------------------------------------
LEMMA DeleteItemInv ==
  ASSUME IInv, NEW i \in Item, DeleteItem(i)
  PROVE  IInv'
<1> USE DEF IInv, DeleteItem, types_
<1>1. /\ items' \subseteq Item /\ completed' \subseteq items' /\ mine' \subseteq items'
      /\ statusOf' \in [Item -> Status] /\ boardPosition' \in [Item -> 0..Cardinality(Item)]
      /\ personal' \in [Item -> [category : Category \cup {"none"}, position : 0..Cardinality(Item)]]
      /\ requests' \in 0..MaxRequests
  <2>1. Cardinality(Item) \in Nat
    BY KeysAreNumbers
  <2>2. NoRow \in [category : Category \cup {"none"}, position : 0..Cardinality(Item)]
    BY <2>1 DEF NoRow
  <2>3. statusOf' \in [Item -> Status] /\ boardPosition' \in [Item -> 0..Cardinality(Item)]
    BY <2>1 DEF TypeOK
  <2>4. personal' \in [Item -> [category : Category \cup {"none"}, position : 0..Cardinality(Item)]]
    BY <2>2 DEF TypeOK
  <2>5. items' \subseteq Item /\ completed' \subseteq items' /\ mine' \subseteq items'
    BY DEF TypeOK
  <2>6. requests' \in 0..MaxRequests
    BY DEF TypeOK
  <2> QED BY <2>3, <2>4, <2>5, <2>6
<1>2. TypeOK'
  BY <1>1 DEF TypeOK
<1>3. LocksInv' /\ DefaultInv' /\ TypesInv'
  BY DEF LocksInv, DefaultInv, TypesInv, Moving, Crossing
<1>4. ItemsInv'
  <2>1. \A j \in items' : statusOf'[j] = statusOf[j]
    BY DEF TypeOK
  <2> QED BY <2>1 DEF ItemsInv, Written, CategoryOf
<1>5. RequestsInv'
  <2> SUFFICES ASSUME NEW w \in Worker PROVE RequestInv(w)'
    BY DEF RequestsInv
  <2>1. phase[w] = "project" => job[w].item # i
    BY DEF LocksInv
  <2> QED BY <2>1 DEF RequestsInv, RequestInv, Moving, Crossing, Written
<1> QED BY <1>2, <1>3, <1>4, <1>5

LEMMA InitInv == Init => IInv
<1> SUFFICES ASSUME Init PROVE IInv
  OBVIOUS
<1> USE DEF Init
<1>0. Cardinality(Item) \in Nat /\ 0 \in 0..Cardinality(Item)
  BY FS_CardinalityType
<1>1. \A d \in DOMAIN Definitions : status[d] = Definitions[d] /\ d \in Status
  OBVIOUS
<1>2. \A d \in Status \ DOMAIN Definitions : status[d] = Unwritten
  OBVIOUS
<1>3. Unwritten \in [category : Category \cup {"none"}, active : BOOLEAN, default : BOOLEAN]
      /\ Unwritten.category = "none" /\ Unwritten.default = FALSE
  BY DEF Unwritten
<1>4. \A d \in DOMAIN Definitions :
        Definitions[d] \in [category : Category, active : BOOLEAN, default : BOOLEAN]
  OBVIOUS
<1>5. status \in [Status -> [category : Category \cup {"none"}, active : BOOLEAN, default : BOOLEAN]]
  <2>1. \A d \in Status :
          status[d] \in [category : Category \cup {"none"}, active : BOOLEAN, default : BOOLEAN]
    <3> SUFFICES ASSUME NEW d \in Status
                 PROVE  status[d] \in [category : Category \cup {"none"}, active : BOOLEAN, default : BOOLEAN]
      OBVIOUS
    <3>1. CASE d \in DOMAIN Definitions
      BY <1>1, <1>4, <3>1
    <3>2. CASE d \notin DOMAIN Definitions
      BY <1>2, <1>3, <3>2
    <3> QED BY <3>1, <3>2
  <2>2. status = [d \in Status |-> status[d]]
    OBVIOUS
  <2> QED BY <2>1, <2>2
<1>6. statusOf \in [Item -> Status] /\ \A i \in Item : statusOf[i] \in {1, 2}
  OBVIOUS
<1>7. TypeOK
  <2>1. NoRow \in [category : Category \cup {"none"}, position : 0..Cardinality(Item)]
    BY <1>0 DEF NoRow
  <2>2. /\ boardPosition \in [Item -> 0..Cardinality(Item)]
        /\ personal \in [Item -> [category : Category \cup {"none"}, position : 0..Cardinality(Item)]]
    BY <1>0, <2>1
  <2>3. phase \in [Worker -> {"idle", "begun", "user", "reading", "writing", "project"}]
    OBVIOUS
  <2>4. items \subseteq Item /\ completed \subseteq items /\ mine \subseteq items
    OBVIOUS
  <2>5. requests \in 0..MaxRequests
    OBVIOUS
  <2>6. {userRow, projectRow} \subseteq Worker \cup {NoOne}
    OBVIOUS
  <2>7. retiring \subseteq types /\ types \subseteq Type /\ overlapped \in BOOLEAN
    OBVIOUS
  <2> QED BY <1>5, <1>6, <2>2, <2>3, <2>4, <2>5, <2>6, <2>7 DEF TypeOK
<1>8. LocksInv
  <2>1. job \in [Worker -> Jobs]
    BY NoJobIsJob
  <2> QED BY <2>1 DEF LocksInv, Moving, Crossing
<1>9. \A d \in Status : status[d].category = "none" => d \notin DOMAIN Definitions
  BY <1>1, <1>4
<1>10. PICK d \in DOMAIN Definitions :
          /\ Definitions[d] = [category |-> "todo", active |-> TRUE, default |-> TRUE]
          /\ \A e \in DOMAIN Definitions : Definitions[e].default => e = d
  OBVIOUS
<1>11. \A e \in Status : status[e].default => e = d
  <2> SUFFICES ASSUME NEW e \in Status, status[e].default PROVE e = d
    OBVIOUS
  <2>1. e \in DOMAIN Definitions
    BY <1>2, <1>3
  <2> QED BY <1>1, <1>10, <2>1
<1>12. d \in Status /\ status[d].default /\ status[d].active /\ status[d].category = "todo"
  BY <1>1, <1>10
<1>13. DefaultInv
  BY <1>2, <1>9, <1>11, <1>12 DEF DefaultInv
<1>14. ItemsInv
  <2>1. \A i \in items : statusOf[i] \in DOMAIN Definitions
    BY <1>6
  <2> QED BY <1>1, <1>4, <2>1 DEF ItemsInv, Written
<1>15. RequestsInv
  BY DEF RequestsInv, RequestInv, Moving, Crossing
<1>16. TypesInv
  BY DEF TypesInv
<1> QED BY <1>7, <1>8, <1>13, <1>14, <1>15, <1>16 DEF IInv

LEMMA NextInv == IInv /\ [Next]_vars => IInv'
<1> SUFFICES ASSUME IInv, [Next]_vars PROVE IInv'
  OBVIOUS
<1>1. ASSUME NEW w \in Worker, Start(w) PROVE IInv'
  BY <1>1, StartProjectInv, BeginMoveInv DEF Start
<1>2. ASSUME NEW w \in Worker, Step(w) PROVE IInv'
  BY <1>2, RepositionInv, PlainWritesInv, EditStatusInv, CreateStatusDefinitionInv,
     UpdateStatusDefinitionInv, RowMissingInv, LockUserInv, LockMoveProjectInv, ReadColumnInv,
     WriteColumnInv DEF Step
<1>3. ASSUME NEW t \in Type, CountTypes(t) \/ DeactivateType(t) \/ ActivateType(t) PROVE IInv'
  BY <1>3, TypeDefinitionsInv
<1>4. ASSUME NEW i \in Item, DeleteItem(i) PROVE IInv'
  BY <1>4, DeleteItemInv
<1>5. ASSUME NEW v \in Worker, NEW w \in Worker, Victim(v, w) PROVE IInv'
  BY <1>5, RollbackInv DEF Victim
<1>6. CASE UNCHANGED vars
  <2> USE <1>6 DEF vars, board, types_, requests_, IInv
  <2>1. TypeOK' /\ DefaultInv' /\ ItemsInv' /\ TypesInv'
    BY DEF TypeOK, DefaultInv, ItemsInv, TypesInv, Written, CategoryOf
  <2>2. LocksInv' /\ RequestsInv'
    BY DEF LocksInv, RequestsInv, RequestInv, Moving, Crossing, Written
  <2> QED BY <2>1, <2>2
<1> QED BY <1>1, <1>2, <1>3, <1>4, <1>5, <1>6 DEF Next

LEMMA Invariance == Spec => []IInv
BY InitInv, NextInv, PTL DEF Spec

-----------------------------------------------------------------------------
(* StatusesSound: whatever fields the requests combine, the Project has    *)
(* exactly one default status, active and of the category "todo"           *)
(* (create_status_definition and update_status_definition of               *)
(* projects/configuration_services.py), and completed_at is set on exactly *)
(* the Work Items whose status is "done" (work_items/services.py).         *)
THEOREM ConfigurationSound == Spec => []StatusesSound
<1>1. IInv => StatusesSound
  <2> SUFFICES ASSUME IInv PROVE StatusesSound
    OBVIOUS
  <2>1. PICK d \in Status : status[d].default /\ \A e \in Status : status[e].default => e = d
    BY DEF IInv, DefaultInv
  <2>2. {e \in Status : status[e].active /\ status[e].default} = {d}
    BY <2>1 DEF IInv, DefaultInv
  <2>3. Cardinality({e \in Status : status[e].active /\ status[e].default}) = 1
    BY <2>2, FS_Singleton
  <2> QED BY <2>3 DEF StatusesSound, IInv, DefaultInv, ItemsInv
<1> QED BY <1>1, Invariance, PTL

(* LastTypeNeedsRace: update_type_definition counts the active types under *)
(* the row of its own definition only; the Project loses its last active   *)
(* type only when two deactivations have counted before either commits.    *)
THEOREM LastTypeSafe == Spec => []LastTypeNeedsRace
<1>1. IInv => LastTypeNeedsRace
  BY DEF IInv, TypesInv, LastTypeNeedsRace
<1> QED BY <1>1, Invariance, PTL

(* CirclesNeedMove: whenever every request waits, one of them is a My Work *)
(* move that holds the user's row and waits for a Project writer that      *)
(* cites the user (my_work_board_order.py against the writers of           *)
(* work_items/services.py); no other circle exists.                        *)
THEOREM CirclesSafe == Spec => []CirclesNeedMove
<1>1. IInv => CirclesNeedMove
  <2> SUFFICES ASSUME IInv, Busy # {}, \A w \in Busy : Waits(w)
               PROVE  \E v, w \in Worker : Deadlocked(v, w)
    BY DEF CirclesNeedMove
  <2> USE DEF IInv, LocksInv
  <2>1. \A w \in Worker : phase[w] \in {"idle", "begun", "user", "reading", "writing", "project"}
    BY DEF TypeOK
  <2>2. \A w \in Worker : ~(phase[w] = "reading")
    BY DEF Busy, Waits
  <2>3. userRow # NoOne
    <3> SUFFICES ASSUME userRow = NoOne PROVE FALSE
      OBVIOUS
    <3>1. PICK w \in Worker : phase[w] # "idle"
      BY DEF Busy
    <3>2. Waits(w) /\ ~Moving(w)
      BY <3>1 DEF Busy
    <3> QED BY <3>2 DEF Waits, Moving
  <2>4. PICK w \in Worker : userRow = w /\ Moving(w)
    BY <2>3 DEF TypeOK
  <2>5. phase[w] \in {"user", "writing"} /\ Waits(w)
    BY <2>2, <2>4 DEF Moving, Busy
  <2>6. ASSUME NEW v \in Worker, phase[v] = "project"
        PROVE  job[v].cites /\ projectRow = v
    BY <2>6 DEF Busy, Waits
  <2>7. \E v \in Worker : phase[v] = "project"
    <3>1. CASE phase[w] = "user"
      <4>1. PICK v \in Worker : projectRow = v
        BY <2>5, <3>1 DEF TypeOK, Waits
      <4>2. phase[v] = "project" \/ Crossing(v)
        BY <4>1
      <4>3. ~Crossing(v)
        BY <2>4, <3>1 DEF Crossing, Moving
      <4> QED BY <4>2, <4>3
    <3>2. CASE phase[w] = "writing"
      <4>1. ~KeysFree(w)
        BY <2>5, <3>2 DEF Waits
      <4> QED BY <4>1 DEF KeysFree, ItemRows
    <3> QED BY <2>5, <3>1, <3>2
  <2>8. PICK v \in Worker : phase[v] = "project"
    BY <2>7
  <2>9. Deadlocked(v, w)
    BY <2>4, <2>5, <2>6, <2>8 DEF Deadlocked, Blocks, Waits
  <2> QED BY <2>9
<1> QED BY <1>1, Invariance, PTL

-----------------------------------------------------------------------------
(* What a step may change *)

\* A step changes the category of one Work Item at most.
LEMMA OneCategory ==
  ASSUME IInv, [Next]_vars
  PROVE  \E k : \A j \in (items \cap items') \ {k} : CategoryOf(j)' = CategoryOf(j)
<1>1. ASSUME UNCHANGED <<status, statusOf>>
      PROVE  \A j \in items \cap items' : CategoryOf(j)' = CategoryOf(j)
  BY <1>1 DEF CategoryOf
<1>2. ASSUME NEW k, NEW d, statusOf' = [statusOf EXCEPT ![k] = d], UNCHANGED status
      PROVE  \A j \in (items \cap items') \ {k} : CategoryOf(j)' = CategoryOf(j)
  BY <1>2 DEF CategoryOf, IInv, TypeOK
<1>3. ASSUME NEW w \in Worker, Step(w)
      PROVE  \E k : \A j \in (items \cap items') \ {k} : CategoryOf(j)' = CategoryOf(j)
  <2>1. CASE Reposition(w) \/ Transition(w) \/ EditStatus(w) \/ CreateItem(w) \/ WriteColumn(w)
    BY <1>1, <1>2, <2>1 DEF Reposition, Transition, EditStatus, CreateItem, WriteColumn
  <2>2. CASE CreateStatusDefinition(w) \/ UpdateStatusDefinition(w)
    BY <2>2, CreateStatusDefinitionInv, UpdateStatusDefinitionInv
  <2>3. CASE \/ Assign(w) \/ Refuse(w) \/ LockUser(w) \/ LockMoveProject(w) \/ ReadColumn(w)
             \/ RowMissing(w)
    BY <1>1, <2>3 DEF Assign, Refuse, LockUser, LockMoveProject, ReadColumn, RowMissing,
       Rollback, board
  <2> QED BY <1>3, <2>1, <2>2, <2>3 DEF Step
<1>4. ASSUME NEW w \in Worker, Start(w) PROVE UNCHANGED <<status, statusOf>>
  BY <1>4 DEF Start, StartItemWrite, StartCreate, StartSettings, LockProject, BeginMove, board
<1>5. ASSUME NEW t \in Type, CountTypes(t) \/ DeactivateType(t) \/ ActivateType(t)
      PROVE  UNCHANGED <<status, statusOf>>
  BY <1>5 DEF CountTypes, DeactivateType, ActivateType, board
<1>6. ASSUME NEW i \in Item, DeleteItem(i)
      PROVE  \E k : \A j \in (items \cap items') \ {k} : CategoryOf(j)' = CategoryOf(j)
  BY <1>2, <1>6 DEF DeleteItem
<1>7. ASSUME NEW v \in Worker, NEW w \in Worker, Victim(v, w) PROVE UNCHANGED <<status, statusOf>>
  BY <1>7 DEF Victim, Rollback, board
<1>8. CASE UNCHANGED vars
  BY <1>1, <1>8 DEF vars, board
<1> QED BY <1>1, <1>3, <1>4, <1>5, <1>6, <1>7, <1>8 DEF Next

\* Two Work Items that stay together keep their category.
LEMMA StayKeepsCategory ==
  ASSUME IInv, [Next]_vars, NEW i \in Item, NEW j \in Item, i # j, Stay(i, j)
  PROVE  /\ CategoryOf(i)' = CategoryOf(i) /\ CategoryOf(j)' = CategoryOf(j)
         /\ i \in items /\ j \in items /\ i \in items' /\ j \in items'
         /\ CategoryOf(i) = CategoryOf(j)
<1>1. PICK k : \A x \in (items \cap items') \ {k} : CategoryOf(x)' = CategoryOf(x)
  BY OneCategory
<1>2. {i, j} \subseteq items \cap items' /\ CategoryOf(i) = CategoryOf(j)
      /\ CategoryOf(i)' = CategoryOf(j)'
  BY DEF Stay
<1>3. CASE k = i
  BY <1>1, <1>2, <1>3
<1>4. CASE k # i
  <2>1. CategoryOf(i)' = CategoryOf(i)
    BY <1>1, <1>2, <1>4
  <2> QED BY <1>2, <2>1
<1> QED BY <1>3, <1>4

\* A step changes the positions of the Project board only where it says so.
LEMMA BoardWriters ==
  ASSUME [Next]_vars
  PROVE  \/ boardPosition' = boardPosition
         \/ \E w \in Worker : Reposition(w) \/ EditStatus(w)
         \/ \E i \in Item : DeleteItem(i)
<1>1. ASSUME NEW w \in Worker, Start(w) PROVE boardPosition' = boardPosition
  BY <1>1 DEF Start, StartItemWrite, StartCreate, StartSettings, LockProject, BeginMove, board
<1>2. ASSUME NEW w \in Worker, Step(w), ~Reposition(w), ~EditStatus(w)
      PROVE  boardPosition' = boardPosition
  BY <1>2 DEF Step, Transition, Assign, CreateItem, CreateStatusDefinition, UpdateStatusDefinition,
     Refuse, LockUser, LockMoveProject, ReadColumn, WriteColumn, RowMissing, Rollback, board
<1>3. ASSUME NEW t \in Type, CountTypes(t) \/ DeactivateType(t) \/ ActivateType(t)
      PROVE  boardPosition' = boardPosition
  BY <1>3 DEF CountTypes, DeactivateType, ActivateType, board
<1>4. ASSUME NEW v \in Worker, NEW w \in Worker, Victim(v, w) PROVE boardPosition' = boardPosition
  BY <1>4 DEF Victim, Rollback, board
<1>5. CASE UNCHANGED vars
  BY <1>5 DEF vars, board
<1> QED BY <1>1, <1>2, <1>3, <1>4, <1>5 DEF Next

\* Numbering a column reorders none of the others in it or elsewhere.
LEMMA NumberingKeepsOrder ==
  ASSUME IInv, NEW i \in Item, NEW c, NEW anchor,
         anchor \in ToSet(Rendered(Column(c) \ {i}, BoardKey)) \/ anchor = Absent,
         boardPosition' = Numbered(Inserted(Rendered(Column(c) \ {i}, BoardKey), i, anchor)),
         NEW j \in items \ {i}, NEW k \in items \ {i}, CategoryOf(j) = CategoryOf(k),
         Before(BoardKey, j, k)
  PROVE  Before(BoardKey, j, k)'
<1> DEFINE r == Inserted(Rendered(Column(c) \ {i}, BoardKey), i, anchor)
<1>1. j \in Item /\ k \in Item
  BY DEF IInv, TypeOK
<1>2. /\ Enumerates(r, Column(c) \cup {i})
      /\ \A x, y \in Column(c) \ {i} : PlaceIn(r, x) < PlaceIn(r, y) <=> Before(BoardKey, x, y)
  BY BoardColumn DEF IInv
<1> HIDE DEF r
<1>3. boardPosition' = Numbered(r) /\ ToSet(r) = Column(c) \cup {i}
  BY <1>2, Places DEF r
<1>4. CASE CategoryOf(j) = c
  <2>1. j \in Column(c) \ {i} /\ k \in Column(c) \ {i}
    BY <1>4 DEF Column
  <2>2. boardPosition'[j] = PlaceIn(r, j) /\ boardPosition'[k] = PlaceIn(r, k)
    BY <1>1, <1>3, <2>1 DEF Numbered
  <2>3. PlaceIn(r, j) \in 1..Len(r) /\ PlaceIn(r, k) \in 1..Len(r) /\ Len(r) \in Nat
    BY <1>2, <2>1, Places
  <2>4. PlaceIn(r, j) < PlaceIn(r, k)
    BY <1>2, <2>1
  <2>5. BoardKey'[j] = PlaceIn(r, j) /\ BoardKey'[k] = PlaceIn(r, k)
    BY <1>1, <2>2, <2>3 DEF BoardKey
  <2> QED BY <2>4, <2>5 DEF Before
<1>5. CASE CategoryOf(j) # c
  <2>1. boardPosition'[j] = boardPosition[j] /\ boardPosition'[k] = boardPosition[k]
    BY <1>1, <1>3, <1>5 DEF Numbered, Column
  <2>2. BoardKey'[j] = BoardKey[j] /\ BoardKey'[k] = BoardKey[k]
    BY <1>1, <2>1 DEF BoardKey
  <2> QED BY <2>2 DEF Before
<1> QED BY <1>4, <1>5

(* BoardOrderKept: reposition_work_item and the status branch of           *)
(* update_work_item number a whole column (work_items/services.py); that   *)
(* numbering, a My Work move, a transition and a deletion reorder no two   *)
(* Work Items of a column unless one of them is dragged or edited.         *)
THEOREM BoardOrderSafe == Spec => BoardOrderKept
<1>1. ASSUME IInv, [Next]_vars, NEW i \in Item, NEW j \in Item,
             Stay(i, j), Before(BoardKey, i, j), ~Before(BoardKey, i, j)'
      PROVE  \E w \in Worker : Commits(w) /\ job[w].item \in {i, j} /\ job[w].kind \in {"drag", "edit"}
  <2> USE <1>1
  <2>0. i # j
    <3>1. Item \in SUBSET Nat /\ \A x \in Item : BoardKey[x] \in Nat
      BY KeysAreNumbers DEF IInv
    <3>2. ~Before(BoardKey, i, i)
      BY <3>1, BeforeOrder
    <3> QED BY <3>2
  <2>1. i \in items \cap items' /\ j \in items \cap items' /\ CategoryOf(i) = CategoryOf(j)
    BY DEF Stay
  <2>2. ASSUME boardPosition'[i] = boardPosition[i], boardPosition'[j] = boardPosition[j]
        PROVE  FALSE
    <3>1. BoardKey'[i] = BoardKey[i] /\ BoardKey'[j] = BoardKey[j]
      BY <2>2 DEF BoardKey
    <3> QED BY <3>1 DEF Before
  <2>3. ASSUME NEW w \in Worker, Reposition(w) \/ EditStatus(w)
        PROVE  Commits(w) /\ job[w].item \in {i, j} /\ job[w].kind \in {"drag", "edit"}
    <3> DEFINE k == job[w].item
               c == status[job[w].def].category
               column == Rendered(Column(c) \ {k}, BoardKey)
    <3>1. /\ phase[w] = "project" /\ job[w].kind \in {"drag", "edit"} /\ Return(w)
          /\ \/ boardPosition' = boardPosition
             \/ \E anchor : /\ anchor \in ToSet(column) \/ anchor = Absent
                            /\ boardPosition' = Numbered(Inserted(column, k, anchor))
      BY <2>3 DEF Reposition, EditStatus, MayCommit, Inserted
    <3>2. Commits(w)
      BY <3>1, ReturnStep DEF Commits, IInv
    <3>3. k \in Item
      BY <3>1 DEF IInv, RequestsInv, RequestInv
    <3>4. k \in {i, j}
      <4> SUFFICES ASSUME k \notin {i, j} PROVE FALSE
        OBVIOUS
      <4>1. PICK anchor : /\ anchor \in ToSet(column) \/ anchor = Absent
                          /\ boardPosition' = Numbered(Inserted(column, k, anchor))
        BY <2>2, <3>1
      <4> HIDE DEF k, c
      <4>2. i \in items \ {k} /\ j \in items \ {k}
        BY <2>1
      <4> QED BY <2>1, <3>3, <4>1, <4>2, NumberingKeepsOrder
    <3> QED BY <3>1, <3>2, <3>4
  <2>4. ASSUME NEW k \in Item, DeleteItem(k) PROVE FALSE
    <3>1. k # i /\ k # j
      BY <2>1, <2>4 DEF DeleteItem
    <3> QED BY <2>2, <2>4, <3>1 DEF DeleteItem, IInv, TypeOK
  <2> QED BY <2>2, <2>3, <2>4, BoardWriters
<1>2. IInv /\ [Next]_vars =>
        [\A i, j \in Item :
           Stay(i, j) /\ Before(BoardKey, i, j) /\ ~Before(BoardKey, i, j)' =>
             \E w \in Worker : Commits(w) /\ job[w].item \in {i, j} /\ job[w].kind \in {"drag", "edit"}]_vars
  BY <1>1
<1> QED BY <1>2, Invariance, PTL DEF Spec, BoardOrderKept

-----------------------------------------------------------------------------
(* The user's row keeps what a move has read *)

\* While a move is about to write, no other request writes the user's rows,
\* and a deletion takes the rows that the move does not number.
LEMMA PersonalWriters ==
  ASSUME IInv, [Next]_vars
  PROVE  \/ personal' = personal
         \/ \E w \in Worker : WriteColumn(w)
         \/ \E i \in Item : DeleteItem(i)
<1>1. ASSUME NEW w \in Worker, Start(w) PROVE personal' = personal
  BY <1>1 DEF Start, StartItemWrite, StartCreate, StartSettings, LockProject, BeginMove
<1>2. ASSUME NEW w \in Worker, Step(w), ~WriteColumn(w) PROVE personal' = personal
  BY <1>2 DEF Step, Reposition, Transition, EditStatus, Assign, CreateItem, CreateStatusDefinition,
     UpdateStatusDefinition, Refuse, LockUser, LockMoveProject, ReadColumn, RowMissing, Rollback
<1>3. ASSUME NEW t \in Type, CountTypes(t) \/ DeactivateType(t) \/ ActivateType(t)
      PROVE  personal' = personal
  BY <1>3 DEF CountTypes, DeactivateType, ActivateType
<1>4. ASSUME NEW v \in Worker, NEW w \in Worker, Victim(v, w) PROVE personal' = personal
  BY <1>4 DEF Victim, Rollback
<1>5. CASE UNCHANGED vars
  BY <1>5 DEF vars
<1> QED BY <1>1, <1>2, <1>3, <1>4, <1>5 DEF Next

\* What must stay for one move that is about to write.
OrderOf(w) ==
  /\ \A i, j \in ToSet(job[w].order) \ {job[w].item} :
       PlaceIn(job[w].order, i) < PlaceIn(job[w].order, j) <=> Before(RowKey(job[w].to), i, j)
  /\ job[w].kind = "cross" =>
       /\ ToSet(job[w].order) \cap items
            = ((Column(job[w].to) \cap mine) \cup {job[w].item}) \cap items
       /\ job[w].item \in items => job[w].item \in mine

LEMMA OrderByWorker == OrderInv <=> \A w \in Worker : phase[w] = "writing" => OrderOf(w)
BY DEF OrderInv, OrderOf

LEMMA OrderStays ==
  ASSUME NEW w, OrderOf(w), job'[w] = job[w],
         \A i \in ToSet(job[w].order) \ {job[w].item} :
            RowKey(job[w].to)'[i] = RowKey(job[w].to)[i],
         job[w].kind = "cross" => UNCHANGED <<items, mine, statusOf, status>>
  PROVE  OrderOf(w)'
<1> DEFINE r == job[w].order
           S == ToSet(r) \ {job[w].item}
           key == RowKey(job[w].to)
<1>1. /\ job'[w].order = job[w].order /\ job'[w].item = job[w].item
      /\ job'[w].to = job[w].to /\ job'[w].kind = job[w].kind
  OBVIOUS
<1>2. S' = S /\ r' = r
  BY <1>1
<1>3. \A i \in S : key'[i] = key[i]
  OBVIOUS
<1>4. \A i, j \in S : PlaceIn(r, i) < PlaceIn(r, j) <=> Before(key, i, j)
  BY DEF OrderOf
<1>5. (\A i, j \in S : PlaceIn(r, i) < PlaceIn(r, j) <=> Before(key, i, j))'
  <2> HIDE DEF key, r, S
  <2> QED BY <1>2, <1>3, <1>4 DEF Before
<1>6. job[w].kind = "cross" => Column(job[w].to)' = Column(job[w].to)
  BY <1>1 DEF Column, CategoryOf
<1>7. (job[w].kind = "cross" =>
         /\ ToSet(job[w].order) \cap items
              = ((Column(job[w].to) \cap mine) \cup {job[w].item}) \cap items
         /\ job[w].item \in items => job[w].item \in mine)'
  BY <1>1, <1>6 DEF OrderOf
<1> QED BY <1>5, <1>7 DEF OrderOf

\* The move itself leaves the phase; the rest follows from its locks.
LEMMA OthersKeepOrder ==
  ASSUME IInv, IInv', [Next]_vars, NEW w \in Worker, phase[w] = "writing", OrderOf(w),
         phase'[w] = "writing"
  PROVE  OrderOf(w)'
<1> USE DEF IInv, LocksInv, Moving, Crossing
<1>1. userRow = w /\ (job[w].kind = "cross" => projectRow = w)
  OBVIOUS
<1>2. phase[w] # "idle" /\ w # NoOne
  OBVIOUS
<1>3. ASSUME NEW v \in Worker, Work(v, "idle", NoJob) PROVE v # w
  BY <1>3, WorkStep
<1>4. ASSUME NEW v \in Worker, NEW p, NEW j, Work(v, p, j), v # w PROVE job'[w] = job[w]
  BY <1>4, WorkStep
<1>5. ASSUME job'[w] = job[w], personal' = personal,
             job[w].kind = "cross" => UNCHANGED <<items, mine, statusOf, status>>
      PROVE  OrderOf(w)'
  <2>1. RowKey(job[w].to)' = RowKey(job[w].to)
    BY <1>5 DEF RowKey
  <2> QED BY <1>5, <2>1, OrderStays
<1>6. ASSUME NEW v \in Worker, Start(v) PROVE OrderOf(w)'
  <2>1. \E p, j : Work(v, p, j) /\ phase[v] = "idle"
    BY <1>6 DEF Start, StartItemWrite, StartCreate, StartSettings, LockProject, BeginMove, Begin
  <2>2. v # w /\ job'[w] = job[w]
    BY <1>4, <2>1
  <2>3. UNCHANGED <<board, mine, personal, status>>
    BY <1>6 DEF Start, StartItemWrite, StartCreate, StartSettings, LockProject, BeginMove
  <2> QED BY <1>5, <2>2, <2>3 DEF board
<1>7. ASSUME NEW v \in Worker, Return(v), UNCHANGED <<board, mine, personal, status>>
      PROVE  OrderOf(w)'
  <2>1. job'[w] = job[w]
    BY <1>3, <1>4, <1>7 DEF Return
  <2> QED BY <1>5, <1>7, <2>1 DEF board
<1>8. ASSUME NEW v \in Worker, phase[v] = "project", Return(v), personal' = personal
      PROVE  OrderOf(w)'
  <2>1. v # w /\ projectRow = v
    BY <1>8
  <2>2. job'[w] = job[w]
    BY <1>4, <1>8, <2>1 DEF Return
  <2> QED BY <1>1, <1>5, <1>8, <2>1, <2>2
<1>9. ASSUME NEW v \in Worker, Step(v) PROVE OrderOf(w)'
  <2>1. CASE \/ Reposition(v) \/ Transition(v) \/ EditStatus(v) \/ Assign(v) \/ CreateItem(v)
             \/ CreateStatusDefinition(v) \/ UpdateStatusDefinition(v)
    <3>1. phase[v] = "project" /\ Return(v) /\ personal' = personal
      BY <2>1 DEF Reposition, Transition, EditStatus, Assign, CreateItem, CreateStatusDefinition,
         UpdateStatusDefinition, MayCommit
    <3> QED BY <1>8, <3>1
  <2>2. CASE Rollback(v)
    BY <1>7, <2>2 DEF Rollback
  <2>3. CASE LockUser(v)
    BY <1>1, <1>2, <2>3 DEF LockUser
  <2>4. CASE LockMoveProject(v) /\ ~Rollback(v)
    BY <1>1, <2>4 DEF LockMoveProject
  <2>5. CASE ReadColumn(v) /\ ~Rollback(v)
    BY <1>1, <2>5 DEF ReadColumn
  <2>6. CASE WriteColumn(v)
    <3>1. v # w
      BY <1>3, <2>6 DEF WriteColumn, Return
    <3> QED BY <1>1, <2>6, <3>1 DEF WriteColumn
  <2> QED BY <1>9, <2>1, <2>2, <2>3, <2>4, <2>5, <2>6 DEF Step, Refuse, RowMissing
<1>10. ASSUME NEW t \in Type, CountTypes(t) \/ DeactivateType(t) \/ ActivateType(t)
       PROVE  OrderOf(w)'
  BY <1>5, <1>10 DEF CountTypes, DeactivateType, ActivateType, board, requests_
<1>11. ASSUME NEW k \in Item, DeleteItem(k) PROVE OrderOf(w)'
  <2> DEFINE r == job[w].order
             key == RowKey(job[w].to)
             S == ToSet(r) \ {job[w].item}
  <2>1. job' = job /\ personal' = [personal EXCEPT ![k] = NoRow]
        /\ items' = items \ {k} /\ mine' = mine \ {k}
        /\ statusOf' = [statusOf EXCEPT ![k] = 1] /\ status' = status
        /\ (personal[k].category = job[w].to => k \notin S)
    BY <1>11 DEF DeleteItem
  <2>2. job[w].to # "none"
    BY DEF RequestsInv, RequestInv
  <2>3. /\ \A i \in Item : k = i \/ personal'[i] = personal[i]
        /\ personal'[k].category = "none"
    BY <1>11, <2>1 DEF TypeOK, NoRow
  <2>4. S \subseteq Item
    <3>1. r \in Seq(Item)
      BY DEF Jobs
    <3> QED BY <3>1, ElementOfSeq, LenProperties DEF ToSet
  <2>5. ASSUME NEW i \in S PROVE key'[i] = key[i]
    <3>1. /\ key[i] = IF personal[i].category = job[w].to THEN personal[i].position ELSE Unplaced
          /\ key'[i] = IF personal'[i].category = job[w].to THEN personal'[i].position ELSE Unplaced
      BY <2>1, <2>4 DEF RowKey, Unplaced
    <3>2. CASE i = k
      BY <2>1, <2>2, <2>3, <3>1, <3>2
    <3>3. CASE i # k
      BY <2>3, <2>4, <3>1, <3>3
    <3> QED BY <3>2, <3>3
  <2>6. (\A i, j \in S : PlaceIn(r, i) < PlaceIn(r, j) <=> Before(key, i, j))'
    <3>1. \A i, j \in S : PlaceIn(r, i) < PlaceIn(r, j) <=> Before(key, i, j)
      BY DEF OrderOf
    <3>2. S' = S /\ r' = r
      BY <2>1
    <3> HIDE DEF key, r, S
    <3> QED BY <2>5, <3>1, <3>2 DEF Before
  <2>7. (job[w].kind = "cross" =>
           /\ ToSet(r) \cap items = ((Column(job[w].to) \cap mine) \cup {job[w].item}) \cap items
           /\ job[w].item \in items => job[w].item \in mine)'
    <3>1. Column(job[w].to)' = Column(job[w].to) \ {k}
      BY <2>1 DEF Column, CategoryOf, TypeOK
    <3> QED BY <2>1, <3>1 DEF OrderOf
  <2> QED BY <2>6, <2>7 DEF OrderOf
<1>12. ASSUME NEW u \in Worker, NEW v \in Worker, Victim(u, v) PROVE OrderOf(w)'
  BY <1>7, <1>12 DEF Victim, Rollback
<1>13. CASE UNCHANGED vars
  BY <1>5, <1>13 DEF vars, board, requests_
<1> QED BY <1>6, <1>9, <1>10, <1>11, <1>12, <1>13 DEF Next

LEMMA ReadKeepsOrder ==
  ASSUME IInv, NEW w \in Worker, ReadColumn(w), ~Rollback(w)
  PROVE  OrderOf(w)'
<1> DEFINE i == job[w].item
           S == (Column(job[w].to) \cap mine) \ {i}
           r == Inserted(Rendered(S, PersonalKey), i, job[w].before)
<1>1. /\ i \in items \cap mine
      /\ Work(w, "writing", [job[w] EXCEPT !.order = r])
      /\ UNCHANGED <<board, mine, personal, status>>
      /\ Enumerates(r, S \cup {i}) /\ r \in Seq(Item)
      /\ \A j, k \in S : PlaceIn(r, j) < PlaceIn(r, k) <=> Before(PersonalKey, j, k)
  BY ReadOrder
<1> HIDE DEF r
<1>2. job[w] \in Jobs
  BY DEF IInv, LocksInv
<1>3. /\ job'[w].order = r /\ job'[w].item = i /\ job'[w].to = job[w].to
  <2>1. job'[w] = [job[w] EXCEPT !.order = r]
    BY <1>1, WorkStep DEF IInv
  <2> QED BY <1>1, <1>2, <2>1 DEF Jobs
<1>4. ToSet(r) = S \cup {i} /\ i \notin S
  BY <1>1, Places
<1>5. S \subseteq items /\ items \subseteq Item
  BY DEF Column, IInv, TypeOK
<1>6. \A j \in S : PersonalKey[j] = RowKey(job[w].to)'[j]
  <2>1. \A j \in S : CategoryOf(j) = job[w].to
    BY DEF Column
  <2> QED BY <1>1, <1>3, <1>5, <2>1 DEF PersonalKey, RowKey, Unplaced
<1>7. (\A j, k \in ToSet(job[w].order) \ {job[w].item} :
         PlaceIn(job[w].order, j) < PlaceIn(job[w].order, k) <=> Before(RowKey(job[w].to), j, k))'
  <2> DEFINE key == RowKey(job[w].to)
  <2>1. \A j, k \in S : PlaceIn(r, j) < PlaceIn(r, k) <=> Before(key', j, k)
    <3> HIDE DEF key, S
    <3> QED BY <1>1, <1>6 DEF Before, key
  <2> HIDE DEF key, S
  <2> QED BY <1>3, <1>4, <2>1 DEF key
<1>8. (/\ ToSet(job[w].order) \cap items
            = ((Column(job[w].to) \cap mine) \cup {job[w].item}) \cap items
       /\ job[w].item \in items => job[w].item \in mine)'
  <2>1. Column(job[w].to)' = Column(job[w].to) /\ items' = items /\ mine' = mine
    BY <1>1, <1>3 DEF Column, CategoryOf, board
  <2> QED BY <1>1, <1>3, <1>4, <2>1
<1> QED BY <1>7, <1>8 DEF OrderOf

LEMMA WritingIsRead ==
  ASSUME IInv, [Next]_vars, NEW w \in Worker, phase[w] # "writing", phase'[w] = "writing"
  PROVE  ReadColumn(w) /\ ~Rollback(w)
<1> USE DEF IInv
<1>1. ASSUME NEW v \in Worker, NEW p, NEW j, Work(v, p, j) PROVE v = w /\ p = "writing"
  BY <1>1, WorkStep
<1>2. ASSUME NEW v \in Worker, Return(v) PROVE FALSE
  BY <1>1, <1>2 DEF Return
<1>3. ASSUME NEW v \in Worker, Start(v) PROVE FALSE
  <2>1. PICK p \in {"begun", "project"} : \E j : Work(v, p, j)
    BY <1>3 DEF Start, StartItemWrite, StartCreate, StartSettings, LockProject, BeginMove
  <2> QED BY <1>1, <2>1
<1>4. ASSUME NEW v \in Worker, Step(v), ~(ReadColumn(v) /\ ~Rollback(v)) PROVE FALSE
  <2>1. CASE LockUser(v)
    BY <1>1, <2>1 DEF LockUser
  <2>2. CASE LockMoveProject(v) /\ ~Rollback(v)
    <3>1. \E j : Work(v, "reading", j)
      BY <2>2 DEF LockMoveProject
    <3> QED BY <1>1, <3>1
  <2>3. CASE ~LockUser(v) /\ ~(LockMoveProject(v) /\ ~Rollback(v))
    <3>1. Return(v)
      BY <1>4, <2>3 DEF Step, Reposition, Transition, EditStatus, Assign, CreateItem,
         CreateStatusDefinition, UpdateStatusDefinition, Refuse, RowMissing, WriteColumn, Rollback
    <3> QED BY <1>2, <3>1
  <2> QED BY <2>1, <2>2, <2>3
<1>5. ASSUME NEW t \in Type, CountTypes(t) \/ DeactivateType(t) \/ ActivateType(t) PROVE FALSE
  BY <1>5 DEF CountTypes, DeactivateType, ActivateType, requests_
<1>6. ASSUME NEW i \in Item, DeleteItem(i) PROVE FALSE
  BY <1>6 DEF DeleteItem
<1>7. ASSUME NEW u \in Worker, NEW v \in Worker, Victim(u, v) PROVE FALSE
  BY <1>2, <1>7 DEF Victim, Rollback
<1>8. CASE UNCHANGED vars
  BY <1>8 DEF vars, requests_
<1>9. ASSUME NEW v \in Worker, Step(v) PROVE ReadColumn(w) /\ ~Rollback(w)
  <2>1. ReadColumn(v) /\ ~Rollback(v)
    BY <1>4, <1>9
  <2>2. \E j : Work(v, "writing", j)
    BY <2>1 DEF ReadColumn
  <2> QED BY <1>1, <2>1, <2>2
<1> QED BY <1>3, <1>5, <1>6, <1>7, <1>8, <1>9 DEF Next

LEMMA OrderInvariance == Spec => [](IInv /\ OrderInv)
<1>1. Init => OrderInv
  BY DEF Init, OrderInv
<1>2. IInv /\ OrderInv /\ [Next]_vars => OrderInv'
  <2> SUFFICES ASSUME IInv, OrderInv, [Next]_vars, NEW w \in Worker, phase'[w] = "writing"
               PROVE  OrderOf(w)'
    BY OrderByWorker DEF OrderInv, OrderOf
  <2>1. IInv'
    BY NextInv
  <2>2. CASE phase[w] = "writing"
    BY <2>1, <2>2, OrderByWorker, OthersKeepOrder
  <2>3. CASE phase[w] # "writing"
    BY <2>3, WritingIsRead, ReadKeepsOrder
  <2> QED BY <2>2, <2>3
<1> QED BY <1>1, <1>2, Invariance, PTL DEF Spec

\* After the write the row of each Work Item it numbers is its place.
LEMMA WrittenRows ==
  ASSUME IInv, NEW w \in Worker, WriteColumn(w)
  PROVE  /\ ToSet(job[w].order) \subseteq items /\ items' = items /\ mine' = mine
         /\ job[w].item \in ToSet(job[w].order)
         /\ Enumerates(job[w].order, ToSet(job[w].order))
         /\ \A j \in ToSet(job[w].order) : personal'[j].category = job[w].to
         /\ \A j \in ToSet(job[w].order) : CategoryOf(j)' = job[w].to =>
              PersonalKey'[j] = PlaceIn(job[w].order, j)
         /\ \A j \in Item \ ToSet(job[w].order) : personal'[j] = personal[j]
         /\ phase[w] = "writing" /\ Commits(w)
<1> DEFINE r == job[w].order
           T == ToSet(r)
<1>1. /\ T \subseteq items /\ items' = items /\ mine' = mine /\ phase[w] = "writing" /\ Return(w)
      /\ personal' = [j \in Item |->
             IF j \in T THEN [category |-> job[w].to, position |-> PlaceIn(r, j)] ELSE personal[j]]
  BY DEF WriteColumn
<1>2. Enumerates(r, T) /\ job[w].item \in T
  BY <1>1 DEF IInv, RequestsInv, RequestInv
<1> HIDE DEF r, T
<1>3. T \subseteq Item
  BY <1>1 DEF IInv, TypeOK
<1>4. \A j \in T : personal'[j].category = job[w].to /\ personal'[j].position = PlaceIn(r, j)
  BY <1>1, <1>3
<1>5. \A j \in T : CategoryOf(j)' = job[w].to => PersonalKey'[j] = PlaceIn(r, j)
  BY <1>1, <1>3, <1>4 DEF PersonalKey
<1>6. Commits(w)
  BY <1>1, ReturnStep DEF Commits, IInv
<1> QED BY <1>1, <1>2, <1>3, <1>4, <1>5, <1>6 DEF r, T

(* PersonalOrderKept: the writes of my_work_board_order.py number a column *)
(* read before; between the read and the write the user's row is held, so  *)
(* on the user's board no two Work Items change places but for the one     *)
(* that is moved, those that came into the column after the read, and      *)
(* those whose only row was taken for the column that they have left.      *)
THEOREM PersonalOrderSafe == Spec => PersonalOrderKept
<1>1. ASSUME IInv, OrderInv, [Next]_vars, NEW i \in Item, NEW j \in Item,
             Stay(i, j), Before(PersonalKey, i, j), ~Before(PersonalKey, i, j)'
      PROVE  \E w \in Worker : /\ phase[w] = "writing" /\ Commits(w)
                               /\ \/ job[w].item \in {i, j}
                                  \/ ~({i, j} \subseteq ToSet(job[w].order))
                                  \/ CategoryOf(i) # job[w].to
  <2> USE <1>1
  <2>0. i # j
    <3>1. Item \in SUBSET Nat /\ \A x \in Item : PersonalKey[x] \in Nat
      BY KeysAreNumbers DEF IInv
    <3>2. ~Before(PersonalKey, i, i)
      BY <3>1, BeforeOrder
    <3> QED BY <3>2
  <2>1. /\ CategoryOf(i)' = CategoryOf(i) /\ CategoryOf(j)' = CategoryOf(j)
        /\ i \in items /\ j \in items /\ i \in items' /\ j \in items'
        /\ CategoryOf(i) = CategoryOf(j)
    BY <2>0, StayKeepsCategory
  <2>2. ASSUME personal'[i] = personal[i], personal'[j] = personal[j] PROVE FALSE
    <3>1. PersonalKey'[i] = PersonalKey[i] /\ PersonalKey'[j] = PersonalKey[j]
      BY <2>1, <2>2 DEF PersonalKey, Unplaced
    <3> QED BY <3>1 DEF Before
  <2>3. ASSUME NEW w \in Worker, WriteColumn(w)
        PROVE  /\ phase[w] = "writing" /\ Commits(w)
               /\ \/ job[w].item \in {i, j}
                  \/ ~({i, j} \subseteq ToSet(job[w].order))
                  \/ CategoryOf(i) # job[w].to
    <3> DEFINE r == job[w].order
    <3>1. phase[w] = "writing" /\ Commits(w)
      BY <2>3, WrittenRows
    <3>2. ASSUME job[w].item \notin {i, j}, {i, j} \subseteq ToSet(r), CategoryOf(i) = job[w].to
          PROVE  FALSE
      <4>1. /\ RowKey(job[w].to)[i] = PersonalKey[i]
            /\ RowKey(job[w].to)[j] = PersonalKey[j]
        BY <2>1, <3>2 DEF RowKey, PersonalKey
      <4>2. PlaceIn(r, i) < PlaceIn(r, j) <=> Before(RowKey(job[w].to), i, j)
        BY <3>1, <3>2 DEF OrderInv
      <4>3. PlaceIn(r, i) < PlaceIn(r, j)
        BY <4>1, <4>2 DEF Before
      <4>4. PersonalKey'[i] = PlaceIn(r, i) /\ PersonalKey'[j] = PlaceIn(r, j)
        BY <2>1, <2>3, <3>2, WrittenRows
      <4> QED BY <4>3, <4>4 DEF Before
    <3> QED BY <3>1, <3>2
  <2>4. ASSUME NEW k \in Item, DeleteItem(k) PROVE FALSE
    <3>1. k # i /\ k # j
      BY <2>1, <2>4 DEF DeleteItem
    <3> QED BY <2>2, <2>4, <3>1 DEF DeleteItem, IInv, TypeOK
  <2> QED BY <2>2, <2>3, <2>4, PersonalWriters
<1>2. IInv /\ OrderInv /\ [Next]_vars =>
        [\A i, j \in Item :
           Stay(i, j) /\ Before(PersonalKey, i, j) /\ ~Before(PersonalKey, i, j)' =>
             \E w \in Worker : /\ phase[w] = "writing" /\ Commits(w)
                               /\ \/ job[w].item \in {i, j}
                                  \/ ~({i, j} \subseteq ToSet(job[w].order))
                                  \/ CategoryOf(i) # job[w].to]_vars
  BY <1>1
<1> QED BY <1>2, OrderInvariance, PTL DEF Spec, PersonalOrderKept

-----------------------------------------------------------------------------
(* Where a move lands *)

\* A sequence of numbered Work Items is the column they render.
LEMMA OrderIsRendered ==
  ASSUME NEW S \in SUBSET Nat, IsFiniteSet(S), NEW r, Enumerates(r, S),
         NEW key, \A j \in S : key[j] = PlaceIn(r, j)
  PROVE  Rendered(S, key) = r
<1> DEFINE N == Len(r)
<1>1. /\ N \in Nat /\ r \in [1..N -> S]
      /\ \A n \in 1..N : r[n] \in S /\ key[r[n]] = n
      /\ \A j \in S : key[j] \in 1..N /\ r[key[j]] = j /\ key[j] \in Nat
  <2>1. /\ N \in Nat /\ DOMAIN r = 1..N /\ \A n \in 1..N : r[n] \in S /\ PlaceIn(r, r[n]) = n
        /\ \A j \in S : PlaceIn(r, j) \in 1..N /\ r[PlaceIn(r, j)] = j
    BY Places, LenProperties DEF Enumerates
  <2>2. r \in [1..N -> S]
    BY <2>1, LenProperties DEF Enumerates
  <2> HIDE DEF N
  <2> QED BY <2>1, <2>2
<1> HIDE DEF N
<1>2. ASSUME NEW j \in S PROVE Rank(S, key, j) = key[j]
  <2> DEFINE n == key[j]
             B == {k \in S : Before(key, k, j)}
             f == [m \in 1..(n - 1) |-> r[m]]
  <2>1. n \in 1..N /\ n - 1 \in Nat /\ \A m \in 1..(n - 1) : m \in 1..N /\ m < n
    BY <1>1
  <2>2. \A m \in 1..(n - 1) : f[m] \in B
    BY <1>1, <2>1 DEF Before
  <2>3. \A k \in B : key[k] \in 1..(n - 1) /\ f[key[k]] = k
    <3> SUFFICES ASSUME NEW k \in B PROVE key[k] \in 1..(n - 1) /\ f[key[k]] = k
      OBVIOUS
    <3>1. key[k] < n
      <4>1. key[k] # n \/ k = j
        BY <1>1
      <4>2. k \in Nat /\ j \in Nat
        OBVIOUS
      <4> QED BY <1>1, <4>1, <4>2 DEF Before
    <3> QED BY <1>1, <2>1, <3>1
  <2>4. \A m, k \in 1..(n - 1) : f[m] = f[k] => m = k
    BY <1>1, <2>1
  <2>5. f \in Bijection(1..(n - 1), B)
    <3> HIDE DEF B
    <3>1. f \in [1..(n - 1) -> B]
      BY <2>2
    <3> HIDE DEF f, n
    <3> QED BY <2>3, <2>4, <3>1 DEF Bijection, Injection, IsInjective, Surjection
  <2>6. Cardinality(B) = n - 1
    <3> HIDE DEF B, f, n
    <3>1. ExistsBijection(1..(n - 1), B)
      BY <2>5 DEF ExistsBijection
    <3> QED BY <2>1, <3>1, FS_CountingElements
  <2> QED BY <2>1, <2>6 DEF Rank
<1>3. Cardinality(S) = N
  <2>1. r \in Bijection(1..N, S)
    <3>1. \A m, n \in 1..N : r[m] = r[n] => m = n
      BY <1>1
    <3>2. \A j \in S : \E n \in 1..N : r[n] = j
      BY <1>1
    <3> QED BY <1>1, <3>1, <3>2 DEF Bijection, Injection, IsInjective, Surjection
  <2>2. ExistsBijection(1..N, S)
    BY <2>1 DEF ExistsBijection
  <2> QED BY <1>1, <2>2, FS_CountingElements
<1>4. ASSUME NEW n \in 1..N PROVE Rendered(S, key)[n] = r[n]
  <2>1. Rendered(S, key)[n] = CHOOSE i \in S : Rank(S, key, i) = n
    BY <1>3 DEF Rendered
  <2>2. \A i \in S : Rank(S, key, i) = n <=> i = r[n]
    BY <1>1, <1>2
  <2> QED BY <1>1, <2>1, <2>2
<1> QED BY <1>1, <1>3, <1>4 DEF Rendered

(* MovesLand: a cross-column move decides from its snapshot to lock the    *)
(* Project (move_my_work_item) and writes the order that it has read under *)
(* both locks: after its commit the column is that order.  A reorder holds *)
(* the user's row only: its Work Item has the place of the order it wrote  *)
(* among the Work Items of that order that are still in the column.        *)
THEOREM MoveSafe == Spec => MovesLand
<1>1. ASSUME IInv, OrderInv, NEW w \in Worker, WriteColumn(w),
             NEW i \in Item, NEW c \in Category, i = job[w].item, c = job[w].to
      PROVE  LET placed == PersonalColumn(c)'
                 order == job[w].order
             IN IF job[w].kind = "cross" THEN placed = order
                ELSE /\ i \in ToSet(placed) \/ CategoryOf(i)' # c \/ i \notin mine
                     /\ i \in ToSet(placed) =>
                           \A j \in ToSet(order) \cap ToSet(placed) :
                              PlaceIn(order, i) < PlaceIn(order, j) <=>
                              PlaceIn(placed, i) < PlaceIn(placed, j)
  <2> DEFINE order == job[w].order
             O == ToSet(order)
             T == Column(c)' \cap mine'
             key == PersonalKey'
             placed == Rendered(T, key)
  <2>0. PersonalColumn(c)' = placed
    BY DEF PersonalColumn
  <2>1. /\ O \subseteq items /\ items' = items /\ mine' = mine /\ i \in O /\ phase[w] = "writing"
        /\ Enumerates(order, O)
        /\ \A j \in O : CategoryOf(j)' = c => key[j] = PlaceIn(order, j)
    BY <1>1, WrittenRows
  <2>2. T = {j \in items : CategoryOf(j)' = c /\ j \in mine}
    BY <2>1 DEF Column
  <2>3. /\ T \in SUBSET Nat /\ IsFiniteSet(T) /\ \A j \in T : key[j] \in Nat
    <3>1. T \subseteq Item
      BY <1>1, <2>2 DEF IInv, TypeOK
    <3>2. IsFiniteSet(Item) /\ Item \in SUBSET Nat /\ \A j \in Item : key[j] \in Nat
      <4>1. TypeOK'
        BY <1>1, WriteColumnInv DEF IInv
      <4>2. (\A j \in Item : PersonalKey[j] \in Nat)'
        <5>1. Cardinality(Item) \in Nat
          BY FS_CardinalityType
        <5>2. \A n \in 0..Cardinality(Item) : n \in Nat
          BY <5>1
        <5> QED BY <4>1, <5>1, <5>2 DEF TypeOK, PersonalKey, Unplaced
      <4> QED BY <1>1, <4>2, KeysAreNumbers DEF IInv
    <3> QED BY <3>1, <3>2, FS_Subset
  <2>4. ASSUME job[w].kind = "cross" PROVE placed = order
    <3>1. /\ Written(job[w].def) /\ status[job[w].def].category = c
          /\ statusOf' = [statusOf EXCEPT ![i] = job[w].def] /\ status' = status
      BY <1>1, <2>1, <2>4 DEF IInv, RequestsInv, RequestInv, Crossing, WriteColumn
    <3>2. O \cap items = ((Column(c) \cap mine) \cup {i}) \cap items /\ i \in mine
      BY <1>1, <2>1, <2>4 DEF OrderInv
    <3>3. \A j \in items : CategoryOf(j)' = IF j = i THEN c ELSE CategoryOf(j)
      BY <1>1, <3>1 DEF CategoryOf, IInv, TypeOK
    <3>4. T = O
      BY <2>1, <2>2, <3>2, <3>3 DEF Column
    <3>5. \A j \in T : key[j] = PlaceIn(order, j)
      BY <2>1, <2>2, <3>4
    <3> HIDE DEF T, O, key, order
    <3>6. Enumerates(order, T)
      BY <2>1, <3>4
    <3> QED BY <2>3, <3>5, <3>6, OrderIsRendered DEF placed
  <2>5. i \in T \/ CategoryOf(i)' # c \/ i \notin mine
    BY <2>1, <2>2
  <2>6. ASSUME i \in T, NEW j \in O \cap T
        PROVE  PlaceIn(order, i) < PlaceIn(order, j) <=> PlaceIn(placed, i) < PlaceIn(placed, j)
    <3>1. key[i] = PlaceIn(order, i) /\ key[j] = PlaceIn(order, j)
      BY <2>1, <2>2, <2>6
    <3>2. /\ PlaceIn(order, i) \in Nat /\ PlaceIn(order, j) \in Nat
          /\ PlaceIn(order, i) = PlaceIn(order, j) => i = j
      <4> HIDE DEF order, O
      <4>1. /\ Len(order) \in Nat
            /\ \A x \in O : PlaceIn(order, x) \in 1..Len(order) /\ order[PlaceIn(order, x)] = x
        BY <2>1, Places
      <4>2. \A n \in 1..Len(order) : n \in Nat
        BY <4>1
      <4>3. i \in O /\ j \in O
        BY <2>1, <2>6
      <4> QED BY <4>1, <4>2, <4>3
    <3>3. PlaceIn(placed, i) = Rank(T, key, i) /\ PlaceIn(placed, j) = Rank(T, key, j)
      <4> HIDE DEF T, key
      <4> QED BY <2>3, <2>6, RenderedColumn
    <3>4. Before(key, i, j) <=> Rank(T, key, i) < Rank(T, key, j)
      <4> HIDE DEF T, key
      <4> QED BY <2>3, <2>6, RankBijection
    <3>5. Before(key, i, j) <=> PlaceIn(order, i) < PlaceIn(order, j)
      <4> HIDE DEF key, order
      <4>1. i \in Nat /\ j \in Nat
        BY <2>3, <2>6
      <4> QED BY <3>1, <3>2, <4>1 DEF Before
    <3> QED BY <3>3, <3>4, <3>5
  <2>7. ToSet(placed) = T
    <3> HIDE DEF T, key
    <3> QED BY <2>3, RenderedColumn, Places
  <2> HIDE DEF order, O, T, key, placed
  <2> QED BY <2>0, <2>4, <2>5, <2>6, <2>7 DEF order, O
<1>2. IInv /\ OrderInv /\ [Next]_vars =>
        [\A w \in Worker, i \in Item, c \in Category :
           WriteColumn(w) /\ i = job[w].item /\ c = job[w].to =>
              LET placed == PersonalColumn(c)'
                  order == job[w].order
              IN IF job[w].kind = "cross" THEN placed = order
                 ELSE /\ i \in ToSet(placed) \/ CategoryOf(i)' # c \/ i \notin mine
                      /\ i \in ToSet(placed) =>
                            \A j \in ToSet(order) \cap ToSet(placed) :
                               PlaceIn(order, i) < PlaceIn(order, j) <=>
                               PlaceIn(placed, i) < PlaceIn(placed, j)]_vars
  BY <1>1
<1> QED BY <1>2, OrderInvariance, PTL DEF Spec, MovesLand
=============================================================================
