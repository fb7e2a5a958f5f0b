------------------------- MODULE MeetingSeriesProofs -------------------------
(***************************************************************************)
(* The properties of the two parts of a series: of RecurrenceCalendar for  *)
(* all rules, times and exclusions on a calendar of any length, and of     *)
(* SeriesSections for any number of Sections and concurrent requests.  The *)
(* parts share no state, and their proofs no lemma.                        *)
(***************************************************************************)
EXTENDS RecurrenceCalendar, SeriesSections,
        FiniteSetTheorems, SequenceTheorems, WellFoundedInduction, TLAPS

-----------------------------------------------------------------------------
(* Days, months and the gaps between them *)

LEMMA BoundFacts ==
  /\ Sooner \subseteq Int /\ Moves \subseteq Int
  /\ Touched \in Nat \ {0} /\ LastDay \in Nat
BY BoundAssumption

\* A set of numbers that is not empty has a least one.
LEMMA LeastNumber ==
  ASSUME NEW S \in SUBSET Nat, S # {}
  PROVE  \E n \in S : \A k \in S : n <= k
<1>1. PICK n \in S : \A k \in S : ~ (<<k, n>> \in OpToRel(<, Nat))
  BY Zenon, NatLessThanWellFounded, WFMin
<1>2. \A k, m \in Nat : k < m => <<k, m>> \in OpToRel(<, Nat)
  BY Zenon DEF OpToRel
<1>3. \A k \in S : ~ (k < n)
  BY <1>1, <1>2
<1> QED BY <1>3

\* A month has 28 to 31 days, the months follow each other, and months that are
\* so far apart span at most that many days.
LEMMA MonthLengths ==
  ASSUME NEW m \in Nat
  PROVE  /\ FirstOf(m) \in Nat
         /\ Length(m) \in 28 .. 31
         /\ 28 * m <= FirstOf(m)
BY DEF FirstOf, Length, DaysBefore

LEMMA MonthsOrdered ==
  ASSUME NEW m \in Nat, NEW n \in Nat, m < n
  PROVE  FirstOf(m + 1) <= FirstOf(n)
BY DEF FirstOf, DaysBefore

LEMMA MonthSpan ==
  ASSUME NEW m \in Nat, NEW n \in Nat \ {0}
  PROVE  FirstOf(m + n) <= FirstOf(m) + 31 * n
BY DEF FirstOf, DaysBefore

\* Every day is in one month.
LEMMA MonthOfDay ==
  ASSUME NEW day \in 0 .. LastDay
  PROVE  /\ MonthOf[day] \in Nat
         /\ FirstOf(MonthOf[day]) <= day
         /\ day < FirstOf(MonthOf[day] + 1)
<1> DEFINE Later == {m \in Nat : day < FirstOf(m + 1)}
<1>1. \E m \in Later : \A k \in Later : m <= k
  <2>1. day \in Nat
    BY BoundFacts
  <2>2. 28 * (day + 1) <= FirstOf(day + 1)
    BY <2>1, MonthLengths
  <2>3. day < FirstOf(day + 1)
    BY <2>1, <2>2, MonthLengths
  <2> QED BY <2>1, <2>3, LeastNumber
<1>2. PICK m \in Later : \A k \in Later : m <= k
  BY <1>1
<1>3. FirstOf(m) <= day
  <2>1. CASE m = 0
    <3>1. FirstOf(0) = 0
      BY DEF FirstOf, DaysBefore
    <3> QED BY <2>1, <3>1
  <2>2. CASE m # 0
    <3>1. m - 1 \in Nat /\ (m - 1) + 1 = m
      BY <2>2
    <3>2. m - 1 \notin Later
      BY <1>2, <3>1
    <3>3. ~ (day < FirstOf((m - 1) + 1))
      BY <3>1, <3>2
    <3> QED BY <3>1, <3>3, MonthLengths, BoundFacts
  <2> QED BY <2>1, <2>2
<1>4. m \in 0 .. LastDay \div 28
  <2>1. 28 * m <= LastDay
    BY <1>3, MonthLengths, BoundFacts
  <2> QED BY <2>1, BoundFacts
<1>5. \E n \in 0 .. LastDay \div 28 : FirstOf(n) <= day /\ day < FirstOf(n + 1)
  BY <1>2, <1>3, <1>4
<1>6. MonthOf[day] = CHOOSE n \in 0 .. LastDay \div 28 : FirstOf(n) <= day /\ day < FirstOf(n + 1)
  BY DEF MonthOf
<1>7. /\ MonthOf[day] \in 0 .. LastDay \div 28
      /\ FirstOf(MonthOf[day]) <= day /\ day < FirstOf(MonthOf[day] + 1)
  BY <1>5, <1>6
<1> QED BY <1>7

\* The month of a day is the only one that it lies in.
LEMMA MonthUnique ==
  ASSUME NEW day \in 0 .. LastDay, NEW m \in Nat, FirstOf(m) <= day, day < FirstOf(m + 1)
  PROVE  m = MonthOf[day]
<1> DEFINE n == MonthOf[day]
<1>1. n \in Nat /\ FirstOf(n) <= day /\ day < FirstOf(n + 1)
  BY MonthOfDay
<1> HIDE DEF n
<1>2. /\ FirstOf(m) \in Nat /\ FirstOf(m + 1) \in Nat
      /\ FirstOf(n) \in Nat /\ FirstOf(n + 1) \in Nat
  BY <1>1, MonthLengths
<1>3. ~ (m < n)
  <2> SUFFICES ASSUME m < n PROVE FALSE
    OBVIOUS
  <2>1. FirstOf(m + 1) <= FirstOf(n)
    BY <1>1, MonthsOrdered
  <2> QED BY <2>1, <1>1, <1>2
<1>4. ~ (n < m)
  <2> SUFFICES ASSUME n < m PROVE FALSE
    OBVIOUS
  <2>1. FirstOf(n + 1) <= FirstOf(m)
    BY <1>1, MonthsOrdered
  <2> QED BY <2>1, <1>1, <1>2
<1>5. m = n
  BY <1>1, <1>3, <1>4
<1> QED BY <1>5 DEF n

\* A day is that much after the first of its month.
LEMMA DayOfMonth ==
  ASSUME NEW day \in 0 .. LastDay
  PROVE  /\ DayIn(day) \in 0 .. 30
         /\ DayIn(day) < Length(MonthOf[day])
         /\ day = FirstOf(MonthOf[day]) + DayIn(day)
<1>1. PICK m \in Nat : m = MonthOf[day] /\ FirstOf(m) <= day /\ day < FirstOf(m + 1)
  BY MonthOfDay
<1>2. FirstOf(m) \in Nat /\ Length(m) \in 28 .. 31 /\ FirstOf(m + 1) \in Nat
  BY MonthLengths
<1>3. DayIn(day) = day - FirstOf(m)
  BY <1>1 DEF DayIn
<1> QED BY <1>1, <1>2, <1>3 DEF Length

-----------------------------------------------------------------------------
(* The days that the generator looks at *)

LEMMA Euclid ==
  ASSUME NEW a \in Nat, NEW d \in Nat \ {0}
  PROVE  a \div d \in Nat /\ a % d \in 0 .. d - 1 /\ a = d * (a \div d) + (a % d)
OBVIOUS

LEMMA Divides ==
  ASSUME NEW a \in Nat, NEW d \in Nat \ {0}
  PROVE  a % d = 0 <=> \E n \in Nat : a = d * n
<1>1. a = d * (a \div d) + (a % d) /\ a \div d \in Nat
  BY Euclid
<1>2. ASSUME a % d = 0 PROVE \E n \in Nat : a = d * n
  BY <1>1, <1>2
<1>3. ASSUME NEW n \in Nat, a = d * n PROVE a % d = 0
  <2>1. (d * n) % d = 0
    OBVIOUS
  <2> QED BY <1>3, <2>1
<1> QED BY <1>2, <1>3

LEMMA Sevens ==
  ASSUME NEW a \in Nat
  PROVE  /\ a \div 7 \in Nat /\ a % 7 \in 0 .. 6
         /\ a = 7 * (a \div 7) + (a % 7)
         /\ \A x \in 0 .. 6 : (7 * a + x) \div 7 = a /\ (7 * a + x) % 7 = x
OBVIOUS

\* What validate_recurrence_definition has established of every rule.
LEMMA RuleFacts ==
  ASSUME NEW r \in Rules
  PROVE  /\ r.frequency \in Frequency
         /\ r.interval \in Nat \ {0}
         /\ r.start \in Nat
         /\ r.end \in Nat \cup {NoLimit}
         /\ r.count \in Nat \cup {NoLimit}
         /\ r.count # 0
         /\ r.end # NoLimit => r.start <= r.end /\ r.count = NoLimit
         /\ r.frequency = "weekly" => Weekday(r.start) \in r.weekdays
BY RulesAssumption DEF Valid, RuleType

LEMMA GapFacts ==
  ASSUME NEW r \in Rules
  PROVE  /\ Gap(r) \in Nat \ {0}
         /\ Gap(r) >= r.interval
BY RuleFacts DEF Gap, Frequency

LEMMA StartOnCalendar ==
  ASSUME NEW r \in Rules
  PROVE  r.start \in 0 .. LastDay
<1>1. DayOf(At(r.start)) + Gap(r) + 3 <= LastDay
  BY CalendarAssumption
<1>2. DayOf(At(r.start)) = r.start
  BY RuleFacts DEF DayOf, At, Units, LocalTime
<1> QED BY <1>1, <1>2, RuleFacts, GapFacts, BoundFacts

\* The day that _iter_occurrence_dates looks at, and whether it yields it.
MonthLooked(r, n) == MonthOf[r.start] + r.interval * n

Looked(r, n) ==
  CASE r.frequency = "daily"   -> r.start + r.interval * n
    [] r.frequency = "weekly"  -> r.start + 7 * r.interval * (n \div 7) + (n % 7)
    [] r.frequency = "monthly" -> FirstOf(MonthLooked(r, n)) + DayIn(r.start)

Hit(r, n) ==
  /\ r.frequency = "weekly" => Weekday(Looked(r, n)) \in r.weekdays
  /\ r.frequency = "monthly" => DayIn(r.start) < Length(MonthLooked(r, n))

\* The day looked at, by the frequency of the rule.
LEMMA LookedIs ==
  ASSUME NEW r \in Rules, NEW n \in Nat
  PROVE  /\ r.frequency = "daily" => Looked(r, n) = r.start + r.interval * n
         /\ r.frequency = "weekly" =>
              Looked(r, n) = r.start + 7 * (r.interval * (n \div 7)) + (n % 7)
         /\ r.frequency = "monthly" =>
              /\ Looked(r, n) = FirstOf(MonthLooked(r, n)) + DayIn(r.start)
              /\ MonthLooked(r, n) \in Nat
<1>1. r.frequency = "weekly" => Looked(r, n) = r.start + 7 * r.interval * (n \div 7) + (n % 7)
  BY DEF Looked
<1>2. 7 * r.interval * (n \div 7) = 7 * (r.interval * (n \div 7))
  BY RuleFacts
<1>3. r.frequency = "daily" => Looked(r, n) = r.start + r.interval * n
  BY DEF Looked
<1>4. r.frequency = "monthly" => Looked(r, n) = FirstOf(MonthLooked(r, n)) + DayIn(r.start)
  BY DEF Looked
<1>5. MonthLooked(r, n) \in Nat
  <2>1. MonthOf[r.start] \in Nat
    BY StartOnCalendar, MonthOfDay
  <2>2. r.interval * n \in Nat
    BY RuleFacts
  <2> QED BY <2>1, <2>2 DEF MonthLooked
<1> QED BY <1>1, <1>2, <1>3, <1>4, <1>5

LEMMA LookedType ==
  ASSUME NEW r \in Rules, NEW n \in Nat
  PROVE  Looked(r, n) \in Nat
<1>1. r.frequency \in Frequency /\ r.interval \in Nat /\ r.start \in Nat
  BY RuleFacts
<1>2. CASE r.frequency = "daily"
  BY <1>1, <1>2, LookedIs
<1>3. CASE r.frequency = "weekly"
  <2>1. r.interval * (n \div 7) \in Nat
    BY <1>1
  <2> QED BY <1>1, <1>3, <2>1, LookedIs
<1>4. CASE r.frequency = "monthly"
  <2>1. MonthLooked(r, n) \in Nat /\ Looked(r, n) = FirstOf(MonthLooked(r, n)) + DayIn(r.start)
    BY <1>4, LookedIs
  <2>2. FirstOf(MonthLooked(r, n)) \in Nat
    BY <2>1, MonthLengths
  <2>3. DayIn(r.start) \in Nat
    BY StartOnCalendar, DayOfMonth
  <2> QED BY <2>1, <2>2, <2>3
<1> QED BY <1>1, <1>2, <1>3, <1>4 DEF Frequency

\* The days come in order.
LEMMA LookedOrdered ==
  ASSUME NEW r \in Rules, NEW k \in Nat, NEW n \in Nat, k < n
  PROVE  Looked(r, k) < Looked(r, n)
<1> DEFINE i == r.interval
<1>1. r.frequency \in Frequency /\ i \in Nat \ {0} /\ r.start \in Nat
  BY RuleFacts
<1> HIDE DEF i
<1>2. ASSUME NEW a \in Nat, NEW b \in Nat, a < b PROVE i * a + i <= i * b
  <2>1. b = a + (b - a) /\ b - a \in Nat \ {0}
    BY <1>2
  <2>2. PICK c \in Nat : b = a + 1 + c
    BY <2>1
  <2>3. i * b = i * a + i + i * c
    BY <1>1, <2>2
  <2>4. i * c \in Nat /\ i * a \in Nat
    BY <1>1
  <2> QED BY <1>1, <2>3, <2>4
<1>3. CASE r.frequency = "daily"
  <2>1. i * k \in Nat /\ i * n \in Nat
    BY <1>1
  <2>2. Looked(r, k) = r.start + i * k /\ Looked(r, n) = r.start + i * n
    BY <1>3, LookedIs DEF i
  <2> QED BY <1>1, <1>2, <2>1, <2>2
<1>4. CASE r.frequency = "weekly"
  <2> DEFINE u == k \div 7
             v == n \div 7
  <2>1. /\ u \in Nat /\ k % 7 \in 0 .. 6 /\ k = 7 * u + (k % 7)
        /\ v \in Nat /\ n % 7 \in 0 .. 6 /\ n = 7 * v + (n % 7)
    OBVIOUS
  <2>2. /\ Looked(r, k) = r.start + 7 * (i * u) + (k % 7)
        /\ Looked(r, n) = r.start + 7 * (i * v) + (n % 7)
    BY <1>4, LookedIs DEF i
  <2> HIDE DEF u, v
  <2>3. i * u \in Nat /\ i * v \in Nat
    BY <1>1, <2>1
  <2>4. CASE u = v
    BY <1>1, <2>1, <2>2, <2>3, <2>4
  <2>5. CASE u < v
    <3>1. i * u + i <= i * v
      BY <1>2, <2>1, <2>5
    <3> QED BY <1>1, <2>1, <2>2, <2>3, <3>1
  <2>6. u <= v
    BY <2>1
  <2> QED BY <2>1, <2>4, <2>5, <2>6
<1>5. CASE r.frequency = "monthly"
  <2> DEFINE p == MonthLooked(r, k)
             q == MonthLooked(r, n)
  <2>1. p \in Nat /\ q \in Nat
    BY <1>5, LookedIs
  <2>2. Looked(r, k) = FirstOf(p) + DayIn(r.start) /\ Looked(r, n) = FirstOf(q) + DayIn(r.start)
    BY <1>5, LookedIs
  <2>3. p < q
    <3>1. i * k + i <= i * n /\ i * k \in Nat /\ i * n \in Nat
      BY <1>1, <1>2
    <3>2. MonthOf[r.start] \in Nat
      BY StartOnCalendar, MonthOfDay
    <3>3. p = MonthOf[r.start] + i * k /\ q = MonthOf[r.start] + i * n
      BY DEF MonthLooked, i
    <3> HIDE DEF p, q
    <3> QED BY <1>1, <3>1, <3>2, <3>3
  <2> HIDE DEF p, q
  <2>4. FirstOf(p + 1) <= FirstOf(q)
    BY <2>1, <2>3, MonthsOrdered
  <2>5. FirstOf(p) + 28 <= FirstOf(p + 1) /\ FirstOf(p) \in Nat /\ FirstOf(p + 1) \in Nat
    BY <2>1, MonthLengths DEF Length
  <2>6. FirstOf(q) \in Nat /\ DayIn(r.start) \in 0 .. 30
    BY <2>1, MonthLengths, StartOnCalendar, DayOfMonth
  <2> QED BY <2>2, <2>4, <2>5, <2>6
<1> QED BY <1>1, <1>3, <1>4, <1>5 DEF Frequency

\* The generator begins at the first occurrence, and never goes back before it.
LEMMA LookedFirst ==
  ASSUME NEW r \in Rules
  PROVE  Looked(r, 0) = r.start
<1>1. r.frequency \in Frequency /\ r.interval \in Nat /\ r.start \in Nat
  BY RuleFacts
<1>2. r.interval * 0 = 0 /\ 0 \div 7 = 0 /\ 0 % 7 = 0
  BY <1>1
<1>3. CASE r.frequency = "daily"
  BY <1>1, <1>2, <1>3, LookedIs
<1>4. CASE r.frequency = "weekly"
  <2>1. Looked(r, 0) = r.start + 7 * (r.interval * (0 \div 7)) + (0 % 7)
    BY <1>4, LookedIs
  <2> QED BY <1>1, <1>2, <2>1
<1>5. CASE r.frequency = "monthly"
  <2>1. MonthOf[r.start] \in Nat /\ r.start = FirstOf(MonthOf[r.start]) + DayIn(r.start)
    BY StartOnCalendar, MonthOfDay, DayOfMonth
  <2>2. MonthLooked(r, 0) = MonthOf[r.start]
    BY <1>2, <2>1 DEF MonthLooked
  <2> QED BY <1>5, <2>1, <2>2, LookedIs
<1> QED BY <1>1, <1>3, <1>4, <1>5 DEF Frequency

LEMMA LookedAfterStart ==
  ASSUME NEW r \in Rules, NEW n \in Nat
  PROVE  r.start <= Looked(r, n)
<1>1. CASE n = 0
  BY <1>1, LookedFirst, RuleFacts
<1>2. CASE n # 0
  <2>1. Looked(r, 0) < Looked(r, n)
    BY <1>2, LookedOrdered
  <2> QED BY <2>1, LookedFirst, LookedType, RuleFacts
<1> QED BY <1>1, <1>2

\* What is yielded has the pattern of the rule ...
LEMMA HitMatches ==
  ASSUME NEW r \in Rules, NEW n \in Nat, Hit(r, n), Looked(r, n) <= LastDay
  PROVE  Pattern(r, Looked(r, n))
<1> DEFINE i == r.interval
           day == Looked(r, n)
<1>1. /\ r.frequency \in Frequency /\ i \in Nat \ {0} /\ r.start \in Nat
      /\ day \in 0 .. LastDay
  BY RuleFacts, LookedType, BoundFacts
<1>2. CASE r.frequency = "daily"
  <2>1. day = r.start + i * n
    BY <1>2, LookedIs
  <2> HIDE DEF i, day
  <2>2. day - r.start = i * n /\ i * n \in Nat
    BY <1>1, <2>1
  <2>3. (day - r.start) % i = 0
    BY <1>1, <2>2, Divides
  <2> QED BY <1>2, <2>3 DEF Pattern, i, day
<1>3. CASE r.frequency = "weekly"
  <2> DEFINE w == n \div 7
  <2>1. w \in Nat /\ n % 7 \in 0 .. 6
    OBVIOUS
  <2>2. day = r.start + 7 * (i * w) + (n % 7)
    BY <1>3, LookedIs
  <2>3. Weekday(day) \in r.weekdays
    BY <1>3 DEF Hit
  <2> HIDE DEF i, day, w
  <2>4. i * w \in Nat
    BY <1>1, <2>1
  <2>5. (day - r.start) \div 7 = i * w
    <3>1. day - r.start = 7 * (i * w) + (n % 7)
      BY <1>1, <2>1, <2>2, <2>4
    <3>2. (7 * (i * w) + (n % 7)) \div 7 = i * w
      BY <2>1, <2>4, Sevens
    <3> QED BY <3>1, <3>2
  <2>6. ((day - r.start) \div 7) % i = 0
    BY <1>1, <2>1, <2>4, <2>5, Divides
  <2> QED BY <1>3, <2>3, <2>6 DEF Pattern, i, day
<1>4. CASE r.frequency = "monthly"
  <2> DEFINE m == MonthLooked(r, n)
             d == DayIn(r.start)
  <2>1. m \in Nat /\ day = FirstOf(m) + d
    BY <1>4, LookedIs
  <2>2. d \in 0 .. 30 /\ d < Length(m)
    BY <1>4, StartOnCalendar, DayOfMonth DEF Hit
  <2>3. FirstOf(m) \in Nat /\ FirstOf(m + 1) \in Nat /\ Length(m) = FirstOf(m + 1) - FirstOf(m)
    BY <2>1, MonthLengths DEF Length
  <2>4. MonthOf[r.start] \in Nat
    BY StartOnCalendar, MonthOfDay
  <2>5. m = MonthOf[r.start] + i * n
    BY DEF MonthLooked
  <2> HIDE DEF i, day, d, m
  <2>6. m = MonthOf[day]
    BY <1>1, <2>1, <2>2, <2>3, MonthUnique
  <2>7. DayIn(day) = d
    BY <1>1, <2>1, <2>2, <2>3, <2>6 DEF DayIn
  <2>8. i * n \in Nat
    BY <1>1
  <2>9. MonthOf[day] - MonthOf[r.start] = i * n
    BY <2>4, <2>5, <2>6, <2>8
  <2>10. (MonthOf[day] - MonthOf[r.start]) % i = 0
    BY <1>1, <2>8, <2>9, Divides
  <2> QED BY <1>4, <2>7, <2>10 DEF Pattern, i, day, d
<1> QED BY <1>1, <1>2, <1>3, <1>4 DEF Frequency

\* ... and every day from the start on that has it is yielded.
LEMMA MatchesHit ==
  ASSUME NEW r \in Rules, NEW day \in r.start .. LastDay, Pattern(r, day)
  PROVE  \E n \in Nat : Hit(r, n) /\ Looked(r, n) = day
<1> DEFINE i == r.interval
<1>1. /\ r.frequency \in Frequency /\ i \in Nat \ {0} /\ r.start \in Nat
      /\ day \in 0 .. LastDay /\ day - r.start \in Nat
  BY RuleFacts, BoundFacts
<1>2. CASE r.frequency = "daily"
  <2>1. (day - r.start) % i = 0
    BY <1>2 DEF Pattern
  <2>2. PICK n \in Nat : day - r.start = i * n
    BY <1>1, <2>1, Divides
  <2>3. Looked(r, n) = r.start + i * n
    BY <1>2, LookedIs
  <2>4. Hit(r, n)
    BY <1>2 DEF Hit
  <2> HIDE DEF i
  <2>5. i * n \in Nat
    BY <1>1
  <2> QED BY <1>1, <2>2, <2>3, <2>4, <2>5
<1>3. CASE r.frequency = "weekly"
  <2> DEFINE w == (day - r.start) \div 7
             x == (day - r.start) % 7
  <2>1. w \in Nat /\ x \in 0 .. 6 /\ day - r.start = 7 * w + x
    BY <1>1, Sevens
  <2>2. w % i = 0 /\ Weekday(day) \in r.weekdays
    BY <1>3 DEF Pattern
  <2> HIDE DEF w, x
  <2>3. PICK j \in Nat : w = i * j
    BY <1>1, <2>1, <2>2, Divides
  <2> DEFINE n == 7 * j + x
  <2>4. n \in Nat /\ n \div 7 = j /\ n % 7 = x
    BY <2>1
  <2> HIDE DEF n
  <2>5. Looked(r, n) = r.start + 7 * (i * j) + x
    BY <1>3, <2>4, LookedIs
  <2>6. Looked(r, n) = day
    <3>1. day - r.start = 7 * (i * j) + x
      BY <2>1, <2>3
    <3>2. i * j \in Nat
      BY <1>1
    <3> QED BY <1>1, <2>1, <2>5, <3>1, <3>2
  <2>7. Hit(r, n)
    BY <1>3, <2>2, <2>6 DEF Hit
  <2> QED BY <2>4, <2>6, <2>7
<1>4. CASE r.frequency = "monthly"
  <2> DEFINE m == MonthOf[day]
             s == MonthOf[r.start]
  <2>1. /\ m \in Nat /\ s \in Nat /\ DayIn(day) < Length(m) /\ day = FirstOf(m) + DayIn(day)
        /\ FirstOf(s) <= r.start /\ day < FirstOf(m + 1)
    BY <1>1, StartOnCalendar, MonthOfDay, DayOfMonth
  <2>2. DayIn(day) = DayIn(r.start) /\ (m - s) % i = 0
    BY <1>4 DEF Pattern
  <2>3. s <= m
    <3> SUFFICES ASSUME m < s PROVE FALSE
      BY <2>1
    <3>1. FirstOf(m + 1) <= FirstOf(s)
      BY <2>1, MonthsOrdered
    <3>2. FirstOf(m + 1) \in Nat /\ FirstOf(s) \in Nat
      BY <2>1, MonthLengths
    <3> QED BY <1>1, <2>1, <3>1, <3>2
  <2> HIDE DEF i
  <2>4. PICK n \in Nat : m - s = i * n
    <3>1. m - s \in Nat
      BY <2>1, <2>3
    <3> QED BY <1>1, <2>2, <3>1, Divides
  <2>5. MonthLooked(r, n) = m
    <3>1. i * n \in Nat
      BY <1>1
    <3> QED BY <2>1, <2>4, <3>1 DEF MonthLooked, i
  <2>6. Looked(r, n) = day
    BY <1>4, <2>1, <2>2, <2>5, LookedIs
  <2>7. Hit(r, n)
    BY <1>4, <2>1, <2>2, <2>5 DEF Hit
  <2> QED BY <2>6, <2>7
<1> QED BY <1>1, <1>2, <1>3, <1>4 DEF Frequency

-----------------------------------------------------------------------------
(* The dates of a rule, and what the generator has yielded *)

\* The days of a rule, whatever its count.
Matching(r) ==
  {day \in r.start .. (IF r.end = NoLimit THEN LastDay ELSE r.end) : Pattern(r, day)}

LEMMA MatchingType ==
  ASSUME NEW r \in Rules
  PROVE  /\ Matching(r) \in SUBSET Nat
         /\ IsFiniteSet(Matching(r))
         /\ \A S \in SUBSET Matching(r) : IsFiniteSet(S) /\ Cardinality(S) \in Nat
<1> DEFINE last == IF r.end = NoLimit THEN LastDay ELSE r.end
<1>1. r.start \in Nat /\ last \in Nat
  BY RuleFacts, BoundFacts
<1>2. Matching(r) \subseteq r.start .. last
  BY DEF Matching
<1> HIDE DEF last
<1>3. IsFiniteSet(Matching(r))
  <2>1. IsFiniteSet(r.start .. last)
    BY <1>1, FS_Interval
  <2> QED BY <1>2, <2>1, FS_Subset
<1>4. Matching(r) \in SUBSET Nat
  BY <1>1, <1>2
<1> QED BY <1>3, <1>4, FS_Subset, FS_CardinalityType

\* A day of the rule is a date as long as the count covers it and what precedes it.
LEMMA DatesAre ==
  ASSUME NEW r \in Rules, NEW day
  PROVE  day \in Dates(r) <=>
           /\ day \in Matching(r)
           /\ r.count # NoLimit => Cardinality({e \in Matching(r) : e <= day}) <= r.count
BY DEF Dates, Matching

LEMMA DatesPrefix ==
  ASSUME NEW r \in Rules, NEW day \in Dates(r), NEW e \in Matching(r), e <= day
  PROVE  e \in Dates(r)
<1> DEFINE Upto(x) == {d \in Matching(r) : d <= x}
<1>1. day \in Matching(r) /\ Matching(r) \in SUBSET Nat
  BY DatesAre, MatchingType
<1>2. Upto(e) \subseteq Upto(day)
  BY <1>1
<1>3. Upto(e) \in SUBSET Matching(r) /\ Upto(day) \in SUBSET Matching(r)
  OBVIOUS
<1>4. r.count # NoLimit => Cardinality(Upto(day)) <= r.count
  BY DatesAre
<1> HIDE DEF Upto
<1>5. Cardinality(Upto(e)) <= Cardinality(Upto(day))
  BY <1>2, <1>3, MatchingType, FS_Subset
<1>6. Cardinality(Upto(e)) \in Nat /\ Cardinality(Upto(day)) \in Nat
  BY <1>3, MatchingType
<1>7. r.count # NoLimit => Cardinality(Upto(e)) <= r.count
  BY <1>4, <1>5, <1>6, RuleFacts
<1> QED BY <1>7, DatesAre DEF Upto

\* The first occurrence is one: every rule yields it.
LEMMA StartIsDate ==
  ASSUME NEW r \in Rules
  PROVE  r.start \in Dates(r)
<1>1. Looked(r, 0) = r.start /\ r.start \in 0 .. LastDay
  BY LookedFirst, StartOnCalendar
<1>2. Hit(r, 0)
  <2>1. r.frequency = "weekly" => Weekday(r.start) \in r.weekdays
    BY RuleFacts
  <2>2. MonthLooked(r, 0) = MonthOf[r.start]
    <3>1. MonthOf[r.start] \in Nat /\ r.interval \in Nat
      BY StartOnCalendar, MonthOfDay, RuleFacts
    <3> QED BY <3>1 DEF MonthLooked
  <2>3. DayIn(r.start) < Length(MonthLooked(r, 0))
    BY <2>2, <1>1, DayOfMonth
  <2> QED BY <1>1, <2>1, <2>3 DEF Hit
<1>3. Pattern(r, r.start)
  <2>1. Looked(r, 0) <= LastDay
    BY <1>1
  <2>2. Pattern(r, Looked(r, 0))
    BY <1>2, <2>1, HitMatches
  <2> QED BY <1>1, <2>2
<1>4. r.start \in Matching(r)
  BY <1>1, <1>3, RuleFacts, BoundFacts DEF Matching, NoLimit
<1>5. {e \in Matching(r) : e <= r.start} = {r.start}
  <2>1. \A e \in Matching(r) : e \in Nat /\ r.start <= e
    BY RuleFacts, BoundFacts DEF Matching, NoLimit
  <2> QED BY <1>4, <2>1, RuleFacts
<1>6. Cardinality({r.start}) = 1
  BY FS_Singleton
<1>7. r.count # NoLimit => 1 <= r.count
  BY RuleFacts
<1> QED BY <1>4, <1>5, <1>6, <1>7, DatesAre

\* What the generator has yielded before it looks at its n-th day.
Seen(r, n) == {Looked(r, k) : k \in {j \in 0 .. n - 1 : Hit(r, j)}}

\* One step of the generator yields the day it looks at, or nothing.
LEMMA SeenStep ==
  ASSUME NEW r \in Rules, NEW n \in Nat
  PROVE  /\ Seen(r, 0) = {}
         /\ \A d \in Seen(r, n) : d \in Nat /\ r.start <= d /\ d < Looked(r, n)
         /\ ~ Hit(r, n) => Seen(r, n + 1) = Seen(r, n)
         /\ Hit(r, n) => Seen(r, n + 1) = Seen(r, n) \cup {Looked(r, n)}
<1>1. Seen(r, 0) = {}
  BY DEF Seen
<1>2. ASSUME NEW d \in Seen(r, n)
      PROVE  d \in Nat /\ r.start <= d /\ d < Looked(r, n)
  <2>1. PICK k \in Nat : k < n /\ d = Looked(r, k)
    BY <1>2 DEF Seen
  <2> QED BY <2>1, LookedType, LookedOrdered, LookedAfterStart
<1>3. \A k \in Int : k \in 0 .. (n + 1) - 1 <=> k \in 0 .. n - 1 \/ k = n
  OBVIOUS
<1>4. {j \in 0 .. (n + 1) - 1 : Hit(r, j)}
        = {j \in 0 .. n - 1 : Hit(r, j)} \cup (IF Hit(r, n) THEN {n} ELSE {})
  BY <1>3
<1>5. Seen(r, n + 1) = {Looked(r, k) : k \in {j \in 0 .. (n + 1) - 1 : Hit(r, j)}}
  BY DEF Seen
<1>6. ~ Hit(r, n) => Seen(r, n + 1) = Seen(r, n)
  BY <1>4, <1>5 DEF Seen
<1>7. Hit(r, n) => Seen(r, n + 1) = Seen(r, n) \cup {Looked(r, n)}
  BY <1>4, <1>5 DEF Seen
<1> QED BY <1>1, <1>2, <1>6, <1>7

\* Up to the last day of a window, what has been yielded are the days of the
\* rule before the one looked at.
LEMMA SeenMatching ==
  ASSUME NEW r \in Rules, NEW n \in Nat, NEW d \in Matching(r), d <= LastDay
  PROVE  d < Looked(r, n) => d \in Seen(r, n)
<1>1. d \in r.start .. LastDay /\ Pattern(r, d)
  BY RuleFacts, BoundFacts DEF Matching, NoLimit
<1>2. PICK k \in Nat : Hit(r, k) /\ Looked(r, k) = d
  BY <1>1, MatchesHit
<1>3. d < Looked(r, n) => k < n
  <2> SUFFICES ASSUME n <= k, Looked(r, k) < Looked(r, n) PROVE FALSE
    BY <1>2
  <2>1. n = k \/ Looked(r, n) < Looked(r, k)
    BY LookedOrdered
  <2> QED BY <2>1, LookedType
<1> QED BY <1>2, <1>3 DEF Seen

\* ... and nothing else has been yielded.
LEMMA SeenMatches ==
  ASSUME NEW r \in Rules, NEW n \in Nat, NEW d \in Seen(r, n), d <= LastDay,
         r.end # NoLimit => d <= r.end
  PROVE  d \in Matching(r)
<1>1. PICK k \in Nat : Hit(r, k) /\ d = Looked(r, k)
  BY DEF Seen
<1>2. d \in Nat /\ r.start <= d /\ Pattern(r, d)
  BY <1>1, LookedType, LookedAfterStart, HitMatches
<1> QED BY <1>2, RuleFacts, BoundFacts DEF Matching, NoLimit

-----------------------------------------------------------------------------
(* The gap: when a month without the day is followed by one that has it *)

\* The months without a 31st; the first of them is February.
Short == {1, 3, 5, 8, 10}

LEMMA LengthOfMonth ==
  ASSUME NEW m \in Nat
  PROVE  /\ Length(m) \in 28 .. 31
         /\ m % 12 \notin Short <=> Length(m) = 31
         /\ m % 12 # 1 => Length(m) \in 30 .. 31
         /\ m % 12 = 1 => (Length(m) = 29 <=> (m \div 12) % 4 = 0) /\ Length(m) \in 28 .. 29
BY DEF Length, FirstOf, DaysBefore, Short

\* Months that are i apart: unless i is a whole number of years, or five or seven
\* months more, one of four that follow each other has a 31st.
LEMMA ShortRuns ==
  ASSUME NEW p \in Nat, NEW i \in Nat, i % 12 \notin {0, 5, 7}
  PROVE  \/ (p + i) % 12 \notin Short
         \/ (p + 2 * i) % 12 \notin Short
         \/ (p + 3 * i) % 12 \notin Short
         \/ (p + 4 * i) % 12 \notin Short
BY DEF Short

\* Of six months that are five apart, one has a 31st.
LEMMA FiveMonths ==
  ASSUME NEW p \in Nat
  PROVE  \/ (p + 5) % 12 \notin Short
         \/ (p + 10) % 12 \notin Short
         \/ (p + 15) % 12 \notin Short
         \/ (p + 20) % 12 \notin Short
         \/ (p + 25) % 12 \notin Short
         \/ (p + 30) % 12 \notin Short
BY DEF Short

\* Not both of two months that follow each other are Februaries.
LEMMA NoTwoFebruaries ==
  ASSUME NEW p \in Nat, NEW i \in Nat, i % 12 # 0
  PROVE  (p + i) % 12 # 1 \/ (p + 2 * i) % 12 # 1
OBVIOUS

\* A whole number of years later it is the same month.
LEMMA WholeYears ==
  ASSUME NEW s \in Nat, NEW y \in Nat, NEW k \in Nat
  PROVE  /\ (s + (12 * y) * k) % 12 = s % 12
         /\ (s + (12 * y) * k) \div 12 = (s \div 12) + y * k
<1>1. (12 * y) * k = 12 * (y * k) /\ y * k \in Nat
  OBVIOUS
<1>2. ASSUME NEW z \in Nat
      PROVE  (s + 12 * z) % 12 = s % 12 /\ (s + 12 * z) \div 12 = (s \div 12) + z
  OBVIOUS
<1> QED BY <1>1, <1>2

\* Four steps of whole years reach a leap year again.
LEMMA LeapYearWithin ==
  ASSUME NEW x \in Nat, x % 4 = 0, NEW y \in Nat, NEW k \in Nat
  PROVE  \E c \in 1 .. 4 : (x + y * (k + c)) % 4 = 0
<1>1. PICK c \in 1 .. 4 : (k + c) % 4 = 0
  OBVIOUS
<1>2. PICK t \in Nat : k + c = 4 * t
  BY <1>1, Divides
<1>3. y * (k + c) = 4 * (y * t) /\ y * t \in Nat
  BY <1>2
<1>4. \A z \in Nat : (x + 4 * z) % 4 = 0
  OBVIOUS
<1> QED BY <1>3, <1>4

\* The rules that Sparse is about.
Rare(r) ==
  /\ r.frequency = "monthly" /\ DayIn(r.start) = 30
  /\ r.interval > 5 /\ r.interval % 12 \in {5, 7}

\* After a month of the rule comes one that has the day, within the horizon.
LEMMA MonthWithin ==
  ASSUME NEW r \in Rules, r.frequency = "monthly", ~ Rare(r), NEW k \in Nat
  PROVE  \E c \in 1 .. 6 :
           /\ r.interval * c <= 4 * r.interval + 12
           /\ DayIn(r.start) < Length(MonthLooked(r, k + c))
<1> DEFINE i == r.interval
           d == DayIn(r.start)
           s == MonthOf[r.start]
           p == MonthLooked(r, k)
           Fits(c) == i * c <= 4 * i + 12 /\ d < Length(p + i * c)
<1>1. i \in Nat \ {0} /\ s \in Nat /\ d \in 0 .. 30 /\ d < Length(s)
  BY RuleFacts, StartOnCalendar, MonthOfDay, DayOfMonth
<1>2. p \in Nat /\ p = s + i * k
  BY LookedIs DEF MonthLooked
<1>3. \A c \in 1 .. 6 : i * c \in Nat /\ MonthLooked(r, k + c) = p + i * c /\ p + i * c \in Nat
  <2> SUFFICES ASSUME NEW c \in 1 .. 6
               PROVE  i * c \in Nat /\ MonthLooked(r, k + c) = p + i * c /\ p + i * c \in Nat
    OBVIOUS
  <2>1. MonthLooked(r, k + c) = s + i * (k + c)
    BY DEF MonthLooked
  <2> HIDE DEF i, s, p
  <2>2. i * (k + c) = i * k + i * c /\ i * k \in Nat /\ i * c \in Nat
    BY <1>1
  <2> QED BY <1>1, <1>2, <2>1, <2>2
<1>4. ~ (r.interval > 5 /\ r.interval % 12 \in {5, 7} /\ DayIn(r.start) = 30)
  BY DEF Rare
<1>5. ~ (i > 5 /\ i % 12 \in {5, 7} /\ d = 30)
  BY <1>4
<1> SUFFICES \E c \in 1 .. 6 : Fits(c)
  BY <1>3
<1> HIDE DEF i, d, s, p
<1>6. /\ i * 1 = i /\ i * 2 = 2 * i /\ i * 3 = 3 * i /\ i * 4 = 4 * i
      /\ i * 5 = 5 * i /\ i * 6 = 6 * i
  BY <1>1
<1>7. \A m \in Nat : Length(m) \in 28 .. 31
  BY LengthOfMonth
<1>8. CASE d <= 27
  <2>1. p + i * 1 \in Nat
    BY <1>3
  <2>2. d < Length(p + i * 1)
    BY <1>1, <1>7, <1>8, <2>1
  <2>3. Fits(1)
    BY <1>1, <1>6, <2>2
  <2> QED BY <2>3
<1>9. CASE d \in 28 .. 29 /\ i % 12 # 0
  <2>1. (p + i) % 12 # 1 \/ (p + 2 * i) % 12 # 1
    BY <1>1, <1>2, <1>9, NoTwoFebruaries
  <2>2. ASSUME NEW m \in Nat, m % 12 # 1 PROVE d < Length(m)
    BY <1>9, <2>2, LengthOfMonth
  <2>3. d < Length(p + i) \/ d < Length(p + 2 * i)
    BY <1>1, <1>2, <2>1, <2>2
  <2>4. Fits(1) \/ Fits(2)
    BY <1>1, <1>6, <2>3
  <2> QED BY <2>4
<1>10. CASE d \in 28 .. 30 /\ i % 12 = 0
  <2>1. PICK y \in Nat : i = 12 * y
    BY <1>1, <1>10, Divides
  <2>2. \A c \in 1 .. 6 : /\ (p + i * c) % 12 = s % 12
                          /\ (p + i * c) \div 12 = (s \div 12) + y * (k + c)
    <3> SUFFICES ASSUME NEW c \in 1 .. 6
                 PROVE  /\ (p + i * c) % 12 = s % 12
                        /\ (p + i * c) \div 12 = (s \div 12) + y * (k + c)
      OBVIOUS
    <3>1. p + i * c = s + i * (k + c)
      <4>1. i * (k + c) = i * k + i * c /\ i * k \in Nat /\ i * c \in Nat
        BY <1>1
      <4> QED BY <1>1, <1>2, <4>1
    <3>2. k + c \in Nat
      OBVIOUS
    <3> QED BY <1>1, <2>1, <3>1, <3>2, WholeYears
  <2>3. CASE s % 12 # 1
    <3>1. d = 30 => s % 12 \notin Short
      BY <1>1, LengthOfMonth
    <3>2. (p + i * 1) % 12 = s % 12 /\ p + i * 1 \in Nat
      BY <1>3, <2>2
    <3>3. d < Length(p + i * 1)
      BY <1>10, <2>3, <3>1, <3>2, LengthOfMonth
    <3> QED BY <1>1, <1>6, <3>3
  <2>4. CASE s % 12 = 1
    <3>1. Length(s) \in 28 .. 29 /\ (Length(s) = 29 <=> (s \div 12) % 4 = 0)
      BY <1>1, <2>4, LengthOfMonth
    <3>2. d = 28 /\ (s \div 12) % 4 = 0 /\ s \div 12 \in Nat
      BY <1>1, <1>10, <3>1
    <3>3. PICK c \in 1 .. 4 : ((s \div 12) + y * (k + c)) % 4 = 0
      BY <2>1, <3>2, LeapYearWithin
    <3>4. c \in 1 .. 6 /\ p + i * c \in Nat
      BY <1>3, <3>3
    <3>5. (p + i * c) % 12 = 1 /\ ((p + i * c) \div 12) % 4 = 0
      BY <2>2, <2>4, <3>3, <3>4
    <3>6. Length(p + i * c) = 29
      BY <3>4, <3>5, LengthOfMonth
    <3>7. i * c <= 4 * i + 12
      BY <1>1, <1>6, <3>3
    <3> QED BY <3>2, <3>4, <3>6, <3>7
  <2> QED BY <2>3, <2>4
<1>11. CASE d = 30 /\ i % 12 \in {5, 7}
  <2>1. i = 5
    BY <1>1, <1>5, <1>11
  <2>2. ASSUME NEW m \in Nat, m % 12 \notin Short PROVE d < Length(m)
    BY <1>11, <2>2, LengthOfMonth
  <2>3. \/ d < Length(p + i * 1) \/ d < Length(p + i * 2) \/ d < Length(p + i * 3)
        \/ d < Length(p + i * 4) \/ d < Length(p + i * 5) \/ d < Length(p + i * 6)
    BY <1>2, <2>1, <2>2, FiveMonths
  <2>4. \A c \in 1 .. 6 : i * c <= 4 * i + 12
    BY <2>1
  <2> QED BY <2>3, <2>4
<1>12. CASE d = 30 /\ i % 12 \notin {0, 5, 7}
  <2>1. ASSUME NEW m \in Nat, m % 12 \notin Short PROVE d < Length(m)
    BY <1>12, <2>1, LengthOfMonth
  <2>2. \/ (p + i) % 12 \notin Short \/ (p + 2 * i) % 12 \notin Short
        \/ (p + 3 * i) % 12 \notin Short \/ (p + 4 * i) % 12 \notin Short
    BY <1>1, <1>2, <1>12, ShortRuns
  <2>3. \/ d < Length(p + i) \/ d < Length(p + 2 * i)
        \/ d < Length(p + 3 * i) \/ d < Length(p + 4 * i)
    BY <1>1, <1>2, <2>1, <2>2
  <2>4. Fits(1) \/ Fits(2) \/ Fits(3) \/ Fits(4)
    BY <1>1, <1>6, <2>3
  <2> QED BY <2>4
<1> QED BY <1>1, <1>8, <1>9, <1>10, <1>11, <1>12

\* What _next_occurrence_horizon promises: after any day from the start on, a
\* rule that is not rare has a date within its gap.
LEMMA NextMatch ==
  ASSUME NEW r \in Rules, ~ Rare(r), NEW day \in Nat, r.start <= day, day + Gap(r) <= LastDay
  PROVE  \E e \in Nat : day < e /\ e <= day + Gap(r) /\ Pattern(r, e)
<1> DEFINE i == r.interval
<1>1. r.frequency \in Frequency /\ i \in Nat \ {0} /\ r.start \in Nat /\ day - r.start \in Nat
  BY RuleFacts
<1> SUFFICES \E n \in Nat : Hit(r, n) /\ day < Looked(r, n) /\ Looked(r, n) <= day + Gap(r)
  <2>1. PICK n \in Nat : Hit(r, n) /\ day < Looked(r, n) /\ Looked(r, n) <= day + Gap(r)
    OBVIOUS
  <2>2. Looked(r, n) \in Nat
    BY LookedType
  <2>3. Looked(r, n) <= LastDay
    BY <2>1, <2>2, GapFacts, BoundFacts
  <2> QED BY <2>1, <2>2, <2>3, HitMatches
<1>2. CASE r.frequency = "daily"
  <2> DEFINE q == (day - r.start) \div i
             x == (day - r.start) % i
  <2> HIDE DEF i
  <2>1. q \in Nat /\ x \in 0 .. i - 1 /\ day - r.start = i * q + x
    BY <1>1, Euclid
  <2> HIDE DEF q, x
  <2>2. i * q \in Nat /\ i * (q + 1) = i * q + i
    BY <1>1, <2>1
  <2>3. Looked(r, q + 1) = r.start + i * (q + 1)
    BY <1>2, <2>1, LookedIs DEF i
  <2>4. Gap(r) = i
    BY <1>2 DEF Gap, i
  <2>5. Hit(r, q + 1)
    BY <1>2 DEF Hit
  <2>6. day < Looked(r, q + 1) /\ Looked(r, q + 1) <= day + Gap(r)
    BY <1>1, <2>1, <2>2, <2>3, <2>4
  <2> QED BY <2>1, <2>5, <2>6
<1>3. CASE r.frequency = "weekly"
  <2> DEFINE g == 7 * i
             q == (day - r.start) \div g
             x == (day - r.start) % g
             n == 7 * (q + 1)
  <2>1. g \in Nat \ {0}
    BY <1>1
  <2> HIDE DEF i, g
  <2>2. q \in Nat /\ x \in 0 .. g - 1 /\ day - r.start = g * q + x
    BY <1>1, <2>1, Euclid
  <2> HIDE DEF q, x
  <2>3. n \in Nat /\ n \div 7 = q + 1 /\ n % 7 = 0
    BY <2>2
  <2> HIDE DEF n
  <2>4. Looked(r, n) = r.start + 7 * (i * (q + 1))
    <3>1. Looked(r, n) = r.start + 7 * (i * (q + 1)) + 0
      BY <1>3, <2>3, LookedIs DEF i
    <3>2. i * (q + 1) \in Nat
      BY <1>1, <2>2
    <3> QED BY <1>1, <3>1, <3>2
  <2>5. 7 * (i * (q + 1)) = g * q + g /\ g * q \in Nat /\ i * (q + 1) \in Nat
    BY <1>1, <2>2 DEF g
  <2>6. Gap(r) = g
    BY <1>3 DEF Gap, i, g
  <2>7. Weekday(Looked(r, n)) = Weekday(r.start)
    <3>1. \A z \in Nat : (r.start + 7 * z) % 7 = r.start % 7
      BY <1>1
    <3> QED BY <2>4, <2>5, <3>1 DEF Weekday
  <2>8. Hit(r, n)
    BY <1>3, <2>7, RuleFacts DEF Hit
  <2>9. day < Looked(r, n) /\ Looked(r, n) <= day + Gap(r)
    BY <1>1, <2>1, <2>2, <2>4, <2>5, <2>6
  <2> QED BY <2>3, <2>8, <2>9
<1>4. CASE r.frequency = "monthly"
  <2> DEFINE d == DayIn(r.start)
             s == MonthOf[r.start]
             Beyond == {n \in Nat : day < Looked(r, n)}
  <2>1. d \in 0 .. 30 /\ s \in Nat
    BY StartOnCalendar, MonthOfDay, DayOfMonth
  <2>2. PICK n \in Beyond : \A k \in Beyond : n <= k
    <3>1. MonthLooked(r, day + 1) \in Nat /\ MonthLooked(r, day + 1) >= day + 1
      <4>1. i * (day + 1) >= day + 1 /\ i * (day + 1) \in Nat
        BY <1>1
      <4> QED BY <2>1, <4>1 DEF MonthLooked
    <3>2. /\ FirstOf(MonthLooked(r, day + 1)) >= 28 * (day + 1)
          /\ FirstOf(MonthLooked(r, day + 1)) \in Nat
      BY <3>1, MonthLengths
    <3>3. Looked(r, day + 1) = FirstOf(MonthLooked(r, day + 1)) + d
      BY <1>4, LookedIs
    <3>4. day < Looked(r, day + 1)
      BY <2>1, <3>2, <3>3
    <3>5. Beyond \in SUBSET Nat /\ Beyond # {}
      BY <3>4
    <3> QED BY <3>5, LeastNumber
  <2>3. n # 0
    BY <2>2, LookedFirst, <1>1
  <2> DEFINE k == n - 1
             p == MonthLooked(r, k)
  <2>4. k \in Nat /\ k + 1 = n /\ k \notin Beyond
    BY <2>2, <2>3
  <2> HIDE DEF k
  <2>5. p \in Nat /\ FirstOf(p) \in Nat /\ Looked(r, k) = FirstOf(p) + d
    BY <1>4, <2>4, LookedIs, MonthLengths
  <2>6. FirstOf(p) + d <= day
    BY <2>4, <2>5, <2>1
  <2>7. PICK c \in 1 .. 6 : i * c <= 4 * i + 12 /\ d < Length(MonthLooked(r, k + c))
    BY <1>4, <2>4, MonthWithin
  <2>8. i * c \in Nat \ {0} /\ MonthLooked(r, k + c) = p + i * c
    <3>1. p = s + i * k /\ MonthLooked(r, k + c) = s + i * (k + c)
      BY DEF MonthLooked
    <3> HIDE DEF p, i, s
    <3>2. i * (k + c) = i * k + i * c /\ i * k \in Nat /\ i * c \in Nat \ {0}
      BY <1>1, <2>4
    <3> QED BY <2>1, <3>1, <3>2
  <2>9. FirstOf(p + i * c) <= FirstOf(p) + 31 * (i * c)
    BY <2>5, <2>8, MonthSpan
  <2>10. Looked(r, k + c) = FirstOf(p + i * c) + d /\ FirstOf(p + i * c) \in Nat
    BY <1>4, <2>4, <2>5, <2>8, LookedIs, MonthLengths
  <2>11. Gap(r) = 31 * (4 * i + 12)
    BY <1>4 DEF Gap
  <2>12. Hit(r, k + c)
    BY <1>4, <2>7 DEF Hit
  <2>13. Looked(r, k + c) <= day + Gap(r)
    <3> HIDE DEF i, p, d
    <3>1. 31 * (i * c) <= Gap(r)
      BY <1>1, <2>7, <2>8, <2>11
    <3> QED BY <1>1, <2>1, <2>5, <2>6, <2>8, <2>9, <2>10, <2>11, <3>1
  <2>14. day < Looked(r, k + c)
    <3>1. day < Looked(r, n) /\ Looked(r, n) \in Nat /\ Looked(r, k + c) \in Nat /\ n <= k + c
      BY <2>2, <2>4, LookedType
    <3>2. n = k + c \/ Looked(r, n) < Looked(r, k + c)
      BY <2>4, <3>1, LookedOrdered
    <3> QED BY <3>1, <3>2
  <2> QED BY <2>4, <2>12, <2>13, <2>14
<1> QED BY <1>1, <1>2, <1>3, <1>4 DEF Frequency

-----------------------------------------------------------------------------
(* The inductive invariant of the search *)

\* What stays as it began.
InputsInv ==
  /\ rule \in Rules
  /\ clock.shift \in {-1, 0, 1} /\ clock.at \in Int
  /\ now \in Int
  /\ excluded \cup DOMAIN meetings \subseteq FirstOccurrences[rule]
  /\ \A m \in DOMAIN meetings : meetings[m].at \in Int

\* A window is as long as the horizon, and not beyond the calendar.
WindowInv ==
  /\ window.from \in Int /\ window.to \in Int
  /\ Wall(now) <= window.from
  /\ window.to <= At(LastDay)
  /\ \E last \in {window.from - 1, window.from} :
       last + Units * Horizon(DayOf(last)) - 1 <= window.to

\* The generator has yielded the days before the one it looks at, none of them
\* beyond the end, the count or the window; of these, those that are not
\* before the window have been found.
GeneratorInv ==
  /\ phase \in {"expanding", "choosing", "done"}
  /\ index \in Nat /\ found \in Seq(Int)
  /\ \A d \in Seen(rule, index) :
       At(d) <= window.to /\ (rule.end # NoLimit => d <= rule.end)
  /\ IsFiniteSet(Seen(rule, index)) /\ emitted = Cardinality(Seen(rule, index))
  /\ emitted <= index
  /\ rule.count # NoLimit => emitted <= rule.count
  /\ ToSet(found) = {At(d) : d \in {e \in Seen(rule, index) : At(e) >= window.from}}
  /\ \A m, n \in 1 .. Len(found) : m < n => found[m] < found[n]
  /\ phase # "expanding" => Exhausted

\* What the search has left behind has an exclusion or a Meeting.
PassedInv == \A o \in Occurrences : Wall(now) <= o /\ o < window.from => Absent(o)

AnswerInv == result \in Int /\ NextExact

SearchInv == InputsInv /\ WindowInv /\ GeneratorInv /\ PassedInv /\ AnswerInv

-----------------------------------------------------------------------------
(* The clocks, and the earliest of a set of times *)

LEMMA LargerOf ==
  ASSUME NEW a \in Int, NEW b \in Int
  PROVE  Max({a, b}) = IF a >= b THEN a ELSE b
<1>1. \E x \in {a, b} : \A y \in {a, b} : x >= y
  BY DEF Max
<1>2. Max({a, b}) \in {a, b} /\ \A y \in {a, b} : Max({a, b}) >= y
  BY <1>1 DEF Max
<1> QED BY <1>2

LEMMA MinIs ==
  ASSUME NEW S \in SUBSET Int, NEW x \in S, \A y \in S : x <= y
  PROVE  Min(S) = x
<1>1. \A z \in S : (\A y \in S : z <= y) => z = x
  <2> SUFFICES ASSUME NEW z \in S, \A y \in S : z <= y PROVE z = x
    OBVIOUS
  <2>1. z <= x /\ x <= z /\ z \in Int /\ x \in Int
    OBVIOUS
  <2> QED BY <2>1
<1>2. \E z \in S : \A y \in S : z <= y
  OBVIOUS
<1>3. Min(S) \in S /\ \A y \in S : Min(S) <= y
  BY <1>2 DEF Min
<1> QED BY <1>1, <1>3

\* Times that are bounded below have an earliest.
LEMMA MinOf ==
  ASSUME NEW S \in SUBSET Int, NEW low \in Int, \A y \in S : low <= y, S # {}
  PROVE  Min(S) \in S /\ \A y \in S : Min(S) <= y
<1> DEFINE N == {y - low : y \in S}
<1>1. N \in SUBSET Nat /\ N # {}
  <2>1. \A y \in S : y - low \in Nat
    OBVIOUS
  <2> QED BY <2>1
<1>2. PICK n \in N : \A k \in N : n <= k
  BY <1>1, LeastNumber
<1>3. PICK x \in S : n = x - low
  BY <1>2
<1>4. \A y \in S : x <= y
  <2> SUFFICES ASSUME NEW y \in S PROVE x <= y
    OBVIOUS
  <2>1. n <= y - low
    BY <1>2
  <2> QED BY <1>3, <2>1
<1> QED BY <1>4, MinIs

\* Numbers that are bounded have a largest.
LEMMA LastOf ==
  ASSUME NEW S \in SUBSET Nat, NEW top \in Nat, \A y \in S : y <= top, S # {}
  PROVE  Max(S) \in S
<1> DEFINE N == {n \in Nat : \A y \in S : y <= n}
<1>1. PICK n \in N : \A k \in N : n <= k
  <2>1. top \in N
    OBVIOUS
  <2>2. N \in SUBSET Nat /\ N # {}
    BY <2>1
  <2> QED BY <2>2, LeastNumber
<1>2. n \in S
  <2> SUFFICES ASSUME n \notin S PROVE FALSE
    OBVIOUS
  <2>1. ASSUME NEW y \in S PROVE y <= n - 1 /\ n # 0
    <3>1. y <= n /\ y # n /\ y \in Nat /\ n \in Nat
      BY <1>1
    <3> QED BY <3>1
  <2>2. n - 1 \in N
    <3>1. PICK y \in S : TRUE
      OBVIOUS
    <3>2. n \in Nat /\ n # 0
      BY <1>1, <2>1, <3>1
    <3>3. n - 1 \in Nat
      BY <3>2
    <3> QED BY <2>1, <3>3
  <2> QED BY <1>1, <2>2
<1>3. \E x \in S : \A y \in S : x >= y
  BY <1>1, <1>2
<1> QED BY <1>3 DEF Max

LEMMA InstantIs ==
  ASSUME clock.shift \in {-1, 0, 1}, clock.at \in Int, NEW o \in Int
  PROVE  Instant(o) = IF o < clock.at + (IF clock.shift = 1 THEN 1 ELSE 0)
                      THEN o ELSE o - clock.shift
<1>1. Max({clock.shift, 0}) = IF clock.shift = 1 THEN 1 ELSE 0
  BY LargerOf
<1> QED BY <1>1 DEF Instant

\* The clocks never turn the order of two times around, and an occurrence that is
\* not past on the wall is not past as an instant, unless the clocks change at it.
LEMMA ClockFacts ==
  ASSUME InputsInv
  PROVE  /\ Wall(now) \in Int /\ Wall(now) \in now - 1 .. now + 1
         /\ \A o \in Int : Instant(o) \in Int
         /\ \A o, p \in Int : o <= p => Instant(o) <= Instant(p)
         /\ \A o \in Int : Wall(now) <= o /\ ~ Skewed(o) => now <= Instant(o)
<1>1. /\ clock.shift \in {-1, 0, 1} /\ clock.at \in Int /\ now \in Int
  BY DEF InputsInv
<1>2. Wall(now) \in Int /\ Wall(now) \in now - 1 .. now + 1
  BY <1>1 DEF Wall
<1>3. ASSUME NEW o \in Int PROVE Instant(o) \in Int
  BY <1>1, InstantIs
<1>4. ASSUME NEW o \in Int, NEW p \in Int, o <= p PROVE Instant(o) <= Instant(p)
  BY <1>1, <1>4, InstantIs
<1>5. ASSUME NEW o \in Int, Wall(now) <= o, ~ Skewed(o) PROVE now <= Instant(o)
  BY <1>1, <1>5, InstantIs DEF Wall, Skewed
<1> QED BY <1>2, <1>3, <1>4, <1>5

\* The horizon is a day longer than the gap, and reaches the first occurrence.
LEMMA HorizonIs ==
  ASSUME rule \in Rules, NEW day \in Int
  PROVE  /\ Horizon(day) \in Int
         /\ Gap(rule) + 1 <= Horizon(day)
         /\ rule.start - day + 2 <= Horizon(day)
         /\ Horizon(day) \in {Gap(rule) + 1, rule.start - day + 2}
<1>1. Gap(rule) \in Int /\ rule.start - day + 1 \in Int
  BY GapFacts, RuleFacts
<1>2. Max({Gap(rule), rule.start - day + 1}) \in {Gap(rule), rule.start - day + 1}
      /\ Max({Gap(rule), rule.start - day + 1}) >= Gap(rule)
      /\ Max({Gap(rule), rule.start - day + 1}) >= rule.start - day + 1
  BY <1>1, LargerOf
<1> DEFINE h == Max({Gap(rule), rule.start - day + 1})
<1>3. Horizon(day) = h + 1
  BY DEF Horizon
<1> HIDE DEF h
<1>4. h \in {Gap(rule), rule.start - day + 1} /\ h >= Gap(rule) /\ h >= rule.start - day + 1
  BY <1>2 DEF h
<1> QED BY <1>1, <1>3, <1>4, RuleFacts

LEMMA Looking ==
  ASSUME rule \in Rules, index \in Nat
  PROVE  /\ Candidate = Looked(rule, index)
         /\ Yielded <=> Hit(rule, index)
         /\ Candidate \in Nat
<1>1. MonthAt = MonthLooked(rule, index)
  BY DEF MonthAt, MonthLooked
<1>2. Candidate = Looked(rule, index)
  BY <1>1 DEF Candidate, Looked
<1>3. Yielded <=> Hit(rule, index)
  BY <1>1, <1>2 DEF Yielded, Hit
<1> QED BY <1>2, <1>3, LookedType

LEMMA DayOfAt ==
  /\ \A day \in Int : At(day) \in Int /\ DayOf(At(day)) = day
  /\ \A d, e \in Int : d < e <=> At(d) < At(e)
  /\ \A time \in Int : DayOf(time) \in Int /\ time \in 4 * DayOf(time) .. 4 * DayOf(time) + 3
BY DEF At, DayOf, Units, LocalTime

-----------------------------------------------------------------------------
(* An expansion is exact *)

LEMMA OccurrencesAre ==
  ASSUME rule \in Rules
  PROVE  Occurrences = {At(day) : day \in Dates(rule)}
BY DEF Occurrences, Calendar

\* What has been yielded lies on the calendar and has the pattern of the rule.
LEMMA SeenInWindow ==
  ASSUME InputsInv, WindowInv, GeneratorInv, NEW d \in Seen(rule, index)
  PROVE  d \in Nat /\ d <= LastDay /\ d \in Matching(rule)
<1>1. d \in Nat
  BY SeenStep DEF InputsInv, GeneratorInv
<1>2. At(d) <= At(LastDay)
  <2>1. At(d) <= window.to /\ window.to <= At(LastDay) /\ window.to \in Int
    BY DEF WindowInv, GeneratorInv
  <2>2. At(d) \in Int /\ At(LastDay) \in Int
    BY <1>1, DayOfAt, BoundFacts
  <2> QED BY <2>1, <2>2
<1>3. d <= LastDay
  BY <1>1, <1>2, BoundFacts DEF At, Units, LocalTime
<1>4. d \in Matching(rule)
  BY <1>3, SeenMatches DEF InputsInv, GeneratorInv
<1> QED BY <1>1, <1>3, <1>4

\* The count of the rule covers what has been yielded.
LEMMA SeenAreDates ==
  ASSUME InputsInv, WindowInv, GeneratorInv, NEW d \in Seen(rule, index)
  PROVE  d \in Dates(rule)
<1> DEFINE Upto == {e \in Matching(rule) : e <= d}
<1>1. rule \in Rules /\ d \in Nat /\ d <= LastDay /\ d \in Matching(rule)
  BY SeenInWindow DEF InputsInv
<1>2. d < Looked(rule, index) /\ Looked(rule, index) \in Nat
  BY <1>1, SeenStep, LookedType DEF GeneratorInv
<1>3. Upto \subseteq Seen(rule, index)
  <2> SUFFICES ASSUME NEW e \in Matching(rule), e <= d PROVE e \in Seen(rule, index)
    OBVIOUS
  <2>1. e \in Nat
    BY <1>1, MatchingType
  <2>2. e <= LastDay /\ e < Looked(rule, index)
    BY <1>1, <1>2, <2>1, BoundFacts
  <2> QED BY <1>1, <2>2, SeenMatching DEF GeneratorInv
<1> HIDE DEF Upto
<1>4. Cardinality(Upto) <= emitted
  BY <1>3, FS_Subset DEF GeneratorInv
<1>5. Cardinality(Upto) \in Nat /\ emitted \in Nat
  <2>1. Upto \in SUBSET Matching(rule)
    BY DEF Upto
  <2> QED BY <1>1, <2>1, MatchingType, FS_CardinalityType DEF GeneratorInv
<1>6. rule.count # NoLimit => Cardinality(Upto) <= rule.count
  <2>1. rule.count # NoLimit => emitted <= rule.count /\ rule.count \in Nat
    BY <1>1, RuleFacts DEF GeneratorInv
  <2> QED BY <1>4, <1>5, <2>1
<1> QED BY <1>1, <1>6, DatesAre DEF Upto

\* When the generator stops, no later date is in the window.
LEMMA NoneLeft ==
  ASSUME InputsInv, WindowInv, GeneratorInv, Exhausted,
         NEW d \in Dates(rule), At(d) <= window.to
  PROVE  d \in Seen(rule, index)
<1>1. rule \in Rules /\ index \in Nat /\ window.to \in Int
  BY DEF InputsInv, GeneratorInv, WindowInv
<1>2. d \in Matching(rule) /\ d \in Nat
  BY <1>1, DatesAre, MatchingType
<1>3. Looked(rule, index) \in Nat
  BY <1>1, LookedType
<1>4. d <= LastDay
  <2>1. At(d) <= At(LastDay)
    <3>1. At(d) \in Int /\ At(LastDay) \in Int /\ window.to <= At(LastDay)
      BY <1>2, DayOfAt, BoundFacts DEF WindowInv
    <3> QED BY <1>1, <3>1
  <2> QED BY <1>2, <2>1, BoundFacts DEF At, Units, LocalTime
<1> SUFFICES ASSUME d \notin Seen(rule, index) PROVE FALSE
  OBVIOUS
<1>5. Looked(rule, index) <= d
  BY <1>1, <1>2, <1>3, <1>4, SeenMatching
<1>6. CASE Ended
  <2>1. rule.end # NoLimit /\ Looked(rule, index) > rule.end
    BY <1>1, <1>6, Looking DEF Ended
  <2>2. d <= rule.end /\ rule.end \in Nat
    BY <1>1, <2>1, <1>2, RuleFacts DEF Matching
  <2> QED BY <1>2, <1>3, <1>5, <2>1, <2>2
<1>7. CASE At(Candidate) > window.to
  <2>1. At(Looked(rule, index)) > window.to
    BY <1>1, <1>7, Looking
  <2>2. At(Looked(rule, index)) <= At(d) /\ At(d) \in Int /\ At(Looked(rule, index)) \in Int
    BY <1>2, <1>3, <1>5 DEF At, Units, LocalTime
  <2> QED BY <1>1, <2>1, <2>2
<1>8. CASE emitted = rule.count
  <2> DEFINE Upto == {e \in Matching(rule) : e <= d}
  <2>1. rule.count \in Nat /\ emitted \in Nat
    <3>1. emitted \in Nat
      BY FS_CardinalityType DEF GeneratorInv
    <3> QED BY <1>8, <3>1
  <2>2. Seen(rule, index) \cup {d} \subseteq Upto
    <3>1. ASSUME NEW e \in Seen(rule, index) PROVE e \in Matching(rule) /\ e <= d
      <4>1. e \in Matching(rule) /\ e \in Nat /\ e < Looked(rule, index)
        BY <1>1, <3>1, SeenInWindow, SeenStep
      <4> QED BY <1>2, <1>3, <1>5, <4>1
    <3>2. d \in Upto
      BY <1>2
    <3> QED BY <3>1, <3>2
  <2>3. Cardinality(Upto) <= rule.count
    BY <1>1, <2>1, DatesAre DEF NoLimit
  <2>4. Upto \in SUBSET Matching(rule)
    OBVIOUS
  <2> HIDE DEF Upto
  <2>5. Cardinality(Seen(rule, index) \cup {d}) = emitted + 1
    BY FS_AddElement DEF GeneratorInv
  <2>6. IsFiniteSet(Upto) /\ Cardinality(Upto) \in Nat
    BY <1>1, <2>4, MatchingType
  <2>7. Cardinality(Seen(rule, index) \cup {d}) <= Cardinality(Upto)
    BY <2>2, <2>6, FS_Subset
  <2> QED BY <1>8, <2>1, <2>3, <2>5, <2>6, <2>7
<1> QED BY <1>6, <1>7, <1>8 DEF Exhausted

\* What an expansion finds is what the rule has in the window, no more, no less.
LEMMA WindowExact ==
  ASSUME InputsInv, WindowInv, GeneratorInv, Exhausted
  PROVE  ToSet(found) = {o \in Occurrences : window.from <= o /\ o <= window.to}
<1>1. rule \in Rules /\ window.from \in Int /\ window.to \in Int
  BY DEF InputsInv, WindowInv
<1>2. ToSet(found) = {At(d) : d \in {e \in Seen(rule, index) : At(e) >= window.from}}
  BY DEF GeneratorInv
<1>3. ASSUME NEW d \in Seen(rule, index), At(d) >= window.from
      PROVE  At(d) \in Occurrences /\ window.from <= At(d) /\ At(d) <= window.to
  <2>1. d \in Dates(rule) /\ d \in Nat
    BY <1>3, SeenAreDates, SeenInWindow
  <2>2. At(d) <= window.to
    BY <1>3 DEF GeneratorInv
  <2>3. At(d) \in Int
    BY <2>1, DayOfAt
  <2> QED BY <1>1, <1>3, <2>1, <2>2, <2>3, OccurrencesAre
<1>4. ASSUME NEW o \in Occurrences, window.from <= o, o <= window.to
      PROVE  o \in ToSet(found)
  <2>1. PICK d \in Dates(rule) : o = At(d)
    BY <1>1, <1>4, OccurrencesAre
  <2>2. d \in Seen(rule, index)
    BY <1>4, <2>1, NoneLeft
  <2>3. At(d) \in Int
    <3>1. d \in Nat
      BY <1>1, <2>1, DatesAre, MatchingType
    <3> QED BY <3>1, DayOfAt
  <2> QED BY <1>1, <1>2, <1>4, <2>1, <2>2, <2>3
<1> QED BY <1>2, <1>3, <1>4

LEMMA WindowNotEmpty ==
  ASSUME InputsInv, WindowInv
  PROVE  window.from <= window.to
<1>1. PICK last \in {window.from - 1, window.from} :
        last + Units * Horizon(DayOf(last)) - 1 <= window.to
  BY DEF WindowInv
<1>2. last \in Int /\ DayOf(last) \in Int
  BY DayOfAt DEF WindowInv
<1>3. Horizon(DayOf(last)) \in Int /\ Horizon(DayOf(last)) >= 2
  BY <1>2, HorizonIs, GapFacts DEF InputsInv
<1> QED BY <1>1, <1>2, <1>3 DEF WindowInv, Units

\* With that, the invariant implies ExpansionExact.
LEMMA ExactInv ==
  ASSUME SearchInv
  PROVE  ExpansionExact
<1>1. emitted \in Nat
  BY FS_CardinalityType DEF SearchInv, GeneratorInv
<1>2. SearchTypeOK
  BY <1>1, WindowNotEmpty DEF SearchInv, InputsInv, GeneratorInv, AnswerInv, SearchTypeOK
<1>3. phase = "choosing" => Exhausted
  BY DEF SearchInv, GeneratorInv
<1>4. \A n \in 2 .. Len(found) : found[n - 1] < found[n]
  <2> SUFFICES ASSUME NEW n \in 2 .. Len(found) PROVE found[n - 1] < found[n]
    OBVIOUS
  <2>1. Len(found) \in Nat
    BY DEF SearchInv, GeneratorInv
  <2>2. n - 1 \in 1 .. Len(found) /\ n \in 1 .. Len(found) /\ n - 1 < n
    BY <2>1
  <2> QED BY <2>2 DEF SearchInv, GeneratorInv
<1> QED BY <1>2, <1>3, <1>4, WindowExact DEF SearchInv, ExpansionExact

-----------------------------------------------------------------------------
(* The steps of the generator *)

LEMMA InputsStay ==
  ASSUME InputsInv, UNCHANGED inputs
  PROVE  /\ InputsInv'
         /\ Wall(now)' = Wall(now)
         /\ Occurrences' = Occurrences
         /\ \A o : Absent(o)' <=> Absent(o)
BY DEF InputsInv, inputs, Wall, Occurrences, Absent, Skewed, Instant

LEMMA WindowStays ==
  ASSUME SearchInv, UNCHANGED <<inputs, window>>
  PROVE  InputsInv' /\ WindowInv' /\ PassedInv'
<1>1. /\ InputsInv' /\ Wall(now)' = Wall(now) /\ Occurrences' = Occurrences
      /\ \A o : Absent(o)' <=> Absent(o)
  BY InputsStay DEF SearchInv
<1>2. WindowInv'
  BY <1>1 DEF SearchInv, WindowInv, Horizon, inputs
<1>3. PassedInv'
  BY <1>1 DEF SearchInv, PassedInv
<1> QED BY <1>1, <1>2, <1>3

LEMMA SeenNext ==
  ASSUME rule \in Rules, index \in Nat, index' = index + 1, rule' = rule
  PROVE  /\ Seen(rule, index)' = Seen(rule, index + 1)
         /\ index' \in Nat
BY DEF Seen

\* A date that was not seen before, and none of those seen.
LEMMA NotExhausted ==
  ASSUME SearchInv, ~ Exhausted, Yielded
  PROVE  /\ At(Candidate) <= window.to
         /\ rule.end # NoLimit => Candidate <= rule.end
         /\ rule.count # NoLimit => emitted + 1 <= rule.count
<1>1. rule \in Rules /\ index \in Nat /\ window.to \in Int /\ emitted \in Nat
  BY FS_CardinalityType DEF SearchInv, InputsInv, GeneratorInv, WindowInv
<1>2. Candidate \in Nat /\ At(Candidate) \in Int
  BY <1>1, Looking, DayOfAt
<1>3. At(Candidate) <= window.to
  BY <1>1, <1>2 DEF Exhausted
<1>4. rule.end # NoLimit => Candidate <= rule.end
  BY <1>1, <1>2, RuleFacts DEF Exhausted, Ended
<1>5. rule.count # NoLimit => emitted + 1 <= rule.count
  <2>1. emitted # rule.count /\ (rule.count # NoLimit => emitted <= rule.count)
    BY DEF SearchInv, GeneratorInv, Exhausted
  <2>2. rule.count # NoLimit => rule.count \in Nat
    BY <1>1, RuleFacts
  <2> QED BY <1>1, <2>1, <2>2
<1> QED BY <1>3, <1>4, <1>5

LEMMA SkipInv ==
  ASSUME SearchInv, Skip
  PROVE  SearchInv'
<1>1. /\ phase = "expanding" /\ ~ Exhausted /\ ~ Yielded /\ index' = index + 1
      /\ UNCHANGED <<inputs, phase, window, emitted, found, result>>
  BY DEF Skip
<1>2. rule \in Rules /\ index \in Nat /\ rule' = rule /\ window' = window
  BY <1>1 DEF SearchInv, InputsInv, GeneratorInv, inputs
<1>3. Seen(rule, index)' = Seen(rule, index) /\ index' \in Nat
  <2>1. Seen(rule, index + 1) = Seen(rule, index)
    BY <1>1, <1>2, Looking, SeenStep
  <2> QED BY <1>1, <1>2, <2>1, SeenNext
<1>4. InputsInv' /\ WindowInv' /\ PassedInv'
  BY <1>1, WindowStays
<1>5. GeneratorInv'
  <2>1. emitted \in Nat
    BY FS_CardinalityType DEF SearchInv, GeneratorInv
  <2>2. emitted' <= index'
    BY <1>1, <1>2, <2>1 DEF SearchInv, GeneratorInv
  <2> QED BY <1>1, <1>2, <1>3, <2>2 DEF SearchInv, GeneratorInv
<1>6. AnswerInv'
  BY <1>1 DEF SearchInv, AnswerInv, NextExact
<1> QED BY <1>4, <1>5, <1>6 DEF SearchInv

LEMMA TakeInv ==
  ASSUME SearchInv, Take
  PROVE  SearchInv'
<1> DEFINE day == Candidate
           S == Seen(rule, index)
           add == At(day) >= window.from
<1>1. /\ phase = "expanding" /\ ~ Exhausted /\ Yielded /\ index' = index + 1
      /\ emitted' = emitted + 1
      /\ found' = IF add THEN Append(found, At(day)) ELSE found
      /\ UNCHANGED <<inputs, phase, window, result>>
  BY DEF Take
<1>2. rule \in Rules /\ index \in Nat /\ rule' = rule /\ window' = window
  BY <1>1 DEF SearchInv, InputsInv, GeneratorInv, inputs
<1>3. day = Looked(rule, index) /\ day \in Nat /\ At(day) \in Int
  BY <1>2, Looking, DayOfAt
<1>4. Seen(rule, index)' = S \cup {day} /\ index' \in Nat
  <2>1. Seen(rule, index + 1) = S \cup {day}
    BY <1>1, <1>2, <1>3, Looking, SeenStep
  <2> QED BY <1>1, <1>2, <2>1, SeenNext
<1>5. \A d \in S : d \in Nat /\ d < day /\ At(d) \in Int /\ At(d) < At(day)
  BY <1>2, <1>3, SeenStep, DayOfAt
<1>6. /\ At(day) <= window.to
      /\ rule.end # NoLimit => day <= rule.end
      /\ rule.count # NoLimit => emitted + 1 <= rule.count
  BY <1>1, NotExhausted
<1>7. InputsInv' /\ WindowInv' /\ PassedInv'
  BY <1>1, WindowStays
<1>8. /\ IsFiniteSet(S) /\ emitted = Cardinality(S) /\ emitted \in Nat /\ emitted <= index
      /\ found \in Seq(Int) /\ window.from \in Int
      /\ ToSet(found) = {At(d) : d \in {e \in S : At(e) >= window.from}}
      /\ \A m, n \in 1 .. Len(found) : m < n => found[m] < found[n]
      /\ \A d \in S : At(d) <= window.to /\ (rule.end # NoLimit => d <= rule.end)
  BY FS_CardinalityType DEF SearchInv, GeneratorInv, WindowInv
<1> HIDE DEF day, S
<1>9. IsFiniteSet(S \cup {day}) /\ emitted' = Cardinality(S \cup {day})
  <2>1. day \notin S
    BY <1>3, <1>5
  <2> QED BY <1>1, <1>8, <2>1, FS_AddElement
<1>10. /\ found' \in Seq(Int)
       /\ ToSet(found') = {At(d) : d \in {e \in S \cup {day} : At(e) >= window.from}}
       /\ \A m, n \in 1 .. Len(found') : m < n => found'[m] < found'[n]
  <2>1. CASE add
    <3>1. found' = Append(found, At(day)) /\ found' \in Seq(Int) /\ Len(found') = Len(found) + 1
      BY <1>1, <1>3, <1>8, <2>1
    <3>2. Len(found) \in Nat /\ DOMAIN found' = 1 .. Len(found) + 1 /\ DOMAIN found = 1 .. Len(found)
      BY <1>3, <1>8, <3>1
    <3>3. /\ \A n \in 1 .. Len(found) : found'[n] = found[n]
          /\ found'[Len(found) + 1] = At(day)
      BY <1>3, <1>8, <3>1
    <3>4. ToSet(found') = ToSet(found) \cup {At(day)}
      <4>1. ToSet(found') = {found'[n] : n \in 1 .. Len(found) + 1}
        BY <3>2 DEF ToSet
      <4>2. ToSet(found) = {found[n] : n \in 1 .. Len(found)}
        BY <3>2 DEF ToSet
      <4>3. \A n \in Int : n \in 1 .. Len(found) + 1 <=> n \in 1 .. Len(found) \/ n = Len(found) + 1
        BY <3>2
      <4>4. \A x : x \in ToSet(found') <=> x \in ToSet(found) \/ x = At(day)
        <5> SUFFICES ASSUME NEW x PROVE x \in ToSet(found') <=> x \in ToSet(found) \/ x = At(day)
          OBVIOUS
        <5>1. ASSUME x \in ToSet(found') PROVE x \in ToSet(found) \/ x = At(day)
          BY <3>2, <3>3, <4>1, <4>2, <4>3, <5>1
        <5>2. ASSUME x \in ToSet(found) PROVE x \in ToSet(found')
          BY <3>2, <3>3, <4>1, <4>2, <4>3, <5>2
        <5>3. At(day) \in ToSet(found')
          BY <3>2, <3>3, <4>1
        <5> QED BY <5>1, <5>2, <5>3
      <4> QED BY <4>4
    <3>5. ToSet(found') = {At(d) : d \in {e \in S \cup {day} : At(e) >= window.from}}
      BY <1>8, <2>1, <3>4
    <3>6. ASSUME NEW m \in 1 .. Len(found'), NEW n \in 1 .. Len(found'), m < n
          PROVE  found'[m] < found'[n]
      <4>1. m \in 1 .. Len(found) /\ found'[m] = found[m]
        BY <3>1, <3>2, <3>3, <3>6
      <4>2. CASE n <= Len(found)
        BY <1>8, <3>2, <3>3, <3>6, <4>1, <4>2
      <4>3. CASE n = Len(found) + 1
        <5>1. found[m] \in ToSet(found)
          BY <3>2, <4>1 DEF ToSet
        <5>2. found[m] < At(day)
          BY <1>5, <1>8, <5>1
        <5> QED BY <3>3, <4>1, <4>3, <5>2
      <4> QED BY <3>1, <3>2, <4>2, <4>3
    <3> QED BY <3>1, <3>5, <3>6
  <2>2. CASE ~ add
    <3>1. {e \in S \cup {day} : At(e) >= window.from} = {e \in S : At(e) >= window.from}
      BY <2>2
    <3> QED BY <1>1, <1>8, <2>2, <3>1
  <2> QED BY <2>1, <2>2
<1>11. GeneratorInv'
  <2>1. \A d \in S \cup {day} : At(d) <= window.to /\ (rule.end # NoLimit => d <= rule.end)
    BY <1>6, <1>8
  <2>2. emitted' <= index' /\ (rule.count # NoLimit => emitted' <= rule.count)
    BY <1>1, <1>2, <1>6, <1>8
  <2>3. phase' = "expanding"
    BY <1>1
  <2>4. ToSet(found)' = {At(d) : d \in {e \in Seen(rule, index)' : At(e) >= window.from}}
    BY <1>4, <1>10 DEF ToSet
  <2> QED BY <1>2, <1>4, <1>9, <1>10, <2>1, <2>2, <2>3, <2>4 DEF GeneratorInv
<1>12. AnswerInv'
  BY <1>1 DEF SearchInv, AnswerInv, NextExact
<1> QED BY <1>7, <1>11, <1>12 DEF SearchInv

LEMMA LeaveInv ==
  ASSUME SearchInv, Leave
  PROVE  SearchInv'
<1>1. /\ phase = "expanding" /\ Exhausted /\ phase' = "choosing"
      /\ UNCHANGED <<inputs, window, index, emitted, found, result>>
  BY DEF Leave
<1>2. InputsInv' /\ WindowInv' /\ PassedInv'
  BY <1>1, WindowStays
<1>3. rule' = rule /\ Seen(rule, index)' = Seen(rule, index) /\ (Exhausted' <=> Exhausted)
  BY <1>1 DEF inputs, Exhausted, Ended, Yielded, Candidate, MonthAt
<1>4. GeneratorInv'
  BY <1>1, <1>3 DEF SearchInv, GeneratorInv
<1>5. AnswerInv'
  BY <1>1 DEF SearchInv, AnswerInv, NextExact
<1> QED BY <1>2, <1>4, <1>5 DEF SearchInv

-----------------------------------------------------------------------------
(* The horizon: an empty window ends the search *)

LEMMA SparseIs == Sparse <=> Rare(rule)
BY DEF Sparse, Rare

\* Unless the rule is rare, a window without an occurrence has none behind it: the
\* horizon reaches the next date, and a rule that has ended has ended for good.
LEMMA HorizonHolds ==
  ASSUME InputsInv, WindowInv, GeneratorInv, Exhausted, ~ Sparse, found = <<>>
  PROVE  \A o \in Occurrences : o < window.from
<1> SUFFICES ASSUME NEW o \in Occurrences, ~ (o < window.from) PROVE FALSE
  OBVIOUS
<1>1. /\ rule \in Rules /\ ~ Rare(rule) /\ window.from \in Int /\ window.to \in Int
      /\ window.to <= At(LastDay) /\ LastDay \in Nat
  BY SparseIs, BoundFacts DEF InputsInv, WindowInv
<1>2. PICK d \in Dates(rule) : o = At(d)
  BY <1>1, OccurrencesAre
<1>3. d \in Matching(rule) /\ d \in Nat /\ o \in Int
  <2>1. d \in Matching(rule)
    BY <1>1, DatesAre
  <2>2. d \in Nat
    BY <1>1, <2>1, MatchingType
  <2> QED BY <1>2, <2>1, <2>2 DEF At, Units, LocalTime
<1>4. ~ \E p \in Occurrences : window.from <= p /\ p <= window.to
  <2>1. ToSet(found) = {}
    BY DEF ToSet
  <2> QED BY <2>1, WindowExact
<1>5. window.to < At(d) /\ window.from <= At(d)
  BY <1>1, <1>2, <1>3, <1>4
<1>6. PICK last \in {window.from - 1, window.from} :
        last + Units * Horizon(DayOf(last)) - 1 <= window.to
  BY DEF WindowInv
<1> DEFINE D == DayOf(last)
           H == Horizon(D)
<1>7. last \in Int /\ D \in Int /\ last \in 4 * D .. 4 * D + 3
  BY <1>1, <1>6, DayOfAt
<1>8. H \in Int /\ Gap(rule) + 1 <= H /\ rule.start - D + 2 <= H
  BY <1>1, <1>7, HorizonIs
<1>9. last + 4 * H - 1 <= window.to
  BY <1>6 DEF Units
<1>10. Gap(rule) \in Nat \ {0} /\ rule.start \in Nat
  BY <1>1, GapFacts, RuleFacts
<1> HIDE DEF D, H
<1>11. PICK e \in Nat : /\ e \in Dates(rule)
                        /\ window.from <= At(e) /\ At(e) <= window.to
  <2>1. CASE D < rule.start
    <3>1. rule.start \in Dates(rule)
      BY <1>1, StartIsDate
    <3>2. window.from <= At(rule.start)
      <4>1. D + 1 <= rule.start /\ window.from <= last + 1
        BY <1>1, <1>6, <1>7, <1>10, <2>1
      <4> QED BY <1>1, <1>7, <1>10, <4>1 DEF At, Units, LocalTime
    <3>3. At(rule.start) <= window.to
      <4>1. At(rule.start) <= last + 4 * H - 1 /\ At(rule.start) \in Int
        BY <1>7, <1>8, <1>10 DEF At, Units, LocalTime
      <4>2. window.to \in Int
        BY <1>1
      <4> QED BY <1>7, <1>8, <1>9, <4>1, <4>2
    <3> QED BY <1>10, <3>1, <3>2, <3>3
  <2>2. CASE rule.start <= D
    <3>1. D \in Nat /\ D + Gap(rule) <= LastDay
      BY <1>1, <1>7, <1>8, <1>9, <1>10, <2>2 DEF At, Units, LocalTime
    <3>2. PICK e \in Nat : D < e /\ e <= D + Gap(rule) /\ Pattern(rule, e)
      BY <1>1, <2>2, <3>1, NextMatch
    <3>3. window.from <= At(e) /\ At(e) <= window.to
      <4>1. window.from <= last + 1
        BY <1>1, <1>6
      <4>2. last + 1 <= At(e)
        BY <1>7, <3>2 DEF At, Units, LocalTime
      <4>3. At(e) <= last + 4 * H - 1
        BY <1>7, <1>8, <1>10, <3>2 DEF At, Units, LocalTime
      <4>4. At(e) \in Int
        BY <3>2, DayOfAt
      <4> QED BY <1>1, <1>7, <1>8, <1>9, <4>1, <4>2, <4>3, <4>4
    <3>4. e <= d
      BY <1>1, <1>3, <1>5, <3>3 DEF At, Units, LocalTime
    <3>5. e \in Matching(rule)
      <4>1. e <= LastDay /\ rule.start <= e
        BY <1>1, <1>7, <1>10, <2>2, <3>1, <3>2
      <4>2. rule.end # NoLimit => e <= rule.end
        BY <1>1, <1>3, <3>4, RuleFacts DEF Matching
      <4> QED BY <1>1, <3>2, <4>1, <4>2, RuleFacts DEF Matching, NoLimit
    <3> QED BY <1>1, <3>3, <3>4, <3>5, DatesPrefix
  <2> QED BY <1>7, <1>10, <2>1, <2>2
<1>12. At(e) \in Occurrences
  BY <1>1, <1>11, OccurrencesAre
<1> QED BY <1>4, <1>11, <1>12

-----------------------------------------------------------------------------
(* The choice from a window *)

\* The occurrences that have an exclusion or a Meeting, those the reference
\* definition chooses from, and those that the search does.
Touchable == excluded \cup DOMAIN meetings
Ahead == {o \in Occurrences \ Touchable : o >= Wall(now)}
Virtual == {o \in ToSet(found) : ~ Absent(o)}

LEMMA OccurrenceType ==
  ASSUME InputsInv, NEW o \in Occurrences
  PROVE  o \in Nat /\ rule.start <= DayOf(o)
<1>1. rule \in Rules
  BY DEF InputsInv
<1>2. PICK d \in Dates(rule) : o = At(d)
  BY <1>1, OccurrencesAre
<1>3. d \in Matching(rule) /\ d \in Nat
  BY <1>1, <1>2, DatesAre, MatchingType
<1>4. rule.start <= d
  BY <1>1, <1>3, RuleFacts, BoundFacts DEF Matching, NoLimit
<1>5. o \in Nat
  BY <1>2, <1>3 DEF At, Units, LocalTime
<1>6. DayOf(o) = d
  BY <1>2, <1>3, DayOfAt
<1> QED BY <1>4, <1>5, <1>6

\* Unless the clocks change at it, an occurrence is left out when it has an
\* exclusion or a Meeting, and only then.
LEMMA AbsentIs ==
  ASSUME InputsInv, \A o \in Touchable : ~ Skewed(o), NEW o \in Int, Wall(now) <= o
  PROVE  Absent(o) <=> o \in Touchable
<1>1. ~ Skewed(o) => Instant(o) >= now
  <2>1. Instant(o) \in Int /\ now \in Int
    BY ClockFacts DEF InputsInv
  <2> QED BY <2>1, ClockFacts
<1> QED BY <1>1 DEF Absent, Touchable

\* The choice finds the first occurrence ahead.
LEMMA VirtualAhead ==
  ASSUME SearchInv, phase = "choosing", \A o \in Touchable : ~ Skewed(o)
  PROVE  /\ Virtual \subseteq Ahead
         /\ \A v \in Virtual, o \in Ahead : v <= o \/ o \in Virtual
         /\ found = <<>> /\ ~ Sparse => Ahead = {}
<1>1. /\ InputsInv /\ WindowInv /\ GeneratorInv /\ PassedInv /\ Exhausted
      /\ window.from \in Int /\ window.to \in Int /\ Wall(now) <= window.from
      /\ Wall(now) \in Int
  BY ClockFacts DEF SearchInv, GeneratorInv, WindowInv
<1>2. ToSet(found) = {o \in Occurrences : window.from <= o /\ o <= window.to}
  BY <1>1, WindowExact
<1>3. \A o \in Occurrences : o \in Int
  BY <1>1, OccurrenceType
<1>4. ASSUME NEW v \in Virtual
      PROVE  v \in Ahead
  <2>1. v \in Occurrences /\ window.from <= v /\ ~ Absent(v)
    BY <1>2 DEF Virtual
  <2>2. v \in Int /\ Wall(now) <= v
    BY <1>1, <1>3, <2>1
  <2>3. v \notin Touchable
    BY <1>1, <2>1, <2>2, AbsentIs
  <2> QED BY <1>1, <2>1, <2>2, <2>3 DEF Ahead
<1>5. ASSUME NEW o \in Ahead
      PROVE  window.from <= o
  <2>1. o \in Occurrences /\ o \notin Touchable /\ o \in Int /\ Wall(now) <= o
    BY <1>1, <1>3 DEF Ahead
  <2>2. ~ Absent(o)
    BY <1>1, <2>1, AbsentIs
  <2> QED BY <1>1, <2>1, <2>2 DEF PassedInv
<1>6. ASSUME NEW v \in Virtual, NEW o \in Ahead
      PROVE  v <= o \/ o \in Virtual
  <2>1. o \in Occurrences /\ o \notin Touchable /\ o \in Int /\ Wall(now) <= o
    BY <1>1, <1>3 DEF Ahead
  <2>2. ~ Absent(o) /\ window.from <= o
    BY <1>1, <1>5, <2>1, AbsentIs
  <2>3. v \in Int /\ v <= window.to
    BY <1>2, <1>3 DEF Virtual
  <2>4. o <= window.to => o \in Virtual
    BY <1>2, <2>1, <2>2 DEF Virtual
  <2> QED BY <1>1, <2>1, <2>3, <2>4
<1>7. ASSUME found = <<>>, ~ Sparse
      PROVE  Ahead = {}
  <2> SUFFICES ASSUME NEW o \in Ahead PROVE FALSE
    OBVIOUS
  <2>1. o \in Occurrences /\ window.from <= o /\ o \in Int
    BY <1>3, <1>5 DEF Ahead
  <2>2. o < window.from
    BY <1>1, <1>7, <2>1, HorizonHolds
  <2> QED BY <1>1, <2>1, <2>2
<1> QED BY <1>4, <1>6, <1>7

\* The earliest of the times that the choice compares is the earliest of all.
LEMMA SameEarliest ==
  ASSUME InputsInv, NEW M \in SUBSET Int, \A y \in M : now <= y,
         NEW V \in SUBSET Int, V # {}, NEW v \in V, \A o \in V : v <= o
  PROVE  Min({Instant(o) : o \in V} \cup M) = Min(M \cup {Instant(v)})
         /\ Min(M \cup {Instant(v)}) \in Int
<1> DEFINE S == M \cup {Instant(v)}
           T == {Instant(o) : o \in V} \cup M
           low == IF now <= Instant(v) THEN now ELSE Instant(v)
<1>1. /\ Instant(v) \in Int /\ now \in Int
      /\ \A o \in V : Instant(o) \in Int /\ Instant(v) <= Instant(o)
  BY ClockFacts DEF InputsInv
<1>2. S \in SUBSET Int /\ T \in SUBSET Int /\ S # {} /\ S \subseteq T
  BY <1>1
<1>3. low \in Int /\ \A y \in S : low <= y
  BY <1>1
<1> DEFINE least == Min(S)
<1> HIDE DEF low
<1>4. least \in S /\ \A y \in S : least <= y
  BY <1>2, <1>3, MinOf
<1> HIDE DEF least
<1>5. \A y \in T : least <= y
  <2> SUFFICES ASSUME NEW y \in T PROVE least <= y
    OBVIOUS
  <2>1. CASE y \in M
    BY <1>4, <2>1
  <2>2. ASSUME NEW o \in V, y = Instant(o) PROVE least <= y
    <3>1. least <= Instant(v) /\ Instant(v) <= Instant(o) /\ least \in Int
      BY <1>1, <1>2, <1>4
    <3> QED BY <1>1, <2>2, <3>1
  <2> QED BY <2>1, <2>2
<1>6. Min(T) = least
  BY <1>2, <1>4, <1>5, MinIs
<1>7. Min(S) = least
  BY DEF least
<1> QED BY <1>2, <1>4, <1>6, <1>7

LEMMA MaterializedType ==
  ASSUME InputsInv
  PROVE  BestMaterialized \in SUBSET Int /\ \A y \in BestMaterialized : now <= y
<1>1. \A m \in Upcoming : meetings[m].at \in Int /\ now <= meetings[m].at /\ now \in Int
  BY DEF Upcoming, InputsInv
<1> QED BY <1>1 DEF BestMaterialized

\* next_scheduled_at
Chosen ==
  LET times == BestMaterialized \cup (IF Virtual = {} THEN {} ELSE {Instant(Min(Virtual))})
  IN  IF times = {} THEN Nothing ELSE Min(times)

LEMMA VirtualType ==
  ASSUME SearchInv, phase = "choosing", Virtual # {}
  PROVE  /\ Virtual \in SUBSET Nat
         /\ Min(Virtual) \in Virtual /\ \A o \in Virtual : Min(Virtual) <= o
<1>1. InputsInv /\ WindowInv /\ GeneratorInv /\ Exhausted
  BY DEF SearchInv, GeneratorInv
<1>2. ToSet(found) \subseteq Occurrences
  BY <1>1, WindowExact
<1>3. Virtual \in SUBSET Nat
  BY <1>1, <1>2, OccurrenceType DEF Virtual
<1>4. Virtual \in SUBSET Int /\ 0 \in Int /\ \A o \in Virtual : 0 <= o
  BY <1>3
<1> QED BY <1>3, <1>4, MinOf

LEMMA ChosenType ==
  ASSUME SearchInv, phase = "choosing"
  PROVE  Chosen \in Int
<1> DEFINE M == BestMaterialized
<1>1. InputsInv /\ now \in Int /\ M \in SUBSET Int /\ \A y \in M : now <= y
  BY MaterializedType DEF SearchInv, InputsInv
<1>2. CASE Virtual = {}
  <2>1. Chosen = IF M = {} THEN Nothing ELSE Min(M)
    BY <1>2 DEF Chosen
  <2>2. M # {} => Min(M) \in Int
    BY <1>1, MinOf
  <2> QED BY <2>1, <2>2 DEF Nothing
<1>3. CASE Virtual # {}
  <2>1. Min(Virtual) \in Virtual /\ Virtual \in SUBSET Int /\ \A o \in Virtual : Min(Virtual) <= o
    BY <1>3, VirtualType
  <2>2. Chosen = Min(M \cup {Instant(Min(Virtual))})
    BY <1>3 DEF Chosen
  <2>3. Min(M \cup {Instant(Min(Virtual))}) \in Int
    BY <1>1, <1>3, <2>1, SameEarliest
  <2> QED BY <2>2, <2>3
<1> QED BY <1>2, <1>3

\* The choice is the reference definition's.
LEMMA ChosenIsNext ==
  ASSUME SearchInv, phase = "choosing", found = <<>> \/ Virtual # {},
         \A o \in Touchable : ~ Skewed(o), ~ (Sparse /\ found = <<>>)
  PROVE  Chosen = NextEffective
<1> DEFINE M == BestMaterialized
           T == {Instant(o) : o \in Ahead} \cup M
<1>1. InputsInv /\ M \in SUBSET Int /\ \A y \in M : now <= y
  BY MaterializedType DEF SearchInv
<1>2. NextEffective = IF T = {} THEN Nothing ELSE Min(T)
  BY DEF NextEffective, Ahead, Touchable, BestMaterialized
<1>3. /\ Virtual \subseteq Ahead
      /\ \A v \in Virtual, o \in Ahead : v <= o \/ o \in Virtual
      /\ found = <<>> /\ ~ Sparse => Ahead = {}
  BY VirtualAhead
<1>4. CASE Virtual = {}
  <2>1. Ahead = {}
    BY <1>3, <1>4
  <2>2. T = M
    BY <2>1
  <2>3. Chosen = IF M = {} THEN Nothing ELSE Min(M)
    BY <1>4 DEF Chosen
  <2> QED BY <1>2, <2>2, <2>3
<1>5. CASE Virtual # {}
  <2> DEFINE v == Min(Virtual)
  <2>1. v \in Virtual /\ Virtual \in SUBSET Nat /\ \A o \in Virtual : v <= o
    BY <1>5, VirtualType
  <2> HIDE DEF v
  <2>2. v \in Ahead /\ Ahead # {} /\ \A o \in Ahead : v <= o
    BY <1>3, <2>1
  <2>3. Ahead \in SUBSET Int
    BY <1>1, OccurrenceType DEF Ahead
  <2>4. Min(T) = Min(M \cup {Instant(v)})
    BY <1>1, <2>2, <2>3, SameEarliest
  <2>5. T # {} /\ M \cup {Instant(v)} # {}
    BY <2>2
  <2>6. Chosen = Min(M \cup {Instant(v)})
    BY <1>5, <2>5 DEF Chosen, v
  <2> QED BY <1>2, <2>4, <2>5, <2>6
<1> QED BY <1>4, <1>5

LEMMA ChooseInv ==
  ASSUME SearchInv, Choose
  PROVE  SearchInv'
<1>1. /\ phase = "choosing" /\ (found = <<>> \/ Virtual # {})
      /\ result' = Chosen /\ phase' = "done"
      /\ UNCHANGED <<inputs, window, index, emitted, found>>
  BY DEF Choose, Answer, Virtual, Chosen
<1>2. InputsInv' /\ WindowInv' /\ PassedInv'
  BY <1>1, WindowStays
<1>3. rule' = rule /\ Seen(rule, index)' = Seen(rule, index) /\ (Exhausted' <=> Exhausted)
  BY <1>1 DEF inputs, Exhausted, Ended, Yielded, Candidate, MonthAt
<1>4. GeneratorInv'
  BY <1>1, <1>3 DEF SearchInv, GeneratorInv
<1>5. result' \in Int
  BY <1>1, ChosenType
<1>6. NextExact'
  <2>1. /\ NextEffective' = NextEffective /\ (Sparse' <=> Sparse) /\ found' = found
        /\ Touchable' = Touchable /\ \A o : Skewed(o)' <=> Skewed(o)
    BY <1>1 DEF inputs, NextEffective, Upcoming, Occurrences, Instant, Wall, Sparse, Touchable,
                Skewed
  <2>2. \/ result' = NextEffective
        \/ Sparse /\ found = <<>>
        \/ \E o \in Touchable : Skewed(o)
    BY <1>1, ChosenIsNext
  <2> QED BY <2>1, <2>2 DEF NextExact, Touchable
<1> QED BY <1>2, <1>4, <1>5, <1>6 DEF SearchInv, AnswerInv

-----------------------------------------------------------------------------
(* The next window, and the first *)

\* The occurrences found are in order, so that the next window leaves them behind.
LEMMA LastFound ==
  ASSUME SearchInv, phase = "choosing", found # <<>>
  PROVE  /\ Last(found) \in ToSet(found)
         /\ \A o \in ToSet(found) : o <= Last(found)
<1>1. /\ found \in Seq(Int) /\ Len(found) \in Nat /\ DOMAIN found = 1 .. Len(found)
      /\ \A m, n \in 1 .. Len(found) : m < n => found[m] < found[n]
  BY DEF SearchInv, GeneratorInv
<1>2. Len(found) \in 1 .. Len(found)
  BY <1>1
<1>3. Last(found) = found[Len(found)]
  BY DEF Last
<1>4. ASSUME NEW o \in ToSet(found) PROVE o <= Last(found)
  <2>1. PICK m \in 1 .. Len(found) : o = found[m]
    BY <1>1 DEF ToSet
  <2>2. found[m] \in Int /\ found[Len(found)] \in Int
    <3>1. found \in Seq(Int) /\ \A k \in 1 .. Len(found) : found[k] \in Int
      BY <1>1
    <3> QED BY <1>2, <2>1, <3>1
  <2>3. m = Len(found) \/ found[m] < found[Len(found)]
    <3>1. \A a, b \in 1 .. Len(found) : a < b => found[a] < found[b]
      BY <1>1
    <3>2. m = Len(found) \/ m < Len(found)
      <4>1. Len(found) \in Nat
        BY <1>1
      <4> QED BY <2>1, <4>1
    <3> QED BY <1>2, <2>1, <3>1, <3>2
  <2> QED BY <1>3, <2>1, <2>2, <2>3
<1>5. Last(found) \in ToSet(found)
  BY <1>1, <1>2, <1>3 DEF ToSet
<1> QED BY <1>4, <1>5

\* A window that begins with or after a day from the start on is on the calendar.
LEMMA WindowFits ==
  ASSUME rule \in Rules, NEW time \in Int, rule.start <= DayOf(time),
         DayOf(time) + Gap(rule) + 3 <= LastDay
  PROVE  time + 1 + Units * Horizon(DayOf(time)) <= At(LastDay)
<1> DEFINE D == DayOf(time)
           H == Horizon(D)
<1>1. D \in Int /\ time \in 4 * D .. 4 * D + 3
  BY DayOfAt
<1>2. H \in Int /\ H \in {Gap(rule) + 1, rule.start - D + 2}
  BY <1>1, HorizonIs
<1>3. Gap(rule) \in Nat \ {0} /\ rule.start \in Nat /\ LastDay \in Nat
  BY GapFacts, RuleFacts, BoundFacts
<1>4. rule.start <= D /\ D + Gap(rule) + 3 <= LastDay
  OBVIOUS
<1> SUFFICES time + 1 + Units * H <= At(LastDay)
  OBVIOUS
<1> HIDE DEF D, H
<1>5. H <= Gap(rule) + 1
  BY <1>1, <1>2, <1>3, <1>4
<1> QED BY <1>1, <1>2, <1>3, <1>4, <1>5 DEF At, Units, LocalTime

\* All that a window shifted behind its last occurrence leaves out is absent.
LEMMA SlideInv ==
  ASSUME SearchInv, Slide
  PROVE  SearchInv'
<1> DEFINE L == Last(found)
<1>1. /\ phase = "choosing" /\ found # <<>> /\ \A o \in ToSet(found) : Absent(o)
      /\ phase' = "expanding"
      /\ window'.from = L + 1
      /\ window'.to = L + 1 + Units * Horizon(DayOf(L))
      /\ index' = 0 /\ emitted' = 0 /\ found' = <<>>
      /\ UNCHANGED <<inputs, result>>
  BY DEF Slide
<1>2. /\ InputsInv /\ WindowInv /\ GeneratorInv /\ PassedInv /\ Exhausted
      /\ rule \in Rules /\ rule' = rule
      /\ window.from \in Int /\ window.to \in Int /\ Wall(now) \in Int /\ Wall(now) <= window.from
  BY <1>1, ClockFacts DEF SearchInv, GeneratorInv, WindowInv, InputsInv, inputs
<1>3. ToSet(found) = {o \in Occurrences : window.from <= o /\ o <= window.to}
  BY <1>2, WindowExact
<1>4. L \in ToSet(found) /\ \A o \in ToSet(found) : o <= L
  BY <1>1, LastFound
<1>5. L \in Occurrences /\ L \in Int /\ window.from <= L /\ L <= window.to
      /\ rule.start <= DayOf(L) /\ Absent(L)
  <2>1. L \in Occurrences /\ window.from <= L /\ L <= window.to
    BY <1>3, <1>4
  <2>2. L \in Nat /\ rule.start <= DayOf(L)
    BY <1>2, <2>1, OccurrenceType
  <2> QED BY <1>1, <1>4, <2>1, <2>2
<1>6. /\ InputsInv' /\ Wall(now)' = Wall(now) /\ Occurrences' = Occurrences
      /\ \A o : Absent(o)' <=> Absent(o)
  BY <1>1, <1>2, InputsStay
<1> HIDE DEF L
<1>7. WindowInv'
  <2>1. L \in FirstOccurrences[rule]
    BY <1>2, <1>5 DEF Absent, InputsInv
  <2>2. DayOf(L) + Gap(rule) + 3 <= LastDay
    BY <1>2, <2>1, CalendarAssumption
  <2>3. L + 1 + Units * Horizon(DayOf(L)) <= At(LastDay)
    BY <1>2, <1>5, <2>2, WindowFits
  <2>4. Horizon(DayOf(L)) \in Int
    BY <1>2, <1>5, DayOfAt, HorizonIs
  <2>5. window'.from \in Int /\ window'.to \in Int /\ Wall(now)' <= window'.from
    BY <1>1, <1>2, <1>5, <1>6, <2>4 DEF Units
  <2>6. window'.to <= At(LastDay)
    BY <1>1, <2>3
  <2>7. PICK last \in Int : last = L
    BY <1>5
  <2>8. last \in {window'.from - 1, window'.from}
    BY <1>1, <2>7
  <2>9. last + Units * Horizon(DayOf(last)) - 1 <= window'.to
    BY <1>1, <2>4, <2>7 DEF Units
  <2>10. Horizon(DayOf(last))' = Horizon(DayOf(last))
    BY <1>2 DEF Horizon
  <2> QED BY <2>5, <2>6, <2>8, <2>9, <2>10 DEF WindowInv
<1>8. PassedInv'
  <2>1. ASSUME NEW o \in Occurrences, Wall(now) <= o, o < L + 1
        PROVE  Absent(o)
    <3>1. o \in Int /\ o <= L
      BY <1>2, <1>5, <2>1, OccurrenceType
    <3>2. CASE o < window.from
      BY <1>2, <2>1, <3>2 DEF PassedInv
    <3>3. CASE window.from <= o
      BY <1>1, <1>2, <1>3, <1>5, <3>1, <3>3
    <3> QED BY <1>2, <3>1, <3>2, <3>3
  <2> QED BY <1>1, <1>6, <2>1 DEF PassedInv
<1>9. GeneratorInv'
  <2>1. Seen(rule, index)' = {}
    <3>1. Seen(rule, index)' = Seen(rule, 0)
      BY <1>1, <1>2 DEF Seen
    <3> QED BY <1>2, <3>1, SeenStep
  <2>2. IsFiniteSet({}) /\ Cardinality({}) = 0
    BY FS_EmptySet
  <2>3. found' \in Seq(Int) /\ Len(found') = 0 /\ ToSet(found)' = {}
    BY <1>1 DEF ToSet
  <2>4. rule.count # NoLimit => 0 <= rule.count
    BY <1>2, RuleFacts
  <2>5. ToSet(found)' = {At(d) : d \in {e \in Seen(rule, index)' : At(e) >= window'.from}}
    BY <2>1, <2>3
  <2>6. \A m, n \in 1 .. Len(found') : m < n => found'[m] < found'[n]
    BY <2>3
  <2>7. IsFiniteSet(Seen(rule, index)') /\ emitted' = Cardinality(Seen(rule, index)')
    BY <1>1, <2>1, <2>2
  <2> QED BY <1>1, <1>2, <2>1, <2>3, <2>4, <2>5, <2>6, <2>7 DEF GeneratorInv
<1>10. AnswerInv'
  BY <1>1 DEF SearchInv, AnswerInv, NextExact
<1> QED BY <1>6, <1>7, <1>8, <1>9, <1>10 DEF SearchInv

\* There is a last one of the occurrences that a user may have touched.
LEMMA FirstOccurrencesType ==
  ASSUME NEW r \in Rules
  PROVE  /\ FirstOccurrences[r] \in SUBSET Nat
         /\ Max(FirstOccurrences[r]) \in Int
<1> DEFINE F == FirstOccurrences[r]
<1>1. Calendar[r] = {At(day) : day \in Dates(r)}
  BY DEF Calendar
<1>2. F = {o \in Calendar[r] : Cardinality({p \in Calendar[r] : p <= o}) <= Touched}
  BY DEF FirstOccurrences
<1>3. ASSUME NEW o \in Calendar[r] PROVE o \in Nat /\ At(r.start) <= o
  <2>1. PICK d \in Dates(r) : o = At(d)
    BY <1>1
  <2>2. d \in Matching(r) /\ d \in Nat
    BY DatesAre, MatchingType
  <2>3. r.start <= d /\ r.start \in Nat
    BY <2>2, RuleFacts, BoundFacts DEF Matching, NoLimit
  <2> QED BY <2>1, <2>2, <2>3 DEF At, Units, LocalTime
<1>4. F \in SUBSET Nat
  BY <1>2, <1>3
<1>5. At(r.start) \in F
  <2>1. At(r.start) \in Calendar[r]
    BY <1>1, StartIsDate
  <2>2. At(r.start) \in Nat
    BY <1>3, <2>1
  <2> DEFINE P == {p \in Calendar[r] : p <= At(r.start)}
  <2>3. P = {At(r.start)}
    BY <1>3, <2>1, <2>2
  <2> HIDE DEF F, P
  <2>4. Cardinality(P) = 1
    BY <2>3, FS_Singleton
  <2>5. Cardinality(P) <= Touched
    BY <2>4, BoundFacts
  <2> QED BY <1>2, <2>1, <2>5 DEF P
<1>6. ASSUME NEW o \in F PROVE o <= At(LastDay)
  <2>1. DayOf(o) + Gap(r) + 3 <= LastDay
    BY CalendarAssumption
  <2>2. Gap(r) \in Nat /\ o \in Nat /\ LastDay \in Nat
    BY <1>4, GapFacts, BoundFacts
  <2> QED BY <2>1, <2>2, DayOfAt DEF At, Units, LocalTime
<1>7. At(LastDay) \in Nat
  BY BoundFacts DEF At, Units, LocalTime
<1> HIDE DEF F
<1>8. Max(F) \in F
  BY <1>4, <1>5, <1>6, <1>7, LastOf
<1> QED BY <1>4, <1>8 DEF F

LEMMA InitInputs ==
  ASSUME SearchInit
  PROVE  InputsInv
<1>1. rule \in Rules /\ now \in {At(rule.start) + s : s \in Sooner}
  BY DEF SearchInit
<1>2. FirstOccurrences[rule] \in SUBSET Nat /\ Max(FirstOccurrences[rule]) \in Int
  BY <1>1, FirstOccurrencesType
<1>3. clock.shift \in {-1, 0, 1} /\ clock.at \in Int
  <2> DEFINE last == Max(FirstOccurrences[rule])
  <2>1. clock \in {[shift |-> 0, at |-> 0]} \cup [shift : {1, -1}, at : {last, last + 1}]
    BY DEF SearchInit
  <2>2. last \in Int
    BY <1>2
  <2> HIDE DEF last
  <2> QED BY <2>1, <2>2
<1>4. now \in Int
  BY <1>1, RuleFacts, BoundFacts DEF At, Units, LocalTime
<1>5. PICK opened \in SUBSET FirstOccurrences[rule] : \E moved \in [opened -> Moves] :
        meetings = [o \in opened |-> [at |-> Instant(o) + moved[o], cancelled |-> o \in excluded]]
  BY DEF SearchInit
<1>6. PICK moved \in [opened -> Moves] :
        meetings = [o \in opened |-> [at |-> Instant(o) + moved[o], cancelled |-> o \in excluded]]
  BY <1>5
<1>7. ASSUME NEW m \in DOMAIN meetings PROVE meetings[m].at \in Int
  <2>1. m \in opened /\ meetings[m].at = Instant(m) + moved[m]
    BY <1>6, <1>7
  <2>2. m \in Int /\ moved[m] \in Int
    BY <1>2, <1>6, <2>1, BoundFacts
  <2>3. Instant(m) \in Int
    BY <1>3, <2>2, InstantIs
  <2> QED BY <2>1, <2>2, <2>3
<1>8. excluded \cup DOMAIN meetings \subseteq FirstOccurrences[rule]
  BY <1>6 DEF SearchInit
<1> QED BY <1>1, <1>3, <1>4, <1>7, <1>8 DEF InputsInv

LEMMA FirstWindow ==
  ASSUME SearchInit
  PROVE  WindowInv
<1> DEFINE W == Wall(now)
           D == DayOf(W)
           H == Horizon(D)
           then == now + 4 * H
<1>1. window.from = W /\ window.to = Wall(then)
  BY DEF SearchInit, Units
<1>2. InputsInv
  BY InitInputs
<1>3. /\ rule \in Rules /\ now \in Int /\ clock.shift \in {-1, 0, 1} /\ clock.at \in Int
      /\ W \in Int /\ W \in now - 1 .. now + 1
  BY <1>2, ClockFacts DEF InputsInv
<1>4. D \in Int /\ W \in 4 * D .. 4 * D + 3
  BY <1>3, DayOfAt
<1>5. /\ H \in Int /\ Gap(rule) + 1 <= H /\ H \in {Gap(rule) + 1, rule.start - D + 2}
      /\ Gap(rule) \in Nat \ {0} /\ rule.start \in Nat /\ LastDay \in Nat
  BY <1>3, <1>4, HorizonIs, GapFacts, RuleFacts, BoundFacts
<1>6. /\ W = IF now < clock.at THEN now ELSE now + clock.shift
      /\ Wall(then) = IF then < clock.at THEN then ELSE then + clock.shift
  BY DEF Wall
<1>7. \E s \in Sooner : now = At(rule.start) + s
  BY DEF SearchInit
<1>8. DayOf(now) + Gap(rule) + 3 <= LastDay /\ rule.start + Gap(rule) + 3 <= LastDay
  <2>1. DayOf(now) + Gap(rule) + 3 <= LastDay
    BY <1>3, <1>7, CalendarAssumption
  <2>2. DayOf(At(rule.start)) + Gap(rule) + 3 <= LastDay
    BY <1>3, CalendarAssumption
  <2>3. DayOf(At(rule.start)) = rule.start
    <3>1. rule.start \in Int
      BY <1>5
    <3> QED BY <3>1, DayOfAt
  <2> QED BY <2>1, <2>2, <2>3
<1>9. DayOf(now) \in Int /\ now <= 4 * DayOf(now) + 3
  BY <1>3, DayOfAt
<1>10. W \in {window.from - 1, window.from} /\ D = DayOf(W) /\ H = Horizon(D)
  BY <1>1
<1> HIDE DEF W, D, H
<1>11. /\ then \in Int /\ Wall(then) \in Int
       /\ Wall(then) <= W + 4 * H + 1 /\ W + 4 * H - 1 <= Wall(then)
  BY <1>3, <1>5, <1>6
<1>12. Wall(then) <= At(LastDay)
  <2>1. CASE H = Gap(rule) + 1
    BY <1>3, <1>5, <1>8, <1>9, <1>11, <2>1 DEF At, Units, LocalTime
  <2>2. CASE H = rule.start - D + 2
    BY <1>3, <1>4, <1>5, <1>8, <1>11, <2>2 DEF At, Units, LocalTime
  <2> QED BY <1>5, <2>1, <2>2
<1>13. W + Units * Horizon(DayOf(W)) - 1 <= window.to
  BY <1>1, <1>10, <1>11 DEF Units
<1>14. Wall(now) <= window.from
  BY <1>1, <1>3 DEF W
<1> QED BY <1>1, <1>3, <1>10, <1>11, <1>12, <1>13, <1>14 DEF WindowInv

LEMMA SearchInitInv ==
  ASSUME SearchInit
  PROVE  SearchInv
<1>1. /\ phase = "expanding" /\ index = 0 /\ emitted = 0 /\ found = <<>> /\ result = Nothing
      /\ window.from = Wall(now)
  BY DEF SearchInit
<1>2. InputsInv /\ WindowInv /\ rule \in Rules
  BY InitInputs, FirstWindow DEF InputsInv
<1>3. GeneratorInv
  <2>1. Seen(rule, index) = {}
    BY <1>1, <1>2, SeenStep
  <2>2. IsFiniteSet({}) /\ Cardinality({}) = 0
    BY FS_EmptySet
  <2>3. found \in Seq(Int) /\ Len(found) = 0 /\ ToSet(found) = {}
    BY <1>1 DEF ToSet
  <2>4. rule.count # NoLimit => 0 <= rule.count
    BY <1>2, RuleFacts
  <2>5. ToSet(found) = {At(d) : d \in {e \in Seen(rule, index) : At(e) >= window.from}}
    BY <2>1, <2>3
  <2>6. \A m, n \in 1 .. Len(found) : m < n => found[m] < found[n]
    BY <2>3
  <2>7. IsFiniteSet(Seen(rule, index)) /\ emitted = Cardinality(Seen(rule, index))
    BY <1>1, <2>1, <2>2
  <2> QED BY <1>1, <2>1, <2>3, <2>4, <2>5, <2>6, <2>7 DEF GeneratorInv
<1>4. PassedInv
  <2>1. \A o \in Occurrences : o \in Int
    BY <1>2, OccurrenceType
  <2>2. Wall(now) \in Int
    BY <1>2, ClockFacts
  <2> QED BY <1>1, <2>1, <2>2 DEF PassedInv
<1>5. AnswerInv
  BY <1>1 DEF AnswerInv, NextExact, Nothing
<1> QED BY <1>2, <1>3, <1>4, <1>5 DEF SearchInv

LEMMA SearchNextInv ==
  ASSUME SearchInv, [SearchNext]_searchVars
  PROVE  SearchInv'
<1>1. CASE Skip
  BY <1>1, SkipInv
<1>2. CASE Take
  BY <1>2, TakeInv
<1>3. CASE Leave
  BY <1>3, LeaveInv
<1>4. CASE Choose
  BY <1>4, ChooseInv
<1>5. CASE Slide
  BY <1>5, SlideInv
<1>6. CASE UNCHANGED searchVars
  <2>1. UNCHANGED <<inputs, phase, window, index, emitted, found, result>>
    BY <1>6 DEF searchVars
  <2>2. InputsInv' /\ WindowInv' /\ PassedInv'
    BY <2>1, WindowStays
  <2>3. rule' = rule /\ Seen(rule, index)' = Seen(rule, index) /\ (Exhausted' <=> Exhausted)
    BY <2>1 DEF inputs, Exhausted, Ended, Yielded, Candidate, MonthAt
  <2>4. GeneratorInv'
    BY <2>1, <2>3 DEF SearchInv, GeneratorInv
  <2>5. /\ NextEffective' = NextEffective /\ (Sparse' <=> Sparse)
        /\ Touchable' = Touchable /\ \A o : Skewed(o)' <=> Skewed(o)
    BY <2>1 DEF inputs, NextEffective, Upcoming, Occurrences, Instant, Wall, Sparse, Touchable,
                Skewed
  <2>6. AnswerInv'
    BY <2>1, <2>5 DEF SearchInv, AnswerInv, NextExact, Touchable
  <2> QED BY <2>2, <2>4, <2>6 DEF SearchInv
<1> QED BY <1>1, <1>2, <1>3, <1>4, <1>5, <1>6 DEF SearchNext

-----------------------------------------------------------------------------
(* How long a search can take *)

\* Of six months that are seven apart, one has a 31st.
LEMMA SevenMonths ==
  ASSUME NEW p \in Nat
  PROVE  \/ (p + 7) % 12 \notin Short
         \/ (p + 14) % 12 \notin Short
         \/ (p + 21) % 12 \notin Short
         \/ (p + 28) % 12 \notin Short
         \/ (p + 35) % 12 \notin Short
         \/ (p + 42) % 12 \notin Short
BY DEF Short

\* With one more step than _next_occurrence_horizon expects, a rare rule has a date.
LEMMA RareRuns ==
  ASSUME NEW p \in Nat, NEW i \in Nat, i % 12 \in {5, 7}
  PROVE  \E c \in 1 .. 6 : (p + c * i) % 12 \notin Short
<1>1. PICK z \in Nat : i = 12 * z + (i % 12)
  BY Euclid
<1>2. \A a, y \in Nat : (a + 12 * y) % 12 = a % 12
  OBVIOUS
<1>3. ASSUME NEW c \in 1 .. 6, NEW x \in {5, 7}, i % 12 = x
      PROVE  (p + c * i) % 12 = (p + c * x) % 12
  <2>1. p + c * i = (p + c * x) + 12 * (c * z)
    BY <1>1, <1>3
  <2>2. p + c * x \in Nat /\ c * z \in Nat
    OBVIOUS
  <2> QED BY <1>2, <2>1, <2>2
<1>4. CASE i % 12 = 5
  <2>1. \E c \in 1 .. 6 : (p + c * 5) % 12 \notin Short
    BY FiveMonths
  <2> QED BY <1>3, <1>4, <2>1
<1>5. CASE i % 12 = 7
  <2>1. \E c \in 1 .. 6 : (p + c * 7) % 12 \notin Short
    BY SevenMonths
  <2> QED BY <1>3, <1>5, <2>1
<1> QED BY <1>4, <1>5

\* One of any seven days or months that the generator looks at is yielded, also
\* of a rare rule.
LEMMA HitWithin ==
  ASSUME NEW r \in Rules, NEW k \in Nat
  PROVE  \E c \in 1 .. 7 : Hit(r, k + c)
<1> DEFINE i == r.interval
           p == MonthLooked(r, k)
<1>1. r.frequency \in Frequency /\ i \in Nat \ {0} /\ r.start \in Nat
  BY RuleFacts
<1>2. CASE r.frequency = "daily"
  <2>1. Hit(r, k + 1)
    BY <1>2 DEF Hit
  <2> QED BY <2>1
<1>3. CASE r.frequency = "weekly"
  <2> DEFINE q == k \div 7
             c == 7 - (k % 7)
  <2>1. q \in Nat /\ c \in 1 .. 7 /\ k + c = 7 * (q + 1)
    BY Sevens
  <2> HIDE DEF q, c, i
  <2>2. k + c \in Nat /\ (k + c) \div 7 = q + 1 /\ (k + c) % 7 = 0
    BY <2>1
  <2>3. Looked(r, k + c) = r.start + 7 * (i * (q + 1)) + 0
    BY <1>3, <2>2, LookedIs DEF i
  <2>4. i * (q + 1) \in Nat
    BY <1>1, <2>1
  <2>5. Weekday(Looked(r, k + c)) = Weekday(r.start)
    <3>1. \A z \in Nat : (r.start + 7 * z + 0) % 7 = r.start % 7
      BY <1>1
    <3> QED BY <2>3, <2>4, <3>1 DEF Weekday
  <2>6. Hit(r, k + c)
    BY <1>3, <2>5, RuleFacts DEF Hit
  <2> QED BY <2>1, <2>6
<1>4. CASE r.frequency = "monthly" /\ ~ Rare(r)
  <2>1. PICK c \in 1 .. 6 : DayIn(r.start) < Length(MonthLooked(r, k + c))
    BY <1>4, MonthWithin
  <2>2. Hit(r, k + c)
    BY <1>4, <2>1 DEF Hit
  <2> QED BY <2>2
<1>5. CASE r.frequency = "monthly" /\ Rare(r)
  <2> DEFINE s == MonthOf[r.start]
  <2>1. s \in Nat /\ DayIn(r.start) = 30 /\ i % 12 \in {5, 7}
    BY <1>5, StartOnCalendar, MonthOfDay DEF Rare
  <2>2. p \in Nat /\ p = s + i * k
    BY <1>5, LookedIs DEF MonthLooked
  <2>3. \A c \in 1 .. 6 : MonthLooked(r, k + c) = p + c * i /\ p + c * i \in Nat
    <3> SUFFICES ASSUME NEW c \in 1 .. 6
                 PROVE  MonthLooked(r, k + c) = p + c * i /\ p + c * i \in Nat
      OBVIOUS
    <3>1. MonthLooked(r, k + c) = s + i * (k + c)
      BY DEF MonthLooked
    <3> HIDE DEF i, s, p
    <3>2. i * (k + c) = i * k + c * i /\ i * k \in Nat /\ c * i \in Nat
      BY <1>1
    <3> QED BY <2>1, <2>2, <3>1, <3>2
  <2> HIDE DEF i, p, s
  <2>4. PICK c \in 1 .. 6 : (p + c * i) % 12 \notin Short
    BY <1>1, <2>1, <2>2, RareRuns
  <2>5. Length(p + c * i) = 31
    BY <2>3, <2>4, LengthOfMonth
  <2>6. Hit(r, k + c)
    BY <1>5, <2>1, <2>3, <2>5 DEF Hit
  <2> QED BY <2>6
<1> QED BY <1>1, <1>2, <1>3, <1>4, <1>5 DEF Frequency

LEMMA MonthsApart ==
  ASSUME NEW m \in Nat, NEW n \in Nat
  PROVE  FirstOf(m) + 28 * n <= FirstOf(m + n)
BY DEF FirstOf, DaysBefore

\* The generator looks at least as far after the start as it has steps.
LEMMA LookedAtLeast ==
  ASSUME NEW r \in Rules, NEW n \in Nat
  PROVE  r.start + n <= Looked(r, n)
<1> DEFINE i == r.interval
<1>1. r.frequency \in Frequency /\ i \in Nat \ {0} /\ r.start \in Nat
  BY RuleFacts
<1>2. \A k \in Nat : i * k \in Nat /\ k <= i * k
  <2> HIDE DEF i
  <2> SUFFICES ASSUME NEW k \in Nat PROVE i * k \in Nat /\ k <= i * k
    OBVIOUS
  <2>1. i - 1 \in Nat /\ i * k = (i - 1) * k + k /\ (i - 1) * k \in Nat
    BY <1>1
  <2> QED BY <2>1
<1>3. CASE r.frequency = "daily"
  <2>1. Looked(r, n) = r.start + i * n
    BY <1>3, LookedIs
  <2> HIDE DEF i
  <2> QED BY <1>1, <1>2, <2>1
<1>4. CASE r.frequency = "weekly"
  <2> DEFINE q == n \div 7
             x == n % 7
  <2>1. q \in Nat /\ x \in 0 .. 6 /\ n = 7 * q + x
    BY Sevens
  <2>2. Looked(r, n) = r.start + 7 * (i * q) + x
    BY <1>4, LookedIs
  <2> HIDE DEF i, q, x
  <2>3. i * q \in Nat /\ q <= i * q
    BY <1>2, <2>1
  <2> QED BY <1>1, <2>1, <2>2, <2>3
<1>5. CASE r.frequency = "monthly"
  <2> DEFINE s == MonthOf[r.start]
             d == DayIn(r.start)
             m == MonthLooked(r, n)
  <2>1. s \in Nat /\ d \in 0 .. 30 /\ r.start = FirstOf(s) + d
    BY StartOnCalendar, MonthOfDay, DayOfMonth
  <2>2. Looked(r, n) = FirstOf(m) + d /\ m = s + i * n
    BY <1>5, LookedIs DEF MonthLooked
  <2> HIDE DEF i, m, s, d
  <2>3. i * n \in Nat /\ n <= i * n
    BY <1>2
  <2>4. FirstOf(s) + 28 * (i * n) <= FirstOf(m)
    BY <2>1, <2>2, <2>3, MonthsApart
  <2>5. FirstOf(m) \in Nat /\ FirstOf(s) \in Nat
    BY <2>1, <2>2, <2>3, MonthLengths
  <2> QED BY <2>1, <2>2, <2>3, <2>4, <2>5
<1> QED BY <1>1, <1>3, <1>4, <1>5 DEF Frequency

\* The generator is never far behind the window.
LEMMA IndexBounded ==
  ASSUME SearchInv
  PROVE  index <= (DayOf(window.to) - rule.start) + 7
<1> DEFINE end == DayOf(window.to)
<1>1. /\ InputsInv /\ WindowInv /\ GeneratorInv /\ rule \in Rules /\ index \in Nat
      /\ rule.start \in Nat /\ window.to \in Int /\ window.from \in Int
  BY RuleFacts DEF SearchInv, InputsInv, GeneratorInv, WindowInv
<1>2. end \in Int /\ window.to \in 4 * end .. 4 * end + 3
  BY <1>1, DayOfAt
<1>3. rule.start <= end
  <2>1. PICK last \in {window.from - 1, window.from} :
          last + Units * Horizon(DayOf(last)) - 1 <= window.to
    BY <1>1 DEF WindowInv
  <2> DEFINE D == DayOf(last)
             H == Horizon(D)
  <2>2. last \in Int /\ D \in Int /\ last \in 4 * D .. 4 * D + 3
    BY <1>1, <2>1, DayOfAt
  <2>3. H \in Int /\ rule.start - D + 2 <= H
    BY <1>1, <2>2, HorizonIs
  <2>4. last + 4 * H - 1 <= window.to
    BY <2>1 DEF Units
  <2> HIDE DEF D, H, end
  <2> QED BY <1>1, <1>2, <2>2, <2>3, <2>4
<1> HIDE DEF end
<1> SUFFICES ASSUME index > (end - rule.start) + 7 PROVE FALSE
  BY <1>1, <1>2 DEF end
<1> DEFINE k == index - 8
<1>4. k \in Nat /\ end - rule.start <= k
  BY <1>1, <1>2, <1>3
<1>5. PICK c \in 1 .. 7 : Hit(rule, k + c)
  BY <1>1, <1>4, HitWithin
<1>6. k + c \in 0 .. index - 1 /\ k + c \in Nat /\ end < rule.start + (k + c)
  BY <1>1, <1>2, <1>4
<1> HIDE DEF k
<1> DEFINE d == Looked(rule, k + c)
<1>7. d \in Seen(rule, index)
  BY <1>5, <1>6 DEF Seen
<1>8. At(d) <= window.to /\ d \in Nat /\ rule.start + (k + c) <= d
  BY <1>1, <1>6, <1>7, SeenInWindow, LookedAtLeast DEF GeneratorInv
<1> HIDE DEF d
<1> QED BY <1>1, <1>2, <1>6, <1>8 DEF At, Units, LocalTime

\* The occurrences with an exclusion or a Meeting that no window has passed.
Pending == {o \in Touchable : o >= window.from}

\* A further window passes at least one of them.
LEMMA SlideLeaves ==
  ASSUME SearchInv, Slide
  PROVE  Cardinality(Pending') < Cardinality(Pending)
<1> DEFINE L == Last(found)
<1>1. /\ phase = "choosing" /\ found # <<>> /\ \A o \in ToSet(found) : Absent(o)
      /\ window'.from = L + 1 /\ UNCHANGED inputs
  BY DEF Slide
<1>2. /\ InputsInv /\ WindowInv /\ GeneratorInv /\ Exhausted /\ rule \in Rules
      /\ window.from \in Int
  BY <1>1 DEF SearchInv, GeneratorInv, WindowInv, InputsInv
<1>3. L \in ToSet(found)
  BY <1>1, LastFound
<1>4. L \in Occurrences /\ window.from <= L /\ Absent(L)
  BY <1>1, <1>2, <1>3, WindowExact
<1>5. L \in Int
  BY <1>2, <1>4, OccurrenceType
<1>6. L \in Touchable
  BY <1>4 DEF Absent, Touchable
<1> HIDE DEF L
<1>7. Touchable \in SUBSET Nat /\ IsFiniteSet(Touchable)
  <2>1. Touchable \subseteq FirstOccurrences[rule] /\ FirstOccurrences[rule] \in SUBSET Nat
    BY <1>2, FirstOccurrencesType DEF Touchable, InputsInv
  <2>2. \A o \in FirstOccurrences[rule] : o \in 0 .. At(LastDay)
    <3> SUFFICES ASSUME NEW o \in FirstOccurrences[rule] PROVE o \in 0 .. At(LastDay)
      OBVIOUS
    <3>1. DayOf(o) + Gap(rule) + 3 <= LastDay
      BY <1>2, CalendarAssumption
    <3>2. Gap(rule) \in Nat /\ o \in Nat /\ LastDay \in Nat
      BY <1>2, <2>1, GapFacts, BoundFacts
    <3> QED BY <3>1, <3>2, DayOfAt DEF At, Units, LocalTime
  <2>3. IsFiniteSet(0 .. At(LastDay))
    <3>1. At(LastDay) \in Int
      BY BoundFacts DEF At, Units, LocalTime
    <3> QED BY <3>1, FS_Interval
  <2>4. Touchable \subseteq 0 .. At(LastDay)
    BY <2>1, <2>2
  <2> QED BY <2>1, <2>3, <2>4, FS_Subset
<1>8. Pending' = {o \in Touchable : o >= L + 1}
  BY <1>1 DEF Pending, Touchable, inputs
<1>9. Pending' \subseteq Pending \ {L} /\ L \in Pending
  <2>1. ASSUME NEW o \in Pending' PROVE o \in Pending /\ o # L
    <3>1. o \in Touchable /\ o \in Nat /\ o >= L + 1
      BY <1>7, <1>8, <2>1
    <3> QED BY <1>2, <1>4, <1>5, <3>1 DEF Pending
  <2>2. L \in Pending
    BY <1>2, <1>4, <1>5, <1>6 DEF Pending
  <2> QED BY <2>1, <2>2
<1>10. IsFiniteSet(Pending)
  BY <1>7, FS_Subset DEF Pending
<1>11. IsFiniteSet(Pending \ {L}) /\ Cardinality(Pending \ {L}) = Cardinality(Pending) - 1
  BY <1>9, <1>10, FS_RemoveElement
<1>12. Cardinality(Pending') <= Cardinality(Pending \ {L})
  BY <1>9, <1>11, FS_Subset
<1>13. IsFiniteSet(Pending') /\ Cardinality(Pending') \in Nat /\ Cardinality(Pending) \in Nat
  BY <1>9, <1>10, <1>11, FS_Subset, FS_CardinalityType
<1> QED BY <1>11, <1>12, <1>13

-----------------------------------------------------------------------------
(* The theorems about the calendar *)

\* The inductive invariant holds in every state of the search.
THEOREM SearchInvariance == Search => []SearchInv
BY SearchInitInv, SearchNextInv, PTL DEF Search

\* For all rules, windows and exclusions, calculate_recurrence_occurrences
\* returns the dates that the rule has in the window, in order, and no other:
\* the skipped ends of months and weeks, the count and the end date included.
THEOREM ExpansionCorrect == Search => []ExpansionExact
BY SearchInvariance, ExactInv, PTL

\* next_effective_meeting_recurrence_occurrence answers with the earliest
\* occurrence that is neither past nor excluded, a Meeting at its own time, or
\* with none when there is none: whatever is excluded, opened, moved or
\* cancelled, except for a rule of the 31st whose window is empty and for a
\* touched occurrence at which the clocks change.
THEOREM NextCorrect == Search => []NextExact
<1>1. SearchInv => NextExact
  BY DEF SearchInv, AnswerInv
<1> QED BY <1>1, SearchInvariance, PTL

\* The windows of _next_occurrence_horizon are long enough for every rule but
\* those of the 31st that are five or seven months, modulo twelve, apart: an
\* empty window has no occurrence behind it.
THEOREM HorizonSuffices == Search => [](~ Sparse => HorizonCovers)
<1>1. SearchInv => (~ Sparse => HorizonCovers)
  BY HorizonHolds DEF SearchInv, GeneratorInv, HorizonCovers
<1> QED BY <1>1, SearchInvariance, PTL

\* An expansion looks at no more days, or months, than its window ends after the
\* start of the rule, and a week: also where a rule skips the ends of months, one
\* of any seven is yielded, and the first one behind the window ends the loop.
THEOREM ExpansionBounded == Search => [](index <= (DayOf(window.to) - rule.start) + 7)
BY SearchInvariance, IndexBounded, PTL

\* Every further window leaves an occurrence behind that is excluded or has a
\* Meeting, for good: the search expands at most one window more than there are
\* such occurrences, also for a series without an end.
THEOREM WindowsBounded ==
  Search => [][Slide => Cardinality(Pending') < Cardinality(Pending)]_searchVars
<1>1. SearchInv /\ [SearchNext]_searchVars
        => [Slide => Cardinality(Pending') < Cardinality(Pending)]_searchVars
  BY SlideLeaves
<1> QED BY <1>1, SearchInvariance, PTL DEF Search

-----------------------------------------------------------------------------
(* Sections: the inductive invariant *)

Jobs == [step : {"idle", "ordered", "shifted", "replacing", "copying"},
         of : Lists \cup {"none"}, order : Seq(Section), offset : Nat]

(* an order names each Section once *)
Distinct(order) == \A m, n \in 1..Len(order) : order[m] = order[n] => m = n

(* a request for a new order, from its validation to its commit *)
OrderInv(w) ==
    job[w].step \in {"ordered", "shifted"} =>
        /\ job[w].of \in Lists /\ Distinct(job[w].order)
        /\ job[w].offset = Len(job[w].order)
        /\ ToSet(job[w].order) \subseteq In(job[w].of) \cup In("deleted")

(* the Section rows that a transaction holds until it ends *)
LockInv(w) ==
    /\ job[w].step = "shifted" => Moved(w) = Reordered(w)
    /\ job[w].step = "replacing" => seriesRow = w /\ In("series") \subseteq Moved(w)
    /\ job[w].step \notin {"shifted", "replacing"} => Moved(w) = {}

(* the Meeting has no Section before it exists, and one request creates it *)
MeetingInv ==
    /\ ~meeting => In("meeting") = {}
    /\ \A v, w \in Worker : job[v].step = "copying" =>
          ~meeting /\ (job[w].step = "copying" => v = w)

IInv ==
    /\ TypeOK /\ job \in [Worker -> Jobs]
    /\ \A w \in Worker : OrderInv(w) /\ LockInv(w)
    /\ MeetingInv

USE NoOneAssumption, SectionAssumption
-----------------------------------------------------------------------------
(* Orders *)

LEMMA Indices ==
    ASSUME NEW order \in Seq(Section), Distinct(order)
    PROVE  /\ Len(order) \in Nat /\ ToSet(order) \subseteq Section
           /\ \A n \in 1..Len(order) : order[n] \in ToSet(order)
           /\ \A s \in ToSet(order) : /\ IndexIn(order, s) \in 1..Len(order)
                                      /\ order[IndexIn(order, s)] = s
<1>1. Len(order) \in Nat /\ DOMAIN order = 1..Len(order)
      /\ \A n \in 1..Len(order) : order[n] \in Section
  BY LenProperties, ElementOfSeq
<1>2. ToSet(order) \subseteq Section /\ \A n \in 1..Len(order) : order[n] \in ToSet(order)
  BY <1>1 DEF ToSet
<1>3. ASSUME NEW n \in 1..Len(order) PROVE IndexIn(order, order[n]) = n
  <2>1. {i \in 1..Len(order) : order[i] = order[n]} = {n}
    BY DEF Distinct
  <2>2. Min({n}) = n
    BY <1>1 DEF Min
  <2> QED BY <2>1, <2>2 DEF IndexIn, SelectInSeq
<1>4. ASSUME NEW s \in ToSet(order)
      PROVE  IndexIn(order, s) \in 1..Len(order) /\ order[IndexIn(order, s)] = s
  <2>1. PICK n \in 1..Len(order) : order[n] = s
    BY <1>1, <1>4 DEF ToSet
  <2> QED BY <1>3, <2>1
<1> QED BY <1>1, <1>2, <1>4

LEMMA Permutation ==
    ASSUME NEW S \in SUBSET Section, NEW order \in SetToAllKPermutations(S)
    PROVE  order \in Seq(Section) /\ Distinct(order) /\ ToSet(order) \subseteq S
<1>1. PICK T \in SUBSET S : order \in SetToSeqs(T)
  BY DEF SetToAllKPermutations
<1>2. IsFiniteSet(T) /\ Cardinality(T) \in Nat
  BY FS_Subset, FS_CardinalityType
<1>3. order \in [1..Cardinality(T) -> T]
      /\ \A m, n \in 1..Cardinality(T) : m # n => order[m] # order[n]
  BY <1>1 DEF SetToSeqs
<1>4. order \in Seq(Section) /\ Len(order) = Cardinality(T)
  BY <1>2, <1>3
<1> QED BY <1>3, <1>4 DEF Distinct, ToSet

(* A request that names every Section of a list, and as many, names each once. *)
LEMMA Complete ==
    ASSUME NEW S \in SUBSET Section, NEW order \in [1..Cardinality(S) -> S], ToSet(order) = S
    PROVE  order \in Seq(Section) /\ Distinct(order) /\ Len(order) = Cardinality(S)
           /\ Cardinality(S) \in Nat
<1> DEFINE N == Cardinality(S)
<1>1. IsFiniteSet(S) /\ N \in Nat
  BY FS_Subset, FS_CardinalityType
<1>2. order \in Seq(Section) /\ Len(order) = N
  BY <1>1
<1>3. order \in Surjection(1..N, S)
  BY DEF Surjection, ToSet
<1>4. IsFiniteSet(1..N) /\ Cardinality(1..N) = N
  BY <1>1, FS_Interval
<1>5. order \in Injection(1..N, S)
  BY <1>1, <1>3, <1>4, FS_SurjSameCardinalityImpliesInj
<1> QED BY <1>1, <1>2, <1>5 DEF Injection, IsInjective, Distinct

(* Different positions rank the Sections of a list from 0. *)
LEMMA Ranks ==
    ASSUME NEW S \in SUBSET Section, \A s \in S : position[s] \in Nat,
           \A s, t \in S : s # t => position[s] # position[t]
    PROVE  /\ Cardinality(S) \in Nat
           /\ \A s \in S : Cardinality(Before(S, s)) \in 0..(Cardinality(S) - 1)
           /\ \A s, t \in S : position[s] < position[t]
                              => Cardinality(Before(S, s)) < Cardinality(Before(S, t))
           /\ \A n \in 0..(Cardinality(S) - 1) : \E s \in S : Cardinality(Before(S, s)) = n
<1> DEFINE N == Cardinality(S)
           rank(s) == Cardinality(Before(S, s))
<1>1. IsFiniteSet(S) /\ N \in Nat
  BY FS_Subset, FS_CardinalityType
<1>2. ASSUME NEW s \in S PROVE IsFiniteSet(Before(S, s)) /\ rank(s) \in 0..(N - 1)
  <2>1. Before(S, s) \in SUBSET (S \ {s})
    BY DEF Before
  <2>2. IsFiniteSet(S \ {s}) /\ Cardinality(S \ {s}) = N - 1
    BY <1>1, FS_RemoveElement
  <2>3. IsFiniteSet(Before(S, s)) /\ rank(s) <= N - 1
    BY <2>1, <2>2, FS_Subset
  <2>4. rank(s) \in Nat
    BY <2>3, FS_CardinalityType
  <2> QED BY <1>1, <2>3, <2>4
<1>3. ASSUME NEW s \in S, NEW t \in S, position[s] < position[t] PROVE rank(s) < rank(t)
  <2>1. s \notin Before(S, s) /\ Before(S, s) \cup {s} \in SUBSET Before(S, t)
    BY <1>3 DEF Before
  <2>2. Cardinality(Before(S, s) \cup {s}) = rank(s) + 1
    BY <1>2, <2>1, FS_AddElement
  <2>3. Cardinality(Before(S, s) \cup {s}) <= rank(t)
    BY <1>2, <2>1, FS_Subset
  <2>4. rank(s) \in Nat /\ rank(t) \in Nat
    BY <1>1, <1>2
  <2> QED BY <2>2, <2>3, <2>4
<1> HIDE DEF rank
<1>4. ASSUME NEW s \in S, NEW t \in S, rank(s) = rank(t) PROVE s = t
  <2>1. rank(s) \in Nat /\ rank(t) \in Nat
    BY <1>1, <1>2
  <2>2. ~(position[s] < position[t]) /\ ~(position[t] < position[s])
    BY <1>3, <1>4, <2>1
  <2> QED BY <2>2
<1>5. \A n \in 0..(N - 1) : \E s \in S : rank(s) = n
  <2> DEFINE f == [s \in S |-> rank(s)]
  <2>1. f \in Injection(S, 0..(N - 1))
    BY <1>2, <1>4 DEF Injection, IsInjective
  <2>2. IsFiniteSet(0..(N - 1)) /\ Cardinality(0..(N - 1)) = N
    BY <1>1, FS_Interval
  <2>3. f \in Surjection(S, 0..(N - 1))
    BY <1>1, <2>1, <2>2, FS_Injection
  <2> QED BY <2>3 DEF Surjection
<1> QED BY <1>1, <1>2, <1>3, <1>5 DEF rank

(* A new Section at the end is behind every other one. *)
LEMMA LastPosition ==
    ASSUME TypeOK, NEW l \in Lists, In(l) # {}
    PROVE  /\ Max(Positions(In(l))) \in Nat
           /\ \A s \in In(l) : position[s] <= Max(Positions(In(l)))
<1> DEFINE S == In(l)
           N == Cardinality(S)
<1>1. S \in SUBSET Section /\ IsFiniteSet(S)
  BY FS_Subset DEF In
<1>2. \A s \in S : position[s] \in Nat
  BY <1>1 DEF TypeOK
<1>3. /\ N \in Nat /\ N # 0
      /\ \A s \in S : Cardinality(Before(S, s)) \in 0..(N - 1)
      /\ \A s, t \in S : position[s] < position[t]
                         => Cardinality(Before(S, s)) < Cardinality(Before(S, t))
      /\ \A n \in 0..(N - 1) : \E s \in S : Cardinality(Before(S, s)) = n
  <2>1. \A s, t \in S : s # t => position[s] # position[t]
    BY DEF TypeOK
  <2>2. N # 0
    BY <1>1, FS_EmptySet
  <2> HIDE DEF S
  <2> QED BY <1>1, <1>2, <2>1, <2>2, Ranks
<1> HIDE DEF S, N
<1>4. PICK s \in S : Cardinality(Before(S, s)) = N - 1
  BY <1>3
<1>5. \A t \in S : position[t] <= position[s]
  <2> TAKE t \in S
  <2>1. ~(position[s] < position[t])
    BY <1>3, <1>4
  <2> QED BY <1>2, <1>4, <2>1
<1>6. \A p \in Positions(S) : position[s] >= p
  BY <1>2, <1>5 DEF Positions
<1>7. position[s] \in Positions(S)
  BY DEF Positions
<1>8. Max(Positions(S)) \in Positions(S) /\ \A p \in Positions(S) : Max(Positions(S)) >= p
  BY <1>6, <1>7 DEF Max
<1>9. \A p \in Positions(S) : p \in Nat
  BY <1>2 DEF Positions
<1>10. \A t \in S : position[t] \in Positions(S)
  BY DEF Positions
<1>11. \A t \in S : position[t] <= Max(Positions(S))
  BY <1>8, <1>9, <1>10
<1> QED BY <1>8, <1>9, <1>11 DEF S

LEMMA OrderedType ==
    ASSUME TypeOK
    PROVE  Ordered(active) \in Seq(Section)
<1> DEFINE N == Cardinality(active)
<1>1. active \in SUBSET Section /\ active \subseteq In("series") /\ "series" \in Lists
  BY DEF TypeOK, In, Lists
<1>2. \A s \in active : position[s] \in Nat
  BY <1>1 DEF TypeOK
<1>3. \A s, t \in active : s # t => position[s] # position[t]
  BY <1>1 DEF TypeOK
<1>4. N \in Nat /\ \A n \in 0..(N - 1) : \E s \in active : Cardinality(Before(active, s)) = n
  BY <1>1, <1>2, <1>3, Ranks
<1>5. \A s \in active : Cardinality(Before(active, s)) \in Nat
  BY <1>1, <1>2, <1>3, <1>4, Ranks
<1>6. ASSUME NEW n \in 1..N
      PROVE  \E s \in active : Cardinality(Before(active, s)) + 1 = n
  <2>1. n - 1 \in 0..(N - 1)
    BY <1>4
  <2>2. PICK s \in active : Cardinality(Before(active, s)) = n - 1
    BY <1>4, <2>1
  <2>3. Cardinality(Before(active, s)) + 1 = n
    BY <1>4, <2>2
  <2> QED BY <2>3
<1>7. ASSUME NEW n \in 1..N PROVE Ordered(active)[n] \in Section
  BY <1>1, <1>6, <1>7 DEF Ordered
<1>8. Ordered(active) = [n \in 1..N |-> Ordered(active)[n]]
  BY DEF Ordered
<1> HIDE DEF N
<1> QED BY <1>4, <1>7, <1>8

-----------------------------------------------------------------------------
(* Steps of a transaction *)

Unique == \A l \in Lists : \A s, t \in In(l) : s # t => position[s] # position[t]

LEMMA NoJobIsJob == NoJob \in Jobs /\ NoJob.step = "idle"
BY EmptySeq DEF NoJob, Jobs

LEMMA WorkStep ==
    ASSUME job \in [Worker -> Jobs], NEW w \in Worker, NEW j \in Jobs, Work(w, j)
    PROVE  job' \in [Worker -> Jobs] /\ job'[w] = j /\ \A v \in Worker \ {w} : job'[v] = job[v]
BY DEF Work

LEMMA ReturnStep ==
    ASSUME IInv, NEW w \in Worker, Return(w)
    PROVE  /\ job' \in [Worker -> Jobs] /\ job'[w] = NoJob
           /\ \A v \in Worker \ {w} : /\ job'[v] = job[v] /\ Moved(v)' = Moved(v)
                                     /\ (seriesRow' = v <=> seriesRow = v)
           /\ Moved(w)' = {}
           /\ seriesRow' \in Worker \cup {NoOne}
           /\ sectionRow' \in [Section -> Worker \cup {NoOne}]
<1>1. job' \in [Worker -> Jobs] /\ job'[w] = NoJob /\ \A v \in Worker \ {w} : job'[v] = job[v]
  BY NoJobIsJob, WorkStep DEF Return, IInv
<1>2. seriesRow' \in Worker \cup {NoOne} /\ \A v \in Worker \ {w} : seriesRow' = v <=> seriesRow = v
  BY DEF Return, IInv, TypeOK
<1>3. /\ sectionRow' \in [Section -> Worker \cup {NoOne}]
      /\ \A s \in Section : sectionRow'[s] = IF sectionRow[s] = w THEN NoOne ELSE sectionRow[s]
  BY DEF Return, IInv, TypeOK
<1>4. Moved(w)' = {} /\ \A v \in Worker \ {w} : Moved(v)' = Moved(v)
  BY <1>3 DEF Moved
<1> QED BY <1>1, <1>2, <1>3, <1>4

(* What the others' steps leave of a request under way: they create Sections, *)
(* or delete those whose rows it does not hold.                               *)
LEMMA OtherRequests ==
    ASSUME IInv, NEW v \in Worker, job'[v] = job[v], Moved(v)' = Moved(v),
           seriesRow = v => seriesRow' = v /\ In("series")' \subseteq In("series"),
           \A s \in Section : \/ list'[s] = list[s]
                              \/ list[s] = "unborn"
                              \/ list'[s] = "deleted" /\ s \notin Moved(v)
    PROVE  OrderInv(v)' /\ LockInv(v)'
<1> USE DEF IInv
<1>1. OrderInv(v) /\ LockInv(v) /\ job[v] \in Jobs
  OBVIOUS
<1>2. OrderInv(v)'
  BY <1>1 DEF OrderInv, In, Lists
<1>3. job[v].step = "shifted" => Reordered(v)' = Reordered(v)
  <2> SUFFICES ASSUME job[v].step = "shifted" PROVE Reordered(v)' = Reordered(v)
    OBVIOUS
  <2>1. /\ job[v].of \in Lists /\ ToSet(job[v].order) \subseteq In(job[v].of) \cup In("deleted")
        /\ Moved(v) = Reordered(v)
    BY <1>1 DEF OrderInv, LockInv
  <2>2. ASSUME NEW s \in ToSet(job[v].order)
        PROVE  s \in In(job[v].of) <=> s \in In(job[v].of)'
    <3>1. s \in Section /\ (list[s] = job[v].of \/ list[s] = "deleted")
      BY <2>1 DEF In
    <3>2. \/ list'[s] = list[s]
          \/ list'[s] = "deleted" /\ s \notin Moved(v)
      BY <2>1, <3>1 DEF Lists
    <3>3. list[s] = job[v].of => s \in Moved(v)
      BY <2>1, <3>1 DEF Reordered, In
    <3> QED BY <2>1, <3>1, <3>2, <3>3 DEF In, Lists
  <2> QED BY <2>2 DEF Reordered
<1>4. LockInv(v)'
  BY <1>1, <1>3 DEF LockInv
<1> QED BY <1>2, <1>4

LEMMA RollbackInv ==
    ASSUME IInv, NEW w \in Worker, Rollback(w)
    PROVE  IInv'
<1>1. Return(w) /\ UNCHANGED stored
  BY DEF Rollback
<1>2. /\ job' \in [Worker -> Jobs] /\ job'[w] = NoJob
      /\ \A v \in Worker \ {w} : /\ job'[v] = job[v] /\ Moved(v)' = Moved(v)
                                /\ (seriesRow' = v <=> seriesRow = v)
      /\ Moved(w)' = {}
      /\ seriesRow' \in Worker \cup {NoOne}
      /\ sectionRow' \in [Section -> Worker \cup {NoOne}]
  BY <1>1, ReturnStep
<1>3. TypeOK'
  BY <1>1, <1>2 DEF IInv, TypeOK, stored, In
<1>4. ASSUME NEW v \in Worker PROVE OrderInv(v)' /\ LockInv(v)'
  <2>1. CASE v = w
    BY <1>2, <2>1, NoJobIsJob DEF OrderInv, LockInv
  <2>2. CASE v # w
    BY <1>1, <1>2, <2>2, OtherRequests DEF stored, In
  <2> QED BY <2>1, <2>2
<1>5. MeetingInv'
  BY <1>1, <1>2, NoJobIsJob DEF IInv, MeetingInv, stored, In
<1> QED BY <1>2, <1>3, <1>4, <1>5 DEF IInv

-----------------------------------------------------------------------------
(* Statements that commit at once *)

LEMMA CreateSectionInv ==
    ASSUME IInv, NEW l \in Lists, NEW s \in Section, CreateSection(l, s)
    PROVE  IInv'
<1> DEFINE p == IF In(l) = {} THEN 0 ELSE Max(Positions(In(l))) + 1
<1>1. /\ l = "series" => seriesRow = NoOne
      /\ l = "meeting" => meeting
      /\ list[s] = "unborn"
      /\ list' = [list EXCEPT ![s] = l] /\ position' = [position EXCEPT ![s] = p]
      /\ active' = IF l = "series" THEN active \cup {s} ELSE active
      /\ UNCHANGED <<source, meeting, rows, job>>
  BY DEF CreateSection
<1>2. p \in Nat /\ \A t \in In(l) : position[t] < p
  <2>1. CASE In(l) = {}
    BY <2>1
  <2>2. CASE In(l) # {}
    <3>1. /\ Max(Positions(In(l))) \in Nat
          /\ \A t \in In(l) : position[t] <= Max(Positions(In(l)))
      BY <2>2, LastPosition DEF IInv
    <3>2. \A t \in In(l) : position[t] \in Nat
      BY DEF IInv, TypeOK, In
    <3> QED BY <2>2, <3>1, <3>2
  <2> QED BY <2>1, <2>2
<1> HIDE DEF p
<1>3. /\ list \in [Section -> Lists \cup {"unborn", "deleted"}] /\ position \in [Section -> Nat]
      /\ active \subseteq In("series") /\ source \in [Section -> In("series") \cup {NoOne}]
  BY DEF IInv, TypeOK
<1>4. \A k \in Lists \cup {"deleted"} : In(k)' = IF k = l THEN In(k) \cup {s} ELSE In(k)
  BY <1>1, <1>3 DEF In, Lists
<1>5. TypeOK'
  <2>1. list' \in [Section -> Lists \cup {"unborn", "deleted"}] /\ position' \in [Section -> Nat]
    BY <1>1, <1>2, <1>3
  <2>2. active' \subseteq In("series")' /\ source' \in [Section -> In("series")' \cup {NoOne}]
    BY <1>1, <1>3, <1>4 DEF Lists
  <2>3. Unique'
    <3> SUFFICES ASSUME NEW k \in Lists, NEW t \in In(k)', NEW u \in In(k)', t # u
                 PROVE  position'[t] # position'[u]
      BY DEF Unique
    <3>1. t \in Section /\ u \in Section /\ position[t] \in Nat /\ position[u] \in Nat
      BY <1>3 DEF In
    <3>2. CASE t # s /\ u # s
      BY <1>1, <1>3, <1>4, <3>1, <3>2 DEF IInv, TypeOK
    <3>3. CASE t = s
      <4>1. u \in In(l) /\ position'[u] = position[u] /\ position'[t] = p
        BY <1>1, <1>3, <1>4, <3>1, <3>3 DEF In
      <4> QED BY <1>2, <3>1, <4>1
    <3>4. CASE u = s
      <4>1. t \in In(l) /\ position'[t] = position[t] /\ position'[u] = p
        BY <1>1, <1>3, <1>4, <3>1, <3>4 DEF In
      <4> QED BY <1>2, <3>1, <4>1
    <3> QED BY <3>2, <3>3, <3>4
  <2> QED BY <1>1, <2>1, <2>2, <2>3 DEF IInv, TypeOK, Unique, rows
<1>6. ASSUME NEW v \in Worker PROVE OrderInv(v)' /\ LockInv(v)'
  <2>1. Moved(v)' = Moved(v) /\ job'[v] = job[v]
    BY <1>1 DEF Moved, rows
  <2>2. seriesRow = v => seriesRow' = v /\ In("series")' \subseteq In("series")
    BY <1>1, <1>4 DEF rows, Lists
  <2>3. \A t \in Section : list'[t] = list[t] \/ list[t] = "unborn"
    BY <1>1, <1>3
  <2> QED BY <2>1, <2>2, <2>3, OtherRequests
<1>7. MeetingInv'
  BY <1>1, <1>4 DEF IInv, MeetingInv, Lists
<1> QED BY <1>1, <1>5, <1>6, <1>7 DEF IInv

LEMMA ToggleSectionInv ==
    ASSUME IInv, NEW s \in Section, ToggleSection(s)
    PROVE  IInv'
<1> USE DEF ToggleSection, rows
<1>1. active' \subseteq In("series")
  BY DEF IInv, TypeOK, In
<1>2. \A l : In(l)' = In(l)
  BY DEF In
<1>3. TypeOK'
  BY <1>1, <1>2 DEF IInv, TypeOK
<1>4. ASSUME NEW v \in Worker PROVE OrderInv(v)' /\ LockInv(v)'
  <2>1. Moved(v)' = Moved(v)
    BY DEF Moved
  <2> QED BY <1>2, <2>1, OtherRequests
<1>5. MeetingInv'
  BY <1>2 DEF IInv, MeetingInv
<1> QED BY <1>3, <1>4, <1>5 DEF IInv

LEMMA DeleteSectionInv ==
    ASSUME IInv, NEW s \in Section, DeleteSection(s)
    PROVE  IInv'
<1>1. /\ list[s] = "series" /\ sectionRow[s] = NoOne
      /\ list' = [list EXCEPT ![s] = "deleted"] /\ active' = active \ {s}
      /\ position' = [position EXCEPT ![s] = 0]
      /\ source' = [t \in Section |-> IF source[t] = s THEN NoOne ELSE source[t]]
      /\ UNCHANGED <<meeting, rows, job>>
  BY DEF DeleteSection, RowsFree
<1>2. /\ list \in [Section -> Lists \cup {"unborn", "deleted"}] /\ position \in [Section -> Nat]
      /\ active \subseteq In("series") /\ source \in [Section -> In("series") \cup {NoOne}]
  BY DEF IInv, TypeOK
<1>3. /\ \A k \in Lists : In(k)' = In(k) \ {s}
      /\ \A t \in Section \ {s} : list'[t] = list[t] /\ position'[t] = position[t]
      /\ list'[s] = "deleted"
  BY <1>1, <1>2 DEF In, Lists
<1>4. TypeOK'
  <2>1. list' \in [Section -> Lists \cup {"unborn", "deleted"}] /\ position' \in [Section -> Nat]
    BY <1>1, <1>2
  <2>2. active' \subseteq In("series")'
    BY <1>1, <1>2, <1>3 DEF Lists
  <2>3. source' \in [Section -> In("series")' \cup {NoOne}]
    BY <1>1, <1>2, <1>3 DEF Lists
  <2>4. Unique'
    <3> SUFFICES ASSUME NEW k \in Lists, NEW t \in In(k)', NEW u \in In(k)', t # u
                 PROVE  position'[t] # position'[u]
      BY DEF Unique
    <3>1. t \in Section \ {s} /\ u \in Section \ {s} /\ t \in In(k) /\ u \in In(k)
      BY <1>3 DEF In
    <3> QED BY <1>3, <3>1 DEF IInv, TypeOK
  <2> QED BY <1>1, <2>1, <2>2, <2>3, <2>4 DEF IInv, TypeOK, Unique, rows
<1>5. ASSUME NEW v \in Worker PROVE OrderInv(v)' /\ LockInv(v)'
  <2>1. Moved(v)' = Moved(v) /\ job'[v] = job[v] /\ s \notin Moved(v)
    BY <1>1 DEF Moved, rows
  <2>2. seriesRow = v => seriesRow' = v /\ In("series")' \subseteq In("series")
    BY <1>1, <1>3 DEF rows, Lists
  <2>3. \A t \in Section : \/ list'[t] = list[t]
                           \/ list'[t] = "deleted" /\ t \notin Moved(v)
    BY <1>3, <2>1
  <2> QED BY <2>1, <2>2, <2>3, OtherRequests
<1>6. MeetingInv'
  BY <1>1, <1>3 DEF IInv, MeetingInv, Lists
<1> QED BY <1>1, <1>4, <1>5, <1>6 DEF IInv

-----------------------------------------------------------------------------
(* The reorder *)

LEMMA BeginReorderInv ==
    ASSUME IInv, NEW w \in Worker, NEW l \in Lists, BeginReorder(w, l)
    PROVE  IInv'
<1>1. job[w] = NoJob /\ UNCHANGED <<stored, rows>>
  BY DEF BeginReorder
<1>2. PICK order \in [1..Cardinality(In(l)) -> In(l)] :
        /\ ToSet(order) = In(l)
        /\ Work(w, [step |-> "ordered", of |-> l, order |-> order, offset |-> Len(order)])
  BY DEF BeginReorder
<1> DEFINE j == [step |-> "ordered", of |-> l, order |-> order, offset |-> Len(order)]
<1>3. order \in Seq(Section) /\ Distinct(order) /\ Len(order) \in Nat
  <2>1. In(l) \in SUBSET Section
    BY DEF In
  <2> QED BY <1>2, <2>1, Complete
<1>4. j \in Jobs /\ j.step = "ordered" /\ j.of = l /\ j.order = order /\ j.offset = Len(order)
  BY <1>3 DEF Jobs
<1>5. job' \in [Worker -> Jobs] /\ job'[w] = j /\ \A v \in Worker \ {w} : job'[v] = job[v]
  BY <1>2, <1>4, WorkStep DEF IInv
<1> HIDE DEF j
<1>6. \A v : Moved(v)' = Moved(v)
  BY <1>1 DEF Moved, rows
<1>7. \A k : In(k)' = In(k)
  BY <1>1 DEF In, stored
<1>8. TypeOK'
  BY <1>1, <1>7 DEF IInv, TypeOK, stored, rows
<1>9. ASSUME NEW v \in Worker PROVE OrderInv(v)' /\ LockInv(v)'
  <2>1. CASE v = w
    <3>1. Moved(w) = {}
      BY <1>1, NoJobIsJob DEF IInv, LockInv
    <3>2. OrderInv(w)'
      BY <1>2, <1>3, <1>4, <1>5, <1>7 DEF OrderInv
    <3>3. LockInv(w)'
      BY <1>4, <1>5, <1>6, <3>1 DEF LockInv
    <3> QED BY <2>1, <3>2, <3>3
  <2>2. CASE v # w
    BY <1>1, <1>5, <1>6, <1>7, <2>2, OtherRequests DEF stored, rows
  <2> QED BY <2>1, <2>2
<1>10. MeetingInv'
  BY <1>1, <1>4, <1>5, <1>7 DEF IInv, MeetingInv, stored
<1> QED BY <1>5, <1>8, <1>9, <1>10 DEF IInv

LEMMA ShiftInv ==
    ASSUME IInv, NEW w \in Worker, Shift(w)
    PROVE  IInv'
<1> DEFINE j == [job[w] EXCEPT !.step = "shifted"]
<1>1. /\ job[w].step = "ordered" /\ RowsFree(Reordered(w)) /\ Work(w, j)
      /\ sectionRow' = [s \in Section |-> IF s \in Reordered(w) THEN w ELSE sectionRow[s]]
      /\ UNCHANGED <<stored, seriesRow>>
  BY DEF Shift
<1>2. j \in Jobs /\ j.step = "shifted" /\ j.of = job[w].of /\ j.order = job[w].order
      /\ j.offset = job[w].offset
  BY DEF IInv, Jobs
<1>3. job' \in [Worker -> Jobs] /\ job'[w] = j /\ \A v \in Worker \ {w} : job'[v] = job[v]
  BY <1>1, <1>2, WorkStep DEF IInv
<1> HIDE DEF j
<1>4. \A k : In(k)' = In(k)
  BY <1>1 DEF In, stored
<1>5. Reordered(w) \subseteq Section /\ Reordered(w)' = Reordered(w)
  BY <1>2, <1>3, <1>4 DEF Reordered, In
<1>6. Moved(w) = {}
  BY <1>1 DEF IInv, LockInv
<1>7. Moved(w)' = Reordered(w)
  BY <1>1, <1>5, <1>6 DEF Moved
<1>8. ASSUME NEW v \in Worker \ {w} PROVE Moved(v)' = Moved(v)
  BY <1>1 DEF Moved, RowsFree
<1>9. TypeOK'
  BY <1>1, <1>4 DEF IInv, TypeOK, stored
<1>10. ASSUME NEW v \in Worker PROVE OrderInv(v)' /\ LockInv(v)'
  <2>1. CASE v = w
    <3>1. OrderInv(w)'
      BY <1>1, <1>2, <1>3, <1>4 DEF IInv, OrderInv
    <3>2. LockInv(w)'
      BY <1>2, <1>3, <1>5, <1>7 DEF LockInv
    <3> QED BY <2>1, <3>1, <3>2
  <2>2. CASE v # w
    BY <1>1, <1>3, <1>4, <1>8, <2>2, OtherRequests DEF stored
  <2> QED BY <2>1, <2>2
<1>11. MeetingInv'
  BY <1>1, <1>2, <1>3, <1>4 DEF IInv, MeetingInv, stored
<1> QED BY <1>3, <1>9, <1>10, <1>11 DEF IInv

(* The Sections that a reorder moves, and where to. *)
LEMMA Placing ==
    ASSUME IInv, NEW w \in Worker, job[w].step = "shifted"
    PROVE  /\ job[w].of \in Lists /\ Moved(w) = Reordered(w)
           /\ Moved(w) \subseteq In(job[w].of) /\ Moved(w) \subseteq Section
           /\ \A s \in Moved(w) : PlaceOf(w, s) \in Nat
           /\ \A s, t \in Moved(w) : s # t => PlaceOf(w, s) # PlaceOf(w, t)
<1>1. /\ job[w].of \in Lists /\ Moved(w) = Reordered(w) /\ Distinct(job[w].order)
      /\ job[w].order \in Seq(Section)
  BY DEF IInv, OrderInv, LockInv, Jobs
<1>2. Moved(w) \subseteq In(job[w].of) /\ Moved(w) \subseteq Section
  BY <1>1 DEF Reordered, In
<1>3. \A s \in Moved(w) : s \in ToSet(job[w].order)
  BY <1>1 DEF Reordered
<1>4. /\ Len(job[w].order) \in Nat
      /\ \A s \in ToSet(job[w].order) : /\ IndexIn(job[w].order, s) \in 1..Len(job[w].order)
                                         /\ job[w].order[IndexIn(job[w].order, s)] = s
  BY <1>1, Indices
<1>5. ASSUME NEW s \in Moved(w) PROVE PlaceOf(w, s) \in Nat
  BY <1>3, <1>4 DEF PlaceOf
<1>6. ASSUME NEW s \in Moved(w), NEW t \in Moved(w), PlaceOf(w, s) = PlaceOf(w, t) PROVE s = t
  <2>1. /\ IndexIn(job[w].order, s) \in Nat /\ IndexIn(job[w].order, t) \in Nat
        /\ job[w].order[IndexIn(job[w].order, s)] = s
        /\ job[w].order[IndexIn(job[w].order, t)] = t
    BY <1>3, <1>4
  <2>2. IndexIn(job[w].order, s) = IndexIn(job[w].order, t)
    BY <1>6, <2>1 DEF PlaceOf
  <2> QED BY <2>1, <2>2
<1> QED BY <1>1, <1>2, <1>5, <1>6

LEMMA PlaceInv ==
    ASSUME IInv, NEW w \in Worker, Place(w)
    PROVE  IInv'
<1>1. /\ job[w].step = "shifted" /\ ~PlaceCollides(w) /\ Return(w)
      /\ position' = [s \in Section |-> IF s \in Moved(w) THEN PlaceOf(w, s) ELSE position[s]]
      /\ UNCHANGED <<list, active, source, meeting>>
  BY DEF Place
<1>2. /\ job' \in [Worker -> Jobs] /\ job'[w] = NoJob
      /\ \A v \in Worker \ {w} : /\ job'[v] = job[v] /\ Moved(v)' = Moved(v)
                                /\ (seriesRow' = v <=> seriesRow = v)
      /\ Moved(w)' = {}
      /\ seriesRow' \in Worker \cup {NoOne}
      /\ sectionRow' \in [Section -> Worker \cup {NoOne}]
  BY <1>1, ReturnStep
<1>3. /\ job[w].of \in Lists /\ Moved(w) = Reordered(w)
      /\ Moved(w) \subseteq In(job[w].of) /\ Moved(w) \subseteq Section
      /\ \A s \in Moved(w) : PlaceOf(w, s) \in Nat
      /\ \A s, t \in Moved(w) : s # t => PlaceOf(w, s) # PlaceOf(w, t)
  BY <1>1, Placing
<1>4. \A k : In(k)' = In(k)
  BY <1>1 DEF In
<1>5. TypeOK'
  <2>1. position' \in [Section -> Nat]
    BY <1>1, <1>3 DEF IInv, TypeOK
  <2>2. ASSUME NEW k \in Lists, NEW s \in In(k), NEW t \in In(k), s \in Moved(w), t \notin Moved(w)
        PROVE  position'[s] # position'[t]
    <3>1. s \in Section /\ t \in Section /\ k = job[w].of
      BY <1>3, <2>2 DEF In
    <3>2. t \in Others(w)
      BY <1>3, <2>2, <3>1 DEF Others, Reordered
    <3>3. PlaceOf(w, s) # position[t]
      BY <1>1, <2>2, <3>2 DEF PlaceCollides, Positions
    <3> QED BY <1>1, <2>2, <3>1, <3>3
  <2>3. Unique'
    <3> SUFFICES ASSUME NEW k \in Lists, NEW s \in In(k), NEW t \in In(k), s # t
                 PROVE  position'[s] # position'[t]
      BY <1>4 DEF Unique
    <3>1. s \in Section /\ t \in Section
      BY DEF In
    <3>2. CASE s \in Moved(w) /\ t \in Moved(w)
      BY <1>1, <1>3, <3>1, <3>2
    <3>3. CASE s \notin Moved(w) /\ t \notin Moved(w)
      BY <1>1, <3>1, <3>3 DEF IInv, TypeOK
    <3>4. CASE s \in Moved(w) /\ t \notin Moved(w)
      BY <2>2, <3>4
    <3>5. CASE s \notin Moved(w) /\ t \in Moved(w)
      BY <2>2, <3>5
    <3> QED BY <3>2, <3>3, <3>4, <3>5
  <2> QED BY <1>1, <1>2, <1>4, <2>1, <2>3 DEF IInv, TypeOK, Unique
<1>6. ASSUME NEW v \in Worker PROVE OrderInv(v)' /\ LockInv(v)'
  <2>1. CASE v = w
    BY <1>2, <2>1, NoJobIsJob DEF OrderInv, LockInv
  <2>2. CASE v # w
    BY <1>1, <1>2, <1>4, <2>2, OtherRequests
  <2> QED BY <2>1, <2>2
<1>7. MeetingInv'
  BY <1>1, <1>2, <1>4, NoJobIsJob DEF IInv, MeetingInv
<1> QED BY <1>2, <1>5, <1>6, <1>7 DEF IInv

-----------------------------------------------------------------------------
(* The import and the snapshot *)

LEMMA BeginReplaceInv ==
    ASSUME IInv, NEW w \in Worker, BeginReplace(w)
    PROVE  IInv'
<1> DEFINE j == [NoJob EXCEPT !.step = "replacing"]
           S == In("series") \cup Snapshots(In("series"))
<1>1. /\ job[w] = NoJob /\ seriesRow = NoOne /\ RowsFree(S) /\ Work(w, j) /\ seriesRow' = w
      /\ sectionRow' = [s \in Section |-> IF s \in S THEN w ELSE sectionRow[s]]
      /\ UNCHANGED stored
  BY DEF BeginReplace
<1>2. j \in Jobs /\ j.step = "replacing"
  BY NoJobIsJob DEF Jobs, NoJob
<1>3. job' \in [Worker -> Jobs] /\ job'[w] = j /\ \A v \in Worker \ {w} : job'[v] = job[v]
  BY <1>1, <1>2, WorkStep DEF IInv
<1> HIDE DEF j
<1>4. \A k : In(k)' = In(k)
  BY <1>1 DEF In, stored
<1>5. In("series") \subseteq Moved(w)'
  BY <1>1 DEF Moved, In
<1>6. ASSUME NEW v \in Worker \ {w} PROVE Moved(v)' = Moved(v) /\ seriesRow # v
  BY <1>1 DEF Moved, RowsFree
<1>7. TypeOK'
  BY <1>1, <1>4 DEF IInv, TypeOK, stored
<1>8. ASSUME NEW v \in Worker PROVE OrderInv(v)' /\ LockInv(v)'
  <2>1. CASE v = w
    BY <1>1, <1>2, <1>3, <1>4, <1>5, <2>1 DEF OrderInv, LockInv
  <2>2. CASE v # w
    BY <1>1, <1>3, <1>4, <1>6, <2>2, OtherRequests DEF stored
  <2> QED BY <2>1, <2>2
<1>9. MeetingInv'
  BY <1>1, <1>2, <1>3, <1>4 DEF IInv, MeetingInv, stored
<1> QED BY <1>3, <1>7, <1>8, <1>9 DEF IInv

LEMMA CommitReplaceInv ==
    ASSUME IInv, NEW w \in Worker, CommitReplace(w)
    PROVE  IInv'
<1> DEFINE old == In("series")
<1>1. /\ job[w].step = "replacing" /\ Return(w) /\ meeting' = meeting
      /\ source' = [s \in Section |-> IF source[s] \in old THEN NoOne ELSE source[s]]
  BY DEF CommitReplace
<1>2. PICK new \in SUBSET In("unborn") : \E order \in SetToAllKPermutations(new), on \in SUBSET new :
        /\ ToSet(order) = new
        /\ list' = [s \in Section |-> IF s \in old THEN "deleted"
                                      ELSE IF s \in new THEN "series" ELSE list[s]]
        /\ position' = [s \in Section |-> IF s \in new THEN IndexIn(order, s) - 1
                                          ELSE IF s \in old THEN 0 ELSE position[s]]
        /\ active' = on
  BY DEF CommitReplace
<1>3. PICK order \in SetToAllKPermutations(new) :
        /\ ToSet(order) = new
        /\ list' = [s \in Section |-> IF s \in old THEN "deleted"
                                      ELSE IF s \in new THEN "series" ELSE list[s]]
        /\ position' = [s \in Section |-> IF s \in new THEN IndexIn(order, s) - 1
                                          ELSE IF s \in old THEN 0 ELSE position[s]]
        /\ active' \subseteq new
  BY <1>2
<1>4. /\ job' \in [Worker -> Jobs] /\ job'[w] = NoJob
      /\ \A v \in Worker \ {w} : /\ job'[v] = job[v] /\ Moved(v)' = Moved(v)
                                /\ (seriesRow' = v <=> seriesRow = v)
      /\ Moved(w)' = {}
      /\ seriesRow' \in Worker \cup {NoOne}
      /\ sectionRow' \in [Section -> Worker \cup {NoOne}]
  BY <1>1, ReturnStep
<1>5. /\ list \in [Section -> Lists \cup {"unborn", "deleted"}] /\ position \in [Section -> Nat]
      /\ active \subseteq In("series") /\ source \in [Section -> In("series") \cup {NoOne}]
  BY DEF IInv, TypeOK
<1>6. new \in SUBSET Section /\ new \cap old = {}
  BY DEF In
<1>7. /\ Len(order) \in Nat
      /\ \A s \in new : IndexIn(order, s) \in 1..Len(order) /\ order[IndexIn(order, s)] = s
  BY <1>3, <1>6, Permutation, Indices
<1>8. In("series")' = new /\ In("meeting")' = In("meeting")
  BY <1>3, <1>5, <1>6 DEF In, Lists
<1>9. \A s \in new : position'[s] = IndexIn(order, s) - 1
  BY <1>3, <1>6
<1>10. \A s \in In("meeting") : position'[s] = position[s]
  BY <1>3, <1>5 DEF In
<1>11. TypeOK'
  <2>1. list' \in [Section -> Lists \cup {"unborn", "deleted"}]
    BY <1>3, <1>5 DEF Lists
  <2>2. position' \in [Section -> Nat]
    <3>1. \A s \in new : IndexIn(order, s) - 1 \in Nat
      BY <1>7
    <3> QED BY <1>3, <1>5, <3>1
  <2>3. source' \in [Section -> In("series")' \cup {NoOne}]
    BY <1>1, <1>5
  <2>4. Unique'
    <3> SUFFICES ASSUME NEW k \in Lists, NEW s \in In(k)', NEW t \in In(k)', s # t
                 PROVE  position'[s] # position'[t]
      BY DEF Unique
    <3>1. CASE k = "series"
      <4>1. s \in new /\ t \in new
        BY <1>8, <3>1
      <4>2. IndexIn(order, s) # IndexIn(order, t) /\ IndexIn(order, s) \in Nat
            /\ IndexIn(order, t) \in Nat
        BY <1>7, <4>1
      <4> QED BY <1>9, <4>1, <4>2
    <3>2. CASE k = "meeting"
      BY <1>8, <1>10, <3>2 DEF IInv, TypeOK
    <3> QED BY <3>1, <3>2 DEF Lists
  <2> QED BY <1>1, <1>3, <1>4, <1>8, <2>1, <2>2, <2>3, <2>4 DEF IInv, TypeOK, Unique
<1>12. ASSUME NEW v \in Worker PROVE OrderInv(v)' /\ LockInv(v)'
  <2>1. CASE v = w
    BY <1>4, <2>1, NoJobIsJob DEF OrderInv, LockInv
  <2>2. CASE v # w
    <3>1. seriesRow = w /\ old \subseteq Moved(w)
      BY <1>1 DEF IInv, LockInv
    <3>2. Moved(v) \cap old = {}
      BY <2>2, <3>1 DEF Moved
    <3>3. \A s \in Section : \/ list'[s] = list[s]
                             \/ list[s] = "unborn"
                             \/ list'[s] = "deleted" /\ s \notin Moved(v)
      BY <1>3, <3>2 DEF In
    <3> QED BY <1>4, <2>2, <3>1, <3>3, OtherRequests
  <2> QED BY <2>1, <2>2
<1>13. MeetingInv'
  BY <1>1, <1>4, <1>8, NoJobIsJob DEF IInv, MeetingInv
<1> QED BY <1>4, <1>11, <1>12, <1>13 DEF IInv

LEMMA BeginSnapshotInv ==
    ASSUME IInv, NEW w \in Worker, BeginSnapshot(w)
    PROVE  IInv'
<1> DEFINE j == [step |-> "copying", of |-> "none", order |-> Ordered(active), offset |-> 0]
<1>1. /\ job[w] = NoJob /\ ~meeting /\ Work(w, j) /\ \A v \in Worker : job[v].step # "copying"
      /\ UNCHANGED <<stored, rows>>
  BY DEF BeginSnapshot
<1>2. j \in Jobs /\ j.step = "copying"
  <2>1. Ordered(active) \in Seq(Section)
    BY OrderedType DEF IInv
  <2> QED BY <2>1 DEF Jobs
<1>3. job' \in [Worker -> Jobs] /\ job'[w] = j /\ \A v \in Worker \ {w} : job'[v] = job[v]
  BY <1>1, <1>2, WorkStep DEF IInv
<1> HIDE DEF j
<1>4. \A k : In(k)' = In(k)
  BY <1>1 DEF In, stored
<1>5. \A v : Moved(v)' = Moved(v)
  BY <1>1 DEF Moved, rows
<1>6. TypeOK'
  BY <1>1, <1>4 DEF IInv, TypeOK, stored, rows
<1>7. ASSUME NEW v \in Worker PROVE OrderInv(v)' /\ LockInv(v)'
  <2>1. CASE v = w
    <3>1. Moved(w) = {}
      BY <1>1, NoJobIsJob DEF IInv, LockInv
    <3> QED BY <1>2, <1>3, <1>5, <2>1, <3>1 DEF OrderInv, LockInv
  <2>2. CASE v # w
    BY <1>1, <1>3, <1>4, <1>5, <2>2, OtherRequests DEF stored, rows
  <2> QED BY <2>1, <2>2
<1>8. MeetingInv'
  BY <1>1, <1>2, <1>3, <1>4 DEF IInv, MeetingInv, stored
<1> QED BY <1>3, <1>6, <1>7, <1>8 DEF IInv

LEMMA CommitSnapshotInv ==
    ASSUME IInv, NEW w \in Worker, CommitSnapshot(w)
    PROVE  IInv'
<1> DEFINE copied == job[w].order
<1>1. CASE Rollback(w)
  BY <1>1, RollbackInv
<1>2. CASE ~Rollback(w)
  <2>1. job[w].step = "copying" /\ ToSet(copied) \subseteq In("series") /\ Return(w)
        /\ meeting' = TRUE /\ active' = active
    BY <1>2 DEF CommitSnapshot
  <2>2. PICK copies \in SetToAllKPermutations(In("unborn")) :
          /\ Len(copies) = Len(copied)
          /\ list' = [s \in Section |-> IF s \in ToSet(copies) THEN "meeting" ELSE list[s]]
          /\ position' = [s \in Section |-> IF s \in ToSet(copies)
                                            THEN IndexIn(copies, s) - 1 ELSE position[s]]
          /\ source' = [s \in Section |-> IF s \in ToSet(copies)
                                          THEN copied[IndexIn(copies, s)] ELSE source[s]]
    BY <1>2 DEF CommitSnapshot
  <2> DEFINE new == ToSet(copies)
  <2>3. /\ job' \in [Worker -> Jobs] /\ job'[w] = NoJob
        /\ \A v \in Worker \ {w} : /\ job'[v] = job[v] /\ Moved(v)' = Moved(v)
                                  /\ (seriesRow' = v <=> seriesRow = v)
        /\ Moved(w)' = {}
        /\ seriesRow' \in Worker \cup {NoOne}
        /\ sectionRow' \in [Section -> Worker \cup {NoOne}]
    BY <2>1, ReturnStep
  <2>4. /\ list \in [Section -> Lists \cup {"unborn", "deleted"}] /\ position \in [Section -> Nat]
        /\ active \subseteq In("series") /\ source \in [Section -> In("series") \cup {NoOne}]
    BY DEF IInv, TypeOK
  <2>5. In("unborn") \in SUBSET Section
    BY DEF In
  <2>6. /\ new \subseteq In("unborn") /\ Len(copies) \in Nat
        /\ \A s \in new : IndexIn(copies, s) \in 1..Len(copies) /\ copies[IndexIn(copies, s)] = s
    BY <2>2, <2>5, Permutation, Indices
  <2>7. \A n \in 1..Len(copies) : copied[n] \in In("series")
    <3>1. copied \in Seq(Section)
      BY DEF IInv, Jobs
    <3>2. DOMAIN copied = 1..Len(copied)
      BY <3>1, LenProperties
    <3> QED BY <2>1, <2>2, <3>2 DEF ToSet
  <2> HIDE DEF new
  <2>8. In("meeting") = {}
    BY <2>1 DEF IInv, MeetingInv
  <2>9. In("series")' = In("series") /\ In("meeting")' = new
    BY <2>2, <2>4, <2>5, <2>6, <2>8 DEF In, new
  <2>10. /\ \A s \in new : /\ position'[s] = IndexIn(copies, s) - 1
                           /\ source'[s] = copied[IndexIn(copies, s)]
         /\ \A s \in Section \ new : position'[s] = position[s] /\ source'[s] = source[s]
    BY <2>2, <2>5, <2>6 DEF new
  <2>11. TypeOK'
    <3>1. list' \in [Section -> Lists \cup {"unborn", "deleted"}]
      BY <2>2, <2>4 DEF Lists
    <3>2. position' \in [Section -> Nat]
      <4>1. \A s \in new : IndexIn(copies, s) - 1 \in Nat
        BY <2>6
      <4> QED BY <2>2, <2>4, <4>1 DEF new
    <3>3. source' \in [Section -> In("series")' \cup {NoOne}]
      <4>1. \A s \in new : copied[IndexIn(copies, s)] \in In("series")
        BY <2>6, <2>7
      <4> QED BY <2>2, <2>4, <2>9, <4>1 DEF new
    <3>4. Unique'
      <4> SUFFICES ASSUME NEW k \in Lists, NEW s \in In(k)', NEW t \in In(k)', s # t
                   PROVE  position'[s] # position'[t]
        BY DEF Unique
      <4>1. CASE k = "meeting"
        <5>1. s \in new /\ t \in new
          BY <2>9, <4>1
        <5>2. IndexIn(copies, s) # IndexIn(copies, t) /\ IndexIn(copies, s) \in Nat
              /\ IndexIn(copies, t) \in Nat
          BY <2>6, <5>1
        <5> QED BY <2>10, <5>1, <5>2
      <4>2. CASE k = "series"
        <5>1. s \in In("series") /\ t \in In("series")
          BY <2>9, <4>2
        <5>2. s \in Section \ new /\ t \in Section \ new
          BY <2>6, <5>1 DEF In
        <5> QED BY <2>10, <4>2, <5>1, <5>2 DEF IInv, TypeOK
      <4> QED BY <4>1, <4>2 DEF Lists
    <3> QED BY <2>1, <2>3, <2>4, <2>9, <3>1, <3>2, <3>3, <3>4 DEF TypeOK, Unique
  <2>12. ASSUME NEW v \in Worker PROVE OrderInv(v)' /\ LockInv(v)'
    <3>1. CASE v = w
      BY <2>3, <3>1, NoJobIsJob DEF OrderInv, LockInv
    <3>2. CASE v # w
      <4>1. \A s \in Section : list'[s] = list[s] \/ list[s] = "unborn"
        BY <2>2, <2>6 DEF In, new
      <4> QED BY <2>3, <2>9, <3>2, <4>1, OtherRequests
    <3> QED BY <3>1, <3>2
  <2>13. MeetingInv'
    BY <2>1, <2>3, NoJobIsJob DEF IInv, MeetingInv
  <2> QED BY <2>3, <2>11, <2>12, <2>13 DEF IInv
<1> QED BY <1>1, <1>2

-----------------------------------------------------------------------------

LEMMA InitInv == Init => IInv
<1> SUFFICES ASSUME Init PROVE IInv
  OBVIOUS
<1>1. /\ list = [s \in Section |-> "unborn"] /\ position = [s \in Section |-> 0]
      /\ active = {} /\ source = [s \in Section |-> NoOne] /\ meeting = FALSE
      /\ seriesRow = NoOne /\ sectionRow = [s \in Section |-> NoOne]
      /\ job = [w \in Worker |-> NoJob]
  BY DEF Init
<1>2. \A l \in Lists : In(l) = {}
  BY <1>1 DEF In, Lists
<1>3. TypeOK
  BY <1>1, <1>2 DEF TypeOK
<1>4. job \in [Worker -> Jobs] /\ \A w \in Worker : job[w].step = "idle"
  BY <1>1, NoJobIsJob
<1>5. \A w \in Worker : Moved(w) = {}
  BY <1>1 DEF Moved
<1>6. \A w \in Worker : OrderInv(w) /\ LockInv(w)
  BY <1>4, <1>5 DEF OrderInv, LockInv
<1>7. MeetingInv
  BY <1>2, <1>4 DEF MeetingInv, Lists
<1> QED BY <1>3, <1>4, <1>6, <1>7 DEF IInv

LEMMA NextInv == IInv /\ [Next]_vars => IInv'
<1> SUFFICES ASSUME IInv, [Next]_vars PROVE IInv'
  OBVIOUS
<1>1. ASSUME NEW s \in Section,
             ToggleSection(s) \/ DeleteSection(s) \/ \E l \in Lists : CreateSection(l, s)
      PROVE  IInv'
  BY <1>1, ToggleSectionInv, DeleteSectionInv, CreateSectionInv
<1>2. ASSUME NEW w \in Worker, NEW l \in Lists, BeginReorder(w, l) PROVE IInv'
  BY <1>2, BeginReorderInv
<1>3. ASSUME NEW w \in Worker, Shift(w) \/ ShiftFails(w) \/ Place(w) \/ PlaceFails(w) PROVE IInv'
  <2>1. CASE Shift(w)
    BY <2>1, ShiftInv
  <2>2. CASE ShiftFails(w) \/ PlaceFails(w)
    BY <2>2, RollbackInv DEF ShiftFails, PlaceFails
  <2>3. CASE Place(w)
    BY <2>3, PlaceInv
  <2> QED BY <1>3, <2>1, <2>2, <2>3
<1>4. ASSUME NEW w \in Worker,
             BeginReplace(w) \/ CommitReplace(w) \/ BeginSnapshot(w) \/ CommitSnapshot(w)
      PROVE  IInv'
  BY <1>4, BeginReplaceInv, CommitReplaceInv, BeginSnapshotInv, CommitSnapshotInv
<1>5. CASE UNCHANGED vars
  <2> USE <1>5 DEF vars, stored, rows
  <2>1. (\A l : In(l)' = In(l)) /\ (\A w : Moved(w)' = Moved(w)) /\ job' = job
        /\ \A w : Reordered(w)' = Reordered(w)
    BY DEF In, Moved, Reordered
  <2>2. TypeOK'
    BY <2>1 DEF IInv, TypeOK
  <2>3. \A w \in Worker : OrderInv(w)' /\ LockInv(w)'
    BY <2>1 DEF IInv, OrderInv, LockInv
  <2>4. MeetingInv'
    BY <2>1 DEF IInv, MeetingInv
  <2> QED BY <2>1, <2>2, <2>3, <2>4 DEF IInv
<1> QED BY <1>1, <1>2, <1>3, <1>4, <1>5 DEF Next

LEMMA Invariance == Spec => []IInv
<1>1. Init => IInv
  BY InitInv
<1>2. IInv /\ [Next]_vars => IInv'
  BY NextInv
<1> QED BY <1>1, <1>2, PTL DEF Spec

-----------------------------------------------------------------------------
(* The theorems about Sections *)

(* No two Sections of a list ever get the same position, through creations, *)
(* deletions, reorders, imports and snapshots at the same time (the unique  *)
(* constraints on position that services.py works around).                 *)
THEOREM PositionsUnique == Spec => []TypeOK
BY Invariance, PTL DEF IInv

(* reorder_series_sections and reorder_meeting_sections: the named Sections *)
(* that still exist are in the requested order once the reorder commits.    *)
THEOREM ReorderSafe == Spec => ReorderExact
<1> DEFINE Exact == \A w \in Worker : Place(w) =>
         \A s, t \in ToSet(job[w].order) :
            s \in In(job[w].of) /\ t \in In(job[w].of) /\ PlaceOf(w, s) < PlaceOf(w, t)
            => position'[s] < position'[t]
<1>1. IInv => [Exact]_vars
  <2> SUFFICES ASSUME IInv, NEW w \in Worker, Place(w),
                      NEW s \in ToSet(job[w].order), NEW t \in ToSet(job[w].order),
                      s \in In(job[w].of), t \in In(job[w].of), PlaceOf(w, s) < PlaceOf(w, t)
               PROVE  position'[s] < position'[t]
    OBVIOUS
  <2>1. job[w].step = "shifted"
        /\ position' = [u \in Section |-> IF u \in Moved(w) THEN PlaceOf(w, u) ELSE position[u]]
    BY DEF Place
  <2>2. Moved(w) = Reordered(w) /\ Moved(w) \subseteq Section
    BY <2>1, Placing
  <2>3. s \in Moved(w) /\ t \in Moved(w)
    BY <2>2 DEF Reordered
  <2> QED BY <2>1, <2>2, <2>3
<1> QED BY <1>1, Invariance, PTL DEF Spec, ReorderExact

(* A reorder fails only where a gap, or a Section created or deleted since    *)
(* the request was validated, makes the two updates of reorder_series_sections *)
(* or reorder_meeting_sections collide.                                       *)
THEOREM UndisturbedSafe == Spec => UndisturbedReorderSucceeds
<1> DEFINE Undisturbed == \A w \in Worker : ShiftFails(w) \/ PlaceFails(w) =>
         \/ In(job[w].of) # ToSet(job[w].order)
         \/ Positions(In(job[w].of)) # 0..(Len(job[w].order) - 1)
<1>1. IInv => [Undisturbed]_vars
  <2> SUFFICES ASSUME IInv, NEW w \in Worker, ShiftFails(w) \/ PlaceFails(w),
                      In(job[w].of) = ToSet(job[w].order),
                      Positions(In(job[w].of)) = 0..(Len(job[w].order) - 1)
               PROVE  FALSE
    OBVIOUS
  <2>1. CASE ShiftFails(w)
    <3>1. job[w].step = "ordered" /\ ShiftCollides(w)
      BY <2>1 DEF ShiftFails
    <3>2. job[w].offset = Len(job[w].order) /\ Len(job[w].order) \in Nat
      BY <3>1, LenProperties DEF IInv, OrderInv, Jobs
    <3>3. PICK s \in Reordered(w) : position[s] + job[w].offset \in Positions(In(job[w].of))
      BY <3>1 DEF ShiftCollides
    <3>4. position[s] \in Nat
      BY <3>3 DEF Reordered, In, IInv, TypeOK
    <3> QED BY <3>2, <3>3, <3>4
  <2>2. CASE PlaceFails(w)
    <3>1. PlaceCollides(w)
      BY <2>2 DEF PlaceFails
    <3>2. Others(w) = {}
      BY DEF Others
    <3> QED BY <3>1, <3>2 DEF PlaceCollides, Positions
  <2> QED BY <2>1, <2>2
<1> QED BY <1>1, Invariance, PTL DEF Spec, UndisturbedReorderSucceeds
=============================================================================
