------------------------ MODULE MCRecurrenceCalendar ------------------------
(* Rules that start around the end of February of a leap year, in the      *)
(* middle of a week, and on the last days of months, with every kind of    *)
(* end: days 30, 59 and 212 are January 31, February 29 and July 31, 2024. *)
EXTENDS RecurrenceCalendar

Ends(start) == {<<NoLimit, NoLimit>>, <<start + 40, NoLimit>>, <<NoLimit, 1>>, <<NoLimit, 3>>}

Schedules(frequency, intervals, patterns, starts) ==
  UNION {{[frequency |-> frequency, interval |-> i, weekdays |-> w, start |-> s,
           end |-> e[1], count |-> e[2]] : i \in intervals, w \in patterns, e \in Ends(s)}
         : s \in starts}

MCRules ==
  Schedules("daily", {1, 3}, {{}}, {58})
  \cup Schedules("weekly", {1, 2}, {{2}, {0, 2, 6}}, {58})
  \cup Schedules("monthly", {1, 5, 7, 12}, {{}}, {30, 59, 212})

MCSooner == {-40, 0, 1, 6}
MCMoves == {-6, 30}

\* Every seven months on the 31st, from July 31, 2024: next on January 31, 2028.
SevenMonths == {[frequency |-> "monthly", interval |-> 7, weekdays |-> {}, start |-> 212,
                 end |-> NoLimit, count |-> NoLimit]}
=============================================================================
