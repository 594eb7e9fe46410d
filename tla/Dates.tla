-------------------------------- MODULE Dates -------------------------------
(***************************************************************************)
(* Dates as src/tqsllib.cpp computes with them: [y |-> , m |-> , d |-> ].   *)
(* Combination boxes and files deliver dates that are not in the calendar,  *)
(* and three zeros for no date.                                            *)
(***************************************************************************)
EXTENDS Integers

NullDate == [y |-> 0, m |-> 0, d |-> 0]

\* The rule for leap years in tqsl_isDateValid and in days_per_month.
IsLeap(y) == y % 4 = 0 /\ (y % 100 # 0 \/ y % 400 = 0)

\* days_per_month
DaysPerMonth(y, m) ==
    CASE m = 2 -> IF IsLeap(y) THEN 29 ELSE 28
      [] m \in {4, 6, 9, 11} -> 30
      [] OTHER -> 31

\* The years a calendar day can be of.
Years == 1..9999

\* tqsl_isDateValid
IsDateValid(a) ==
    /\ a.y \in Years /\ a.m \in 1..12
    /\ a.d \in 1..DaysPerMonth(a.y, a.m)

\* tqsl_isDateNull
IsDateNull(a) == a = NullDate

\* tqsl_compareDates
CompareDates(a, b) ==
    LET x == IF a.y # b.y THEN a.y - b.y
             ELSE IF a.m # b.m THEN a.m - b.m ELSE a.d - b.d
    IN  IF x < 0 THEN -1 ELSE IF x > 0 THEN 1 ELSE 0

\* julian_day: the months before, in order, and the day.
JulianDay(y, m, d) ==
    LET before[n \in 0..12] ==
            IF n = 0 THEN 0 ELSE before[n - 1] + DaysPerMonth(y, n)
    IN  before[m - 1] + d

\* The loop of tqsl_subtractDates: from the first date to the end of its year,
\* then whole years.
Delta(first, last) ==
    LET toNewYear == JulianDay(first.y, 12, 31) - JulianDay(first.y, first.m, first.d) + 1
        years[y \in first.y..last.y] ==    \* days up to 1 January of y
            IF y = first.y THEN 0
            ELSE years[y - 1] + (IF y - 1 = first.y THEN toNewYear
                                 ELSE JulianDay(y - 1, 12, 31) - JulianDay(y - 1, 1, 1) + 1)
        start == IF first.y = last.y THEN JulianDay(first.y, first.m, first.d) ELSE 1
    IN  years[last.y] + JulianDay(last.y, last.m, last.d) - start

\* tqsl_subtractDates: the days from a to b, negative when b is earlier.
SubtractDates(a, b) == IF CompareDates(b, a) < 0 THEN -Delta(b, a) ELSE Delta(a, b)
=============================================================================
