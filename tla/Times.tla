------------------------------- MODULE Times -------------------------------
(***************************************************************************)
(* Times of a directory entry: fat32_unix_to_fat_time and                  *)
(* fat32_fat_to_unix_time (fat32_util.c).                                  *)
(*                                                                         *)
(* A timespec is [day, sec, cs]: days since 1980-01-01, which are negative *)
(* before it, seconds of the day and units of 10 ms.  An entry has a       *)
(* 16-bit date, a 16-bit time in steps of 2 s, and, for the creation time  *)
(* alone, a byte of 10 ms units up to 199.                                 *)
(***************************************************************************)
EXTENDS Integers, FiniteSetsExt

FirstYear == 1980
LastYear  == 2107        \* what 7 bits can say

DaySeconds == 86400

Timespec == [day : Int, sec : 0 .. DaySeconds - 1, cs : 0 .. 99]

Epoch == [day |-> 0, sec |-> 0, cs |-> 0]

IsLeap(y) == y % 4 = 0 /\ (y % 100 # 0 \/ y % 400 = 0)

DaysInMonth == <<31, 28, 31, 30, 31, 30, 31, 31, 30, 31, 30, 31>>

\* Days from 1980-01-01 to the first of January of y, and from there to the
\* first of month m: what the loops of the code add up
YearStart == [y \in FirstYear .. LastYear + 1 |->
    365 * (y - FirstYear) + Cardinality({k \in FirstYear .. y - 1 : IsLeap(k)})]

DaysBefore[m \in 1 .. 12] == IF m = 1 THEN 0 ELSE DaysBefore[m - 1] + DaysInMonth[m - 1]

MonthStart(y, m) == DaysBefore[m] + IF m > 2 /\ IsLeap(y) THEN 1 ELSE 0

YearOf(day) == Max({y \in FirstYear .. LastYear : YearStart[y] <= day})

MonthOf(y, d) == Max({m \in 1 .. 12 : MonthStart(y, m) <= d})

\* The fields of a date and a time
PackDate(y, m, d) == (y - FirstYear) * 512 + m * 32 + d

PackTime(s) == (s \div 3600) * 2048 + ((s \div 60) % 60) * 32 + (s % 60) \div 2

\* fat32_unix_to_fat_time; a time before 1980 becomes 1980-01-01.
FatDate(t) ==
    IF t.day < 0 THEN PackDate(FirstYear, 1, 1)
    ELSE LET y == YearOf(t.day)
             d == t.day - YearStart[y]
             m == MonthOf(y, d)
         IN PackDate(y, m, d - MonthStart(y, m) + 1)

FatTime(t) == IF t.day < 0 THEN 0 ELSE PackTime(t.sec)

\* Mutant: the odd second is left out.
FatTenthsEven(t) == IF t.day < 0 THEN 0 ELSE t.cs

FatTenths(t) == IF t.day < 0 THEN 0 ELSE t.cs + (t.sec % 2) * 100

\* fat32_fat_to_unix_time
ToUnix(date, time, tenths) ==
    LET y == FirstYear + date \div 512
        m == Max({1, Min({12, (date \div 32) % 16})})
        d == Max({1, date % 32})
        k == Min({199, tenths})
        s == (time \div 2048) * 3600 + ((time \div 32) % 64) * 60 + (time % 32) * 2 + k \div 100
    IN [day |-> YearStart[y] + MonthStart(y, m) + d - 1 + s \div DaySeconds,
        sec |-> s % DaySeconds, cs |-> k % 100]

----------------------------------------------------------------------------
(* The calendar, from the rules of the Gregorian calendar *)

\* Days since 0000-03-01, years taken to begin in March
CivilDay(y, m, d) ==
    LET z == IF m <= 2 THEN y - 1 ELSE y
        p == (m + 9) % 12
    IN 365 * z + z \div 4 - z \div 100 + z \div 400 + (153 * p + 2) \div 5 + d - 1

DayOf(y, m, d) == CivilDay(y, m, d) - CivilDay(FirstYear, 1, 1)

CalendarDay(date) == DayOf(FirstYear + date \div 512, (date \div 32) % 16, date % 32)

LastDay(y, m) == IF m = 12 THEN 31 ELSE DayOf(y, m + 1, 1) - DayOf(y, m, 1)

\* fat32_unix_to_fat_time gives each day its date in the calendar, and
\* fat32_fat_to_unix_time gives the day back, at both ends of every month that
\* an entry can say: leap days, 2100 and the ends of years among them.
CalendarExact ==
    \A y \in FirstYear .. LastYear, m \in 1 .. 12 :
        \A d \in {1, LastDay(y, m)} :
            LET t == [Epoch EXCEPT !.day = DayOf(y, m, d)]
            IN FatDate(t) = PackDate(y, m, d) /\ ToUnix(FatDate(t), 0, 0) = t
=============================================================================
