-------------------------- MODULE AttributesProofs --------------------------
(***************************************************************************)
(* Proofs about Times and Attributes: the two time conversions are inverse *)
(* on every day that an entry can say, their dates are those of the        *)
(* calendar, and what processes set survives in the entry.                 *)
(***************************************************************************)
EXTENDS Attributes, NatLemmas, FiniteSetTheorems

----------------------------------------------------------------------------
(* Months *)

\* The days before each month of a common year
Table == <<0, 31, 59, 90, 120, 151, 181, 212, 243, 273, 304, 334>>

Leap(y) == IF IsLeap(y) THEN 1 ELSE 0

\* The sums of the loop over months, as far as they are defined by each other
LEMMA DaysBeforeDef ==
    /\ DaysBefore[1] = 0
    /\ \A m \in 2 .. 12 : DaysBefore[m] = DaysBefore[m - 1] + DaysInMonth[m - 1]
<1> DEFINE Body(g, m) == IF m = 1 THEN 0 ELSE g[m - 1] + DaysInMonth[m - 1]
           W == [m \in 1 .. 12 |-> Table[m]]
<1>1. W = [m \in 1 .. 12 |-> Body(W, m)]
  <2>1. ASSUME NEW m \in 1 .. 12 PROVE Table[m] = Body(W, m)
      BY SMT DEF Table, DaysInMonth
  <2> QED BY <2>1, Zenon
<1>2. DaysBefore = CHOOSE g : g = [m \in 1 .. 12 |-> Body(g, m)]
    BY Zenon DEF DaysBefore
<1> HIDE DEF W
<1>3. DaysBefore = [m \in 1 .. 12 |-> Body(DaysBefore, m)]
    BY <1>1, <1>2, Zenon
<1>4. \A m \in 1 .. 12 : DaysBefore[m] = Body(DaysBefore, m)
    BY <1>3, Zenon
<1> QED BY <1>4

\* ... and their values
LEMMA MonthTable ==
    \A m \in 1 .. 12 : DaysBefore[m] = Table[m]
<1>1. DaysBefore[1] = 0
    BY DaysBeforeDef
<1>2. DaysBefore[2] = 31 /\ DaysBefore[3] = 59 /\ DaysBefore[4] = 90 /\ DaysBefore[5] = 120
    BY DaysBeforeDef DEF DaysInMonth
<1>3. DaysBefore[6] = 151 /\ DaysBefore[7] = 181 /\ DaysBefore[8] = 212 /\ DaysBefore[9] = 243
    BY <1>2, DaysBeforeDef DEF DaysInMonth
<1>4. DaysBefore[10] = 273 /\ DaysBefore[11] = 304 /\ DaysBefore[12] = 334
    BY <1>3, DaysBeforeDef DEF DaysInMonth
<1> QED BY <1>1, <1>2, <1>3, <1>4 DEF Table

\* fat32_unix_to_fat_time finds the month of a day of the year, and the day of
\* the month is one that 5 bits can say.
LEMMA MonthFound ==
    ASSUME NEW y \in Int, NEW d \in Nat, d < 365 + Leap(y)
    PROVE  /\ MonthOf(y, d) \in 1 .. 12
           /\ MonthStart(y, MonthOf(y, d)) \in Nat
           /\ d - MonthStart(y, MonthOf(y, d)) \in 0 .. 30
<1> DEFINE T == {m \in 1 .. 12 : MonthStart(y, m) <= d}
           L == Leap(y)
<1>1. L \in {0, 1}
    BY DEF Leap
<1>2. \A m \in 1 .. 12 : MonthStart(y, m) = Table[m] + IF m > 2 THEN L ELSE 0
    BY MonthTable, Zenon DEF MonthStart, Leap
<1> HIDE DEF L
<1>3. T \subseteq Nat /\ 1 \in T /\ \A x \in T : x <= 12
    BY <1>2 DEF Table
<1>4. PICK x \in T : \A m \in T : m <= x
  <2>1. T # {}
      BY <1>3
  <2> HIDE DEF T
  <2> QED BY <1>3, <2>1, GreatestNat
<1>5. MonthOf(y, d) \in T /\ \A m \in T : m <= MonthOf(y, d)
  <2>1. \A m \in T : x >= m
      BY <1>3, <1>4
  <2>2. MonthOf(y, d) = CHOOSE z \in T : \A m \in T : z >= m
      BY Zenon DEF MonthOf, Max
  <2>3. MonthOf(y, d) \in T /\ \A m \in T : MonthOf(y, d) >= m
      BY <2>1, <2>2, Zenon
  <2> QED BY <1>3, <2>3
<1>6. PICK m \in 1 .. 12 : m = MonthOf(y, d)
    BY <1>5, Zenon
<1>7. MonthStart(y, m) <= d /\ (m < 12 => d < MonthStart(y, m + 1))
  <2>1. m < 12 => m + 1 \in 1 .. 12 /\ m + 1 \notin T
      BY <1>3, <1>5, <1>6
  <2>2. m < 12 => ~(MonthStart(y, m + 1) <= d)
      BY <2>1, Zenon
  <2>3. m < 12 => MonthStart(y, m + 1) \in Int
      BY <1>1, <1>2 DEF Table
  <2>4. MonthStart(y, m) <= d
      BY <1>5, <1>6, Zenon
  <2> QED BY <2>2, <2>3, <2>4
<1>8. d < 365 + L
    BY DEF L
<1>9. MonthStart(y, m) \in Nat /\ d - MonthStart(y, m) \in 0 .. 30
    BY <1>1, <1>2, <1>7, <1>8 DEF Table
<1> QED BY <1>6, <1>9

----------------------------------------------------------------------------
(* Years *)

\* A year has 365 days, or 366, as the loop over years has it.
LEMMA YearNext ==
    /\ YearStart[FirstYear] = 0
    /\ \A y \in FirstYear .. LastYear + 1 : YearStart[y] \in Nat
    /\ \A y \in FirstYear .. LastYear : YearStart[y + 1] = YearStart[y] + 365 + Leap(y)
<1> DEFINE S(y) == {k \in FirstYear .. y - 1 : IsLeap(k)}
<1>1. ASSUME NEW y \in FirstYear .. LastYear + 1
      PROVE  IsFiniteSet(S(y)) /\ Cardinality(S(y)) \in Nat
  <2>1. IsFiniteSet(FirstYear .. y - 1)
      BY FS_Interval DEF FirstYear, LastYear
  <2>2. S(y) \subseteq FirstYear .. y - 1
      OBVIOUS
  <2> QED BY <2>1, <2>2, FS_Subset, FS_CardinalityType
<1>2. \A y \in FirstYear .. LastYear + 1 :
        YearStart[y] = 365 * (y - FirstYear) + Cardinality(S(y))
    BY Zenon DEF YearStart
<1>2a. \A y \in FirstYear .. LastYear + 1 : Cardinality(S(y)) \in Nat
    BY <1>1, Zenon
<1>3. Cardinality(S(FirstYear)) = 0
  <2>1. S(FirstYear) = {}
      BY DEF FirstYear
  <2> QED BY <2>1, FS_EmptySet, Zenon
<1>4. ASSUME NEW y \in FirstYear .. LastYear
      PROVE  Cardinality(S(y + 1)) = Cardinality(S(y)) + Leap(y)
  <2>0. y \notin FirstYear .. y - 1 /\ y \in FirstYear .. LastYear + 1
      BY DEF FirstYear, LastYear
  <2>1. y \notin S(y) /\ IsFiniteSet(S(y)) /\ Cardinality(S(y)) \in Nat
      BY <1>1, <2>0, Zenon
  <2>2. CASE IsLeap(y)
    <3>1. S(y + 1) = S(y) \cup {y}
        BY <2>2 DEF FirstYear, LastYear
    <3> HIDE DEF S
    <3> QED BY <2>1, <2>2, <3>1, FS_AddElement DEF Leap
  <2>3. CASE ~IsLeap(y)
    <3>1. S(y + 1) = S(y)
      <4>1. \A k : k \in FirstYear .. y + 1 - 1 <=> k = y \/ k \in FirstYear .. y - 1
          BY DEF FirstYear, LastYear
      <4>5. ASSUME NEW k PROVE k \in S(y + 1) <=> k \in S(y)
          BY <2>3, <4>1, SMT
      <4> HIDE DEF S
      <4> QED BY <4>5, Zenon
    <3> HIDE DEF S
    <3> QED BY <2>1, <2>3, <3>1 DEF Leap
  <2> QED BY <2>2, <2>3, Zenon
<1> HIDE DEF S
<1>5. YearStart[FirstYear] = 0
    BY <1>2, <1>3 DEF FirstYear, LastYear
<1>6. \A y \in FirstYear .. LastYear + 1 : YearStart[y] \in Nat
    BY <1>1, <1>2 DEF FirstYear, LastYear
<1>7. ASSUME NEW y \in FirstYear .. LastYear
      PROVE  YearStart[y + 1] = YearStart[y] + 365 + Leap(y)
  <2>1. y \in FirstYear .. LastYear + 1 /\ y + 1 \in FirstYear .. LastYear + 1
      BY DEF FirstYear, LastYear
  <2>2. Leap(y) \in Nat
      BY DEF Leap
  <2>3. PICK w \in FirstYear .. LastYear + 1 : w = y + 1
      BY <2>1
  <2>4. /\ YearStart[y] = 365 * (y - FirstYear) + Cardinality(S(y))
        /\ YearStart[w] = 365 * (w - FirstYear) + Cardinality(S(w))
        /\ Cardinality(S(y)) \in Nat /\ Cardinality(S(w)) \in Nat
      BY <1>2, <1>2a, <2>1, <2>3, Zenon
  <2>5. Cardinality(S(w)) = Cardinality(S(y)) + Leap(y)
      BY <1>4, <2>3
  <2> HIDE DEF Leap
  <2>6. YearStart[w] = YearStart[y] + 365 + Leap(y)
      BY <2>1, <2>2, <2>3, <2>4, <2>5 DEF FirstYear, LastYear
  <2> QED BY <2>3, <2>6
<1> QED BY <1>5, <1>6, <1>7

\* The days that an entry can say, and those before 1980, which it cannot
InRange(t) == t.day < YearStart[LastYear + 1]

\* fat32_unix_to_fat_time finds the year, and what is left is a day of it.
LEMMA YearFound ==
    ASSUME NEW day \in Nat, day < YearStart[LastYear + 1]
    PROVE  /\ YearOf(day) \in FirstYear .. LastYear
           /\ YearStart[YearOf(day)] \in Nat
           /\ day - YearStart[YearOf(day)] \in Nat
           /\ day - YearStart[YearOf(day)] < 365 + Leap(YearOf(day))
<1> DEFINE T == {y \in FirstYear .. LastYear : YearStart[y] <= day}
<1>1. T \subseteq Nat /\ FirstYear \in T /\ \A x \in T : x <= LastYear
    BY YearNext DEF FirstYear, LastYear
<1>2. PICK x \in T : \A y \in T : y <= x
  <2>1. T # {} /\ LastYear \in Nat
      BY <1>1 DEF LastYear
  <2> HIDE DEF T
  <2> QED BY <1>1, <2>1, GreatestNat
<1>3. YearOf(day) \in T /\ \A y \in T : y <= YearOf(day)
  <2>1. \A y \in T : x >= y
      BY <1>1, <1>2
  <2>2. YearOf(day) = CHOOSE z \in T : \A y \in T : z >= y
      BY Zenon DEF YearOf, Max
  <2>3. YearOf(day) \in T /\ \A y \in T : YearOf(day) >= y
      BY <2>1, <2>2, Zenon
  <2> QED BY <1>1, <2>3
<1>4. PICK y \in FirstYear .. LastYear : y = YearOf(day)
    BY <1>3, Zenon
<1>5. YearStart[y] <= day
    BY <1>3, <1>4, Zenon
<1>6. /\ YearStart[y] \in Nat /\ YearStart[y + 1] \in Nat
      /\ YearStart[y + 1] = YearStart[y] + 365 + Leap(y)
    BY YearNext DEF FirstYear, LastYear
<1>7. day < YearStart[y + 1]
  <2>1. CASE y = LastYear
      BY <2>1
  <2>2. CASE y # LastYear
    <3>1. y + 1 \in FirstYear .. LastYear /\ y + 1 \notin T
        BY <1>1, <1>3, <1>4, <2>2 DEF FirstYear, LastYear
    <3>2. ~(YearStart[y + 1] <= day)
        BY <3>1, Zenon
    <3> QED BY <1>6, <3>2
  <2> QED BY <2>1, <2>2, Zenon
<1>8. Leap(y) \in Nat
    BY DEF Leap
<1> HIDE DEF Leap
<1>9. day - YearStart[y] \in Nat /\ day - YearStart[y] < 365 + Leap(y)
    BY <1>5, <1>6, <1>7, <1>8
<1> QED BY <1>4, <1>6, <1>9
----------------------------------------------------------------------------
(* Fields *)

\* The smaller and the larger of two numbers
LEMMA MinMax ==
    ASSUME NEW a \in Int, NEW b \in Int, a <= b
    PROVE  Min({b, a}) = a /\ Max({a, b}) = b
<1>1. Min({b, a}) = a
  <2>1. \E x \in {b, a} : \A z \in {b, a} : x <= z
      OBVIOUS
  <2>2. Min({b, a}) \in {b, a} /\ \A z \in {b, a} : Min({b, a}) <= z
      BY <2>1, Zenon DEF Min
  <2> QED BY <2>2
<1>2. Max({a, b}) = b
  <2>1. \E x \in {a, b} : \A z \in {a, b} : x >= z
      OBVIOUS
  <2>2. Max({a, b}) \in {a, b} /\ \A z \in {a, b} : Max({a, b}) >= z
      BY <2>1, Zenon DEF Max
  <2> QED BY <2>2
<1> QED BY <1>1, <1>2

\* What fat32_fat_to_unix_time takes from a date and a time
YearField(date)  == date \div 512
MonthField(date) == (date \div 32) % 16
DayField(date)   == date % 32
SecondsOf(time)  == (time \div 2048) * 3600 + ((time \div 32) % 64) * 60 + (time % 32) * 2

EvenSecond(s) == s - (s % 2)

\* The fields of a date do not overlap.
LEMMA DateFields ==
    ASSUME NEW y \in FirstYear .. LastYear, NEW m \in 1 .. 12, NEW d \in 1 .. 31
    PROVE  /\ PackDate(y, m, d) \in Int
           /\ YearField(PackDate(y, m, d)) = y - FirstYear
           /\ MonthField(PackDate(y, m, d)) = m
           /\ DayField(PackDate(y, m, d)) = d
<1> DEFINE n == (y - 1980) * 512 + m * 32 + d
<1>1. n \in Int /\ y - 1980 \in 0 .. 127
    BY DEF FirstYear, LastYear
<1>2. n \div 512 = y - 1980
    BY DEF FirstYear, LastYear
<1>3. n \div 32 = (y - 1980) * 16 + m
    BY DEF FirstYear, LastYear
<1>4. n % 32 = d
    BY DEF FirstYear, LastYear
<1>5. ((y - 1980) * 16 + m) % 16 = m
    BY <1>1
<1>6. PackDate(y, m, d) = n /\ FirstYear = 1980
    BY DEF PackDate, FirstYear
<1> HIDE DEF n
<1> QED BY <1>1, <1>2, <1>3, <1>4, <1>5, <1>6 DEF YearField, MonthField, DayField

\* Nor do those of a time, which leaves out the odd second.
LEMMA TimeFields ==
    ASSUME NEW s \in Int, 0 <= s, s < DaySeconds
    PROVE  PackTime(s) \in Int /\ SecondsOf(PackTime(s)) = EvenSecond(s)
<1> DEFINE q == s \div 60
           j == s % 60
           h == q \div 60
           i == q % 60
           k == j \div 2
           e == j % 2
<1>1. s \in Int /\ 0 <= s /\ s <= 86399
    BY DEF DaySeconds
<1>2. q \in Int /\ j \in 0 .. 59 /\ s = 60 * q + j
    BY <1>1, SMT
<1>3. s \div 60 = q /\ s % 60 = j
    OBVIOUS
<1> HIDE DEF q, j
<1>2a. q \in Int /\ j \in Int
    BY <1>2
<1>4. h \in Int /\ i \in 0 .. 59 /\ q = 60 * h + i
    BY <1>2a, SMT
<1>5. k \in Int /\ e \in 0 .. 1 /\ j = 2 * k + e
    BY <1>2a, SMT
<1>6. q \div 60 = h /\ q % 60 = i /\ j \div 2 = k
    OBVIOUS
<1> HIDE DEF h, i, k, e
<1>7. h \in 0 .. 23 /\ k \in 0 .. 29
    BY <1>1, <1>2, <1>4, <1>5
<1>8. s \div 3600 = h
  <2>1. 3600 * h <= s /\ s < 3600 * h + 3600 /\ h \in Int
      BY <1>1, <1>2, <1>4
  <2> QED BY <2>1, SMT
<1>9. s % 2 = e
  <2>1. s = 2 * (30 * q + k) + e /\ 30 * q + k \in Int
      BY <1>1, <1>2, <1>5
  <2> QED BY <1>1, <1>5, <2>1, SMT
<1> DEFINE n == h * 2048 + i * 32 + k
<1>10. n \in Int /\ n \div 2048 = h
  <2>1. n \in Int /\ h \in Int /\ 2048 * h <= n /\ n < 2048 * h + 2048
      BY <1>4, <1>7
  <2> HIDE DEF n
  <2> QED BY <2>1, SMT
<1>11. n \div 32 = h * 64 + i /\ n % 32 = k
  <2>1. n = 32 * (h * 64 + i) + k /\ h * 64 + i \in Int /\ k \in 0 .. 31
      BY <1>4, <1>7
  <2> QED BY <1>10, <2>1, SMT
<1>12. (h * 64 + i) % 64 = i
  <2>1. h * 64 + i = 64 * h + i /\ h * 64 + i \in Int /\ i \in 0 .. 63
      BY <1>4, <1>7
  <2> QED BY <1>4, <2>1, SMT
<1>13. PackTime(s) = n
    BY <1>2, <1>3, <1>4, <1>6, <1>7, <1>8, SMT DEF PackTime
<1> HIDE DEF n
<1>14. h * 3600 + i * 60 + k * 2 = s - e
    BY <1>1, <1>2, <1>4, <1>5
<1>15. (n \div 2048) * 3600 + ((n \div 32) % 64) * 60 + (n % 32) * 2 = s - (s % 2)
    BY <1>9, <1>10, <1>11, <1>12, <1>14, SMT
<1> QED BY <1>10, <1>13, <1>15, SMT DEF SecondsOf, EvenSecond

UnixTime(y, m, d, s, k) ==
    [day |-> YearStart[y] + MonthStart(y, m) + d - 1,
     sec |-> EvenSecond(s) + k \div 100, cs |-> k % 100]

\* fat32_fat_to_unix_time on the fields that fat32_unix_to_fat_time packs
LEMMA Unpacked ==
    ASSUME NEW y \in FirstYear .. LastYear, NEW m \in 1 .. 12, NEW d \in 1 .. 31,
           NEW s \in Int, 0 <= s, s < DaySeconds,
           NEW k \in Int, 0 <= k, k <= 199
    PROVE  ToUnix(PackDate(y, m, d), PackTime(s), k) = UnixTime(y, m, d, s, k)
<1> DEFINE date == PackDate(y, m, d)
           time == PackTime(s)
           u == SecondsOf(time) + k \div 100
<1>1. YearField(date) = y - FirstYear /\ MonthField(date) = m /\ DayField(date) = d
    BY DateFields, Zenon
<1>2. SecondsOf(time) = EvenSecond(s)
    BY TimeFields
<1> HIDE DEF date, time
<1>3. /\ FirstYear + YearField(date) = y
      /\ Max({1, Min({12, MonthField(date)})}) = m
      /\ Max({1, DayField(date)}) = d
      /\ Min({199, k}) = k
  <2>1. y \in Int /\ FirstYear \in Int
      BY DEF FirstYear, LastYear
  <2>2. FirstYear + YearField(date) = y
      BY <1>1, <2>1
  <2>3. 1 \in Int /\ 12 \in Int /\ m \in Int /\ d \in Int /\ m <= 12 /\ 1 <= m /\ 1 <= d
      OBVIOUS
  <2>4. Min({12, m}) = m
      BY <2>3, MinMax, Zenon
  <2>5. Max({1, m}) = m
      BY <2>3, MinMax, Zenon
  <2>6. Max({1, d}) = d
      BY <2>3, MinMax, Zenon
  <2>7. Min({199, k}) = k
    <3>1. 199 \in Int
        OBVIOUS
    <3> QED BY <3>1, MinMax, Zenon
  <2>8. Max({1, Min({12, MonthField(date)})}) = Max({1, Min({12, m})})
      BY <1>1, SMT
  <2>9. Max({1, DayField(date)}) = Max({1, d})
      BY <1>1, SMT
  <2> QED BY <2>2, <2>4, <2>5, <2>6, <2>7, <2>8, <2>9
<1>4. /\ EvenSecond(s) \in Int /\ 0 <= EvenSecond(s) /\ EvenSecond(s) <= DaySeconds - 2
      /\ k \div 100 \in 0 .. 1
  <2>1. s % 2 \in 0 .. 1 /\ s = 2 * (s \div 2) + (s % 2) /\ s \div 2 \in Int
      OBVIOUS
  <2>2. k \div 100 \in 0 .. 1
      OBVIOUS
  <2> QED BY <2>1, <2>2 DEF EvenSecond, DaySeconds
<1>5. u = EvenSecond(s) + k \div 100
    BY <1>2, SMT
<1>6. u \in Int /\ 0 <= u /\ u < DaySeconds
  <2> HIDE DEF u
  <2> QED BY <1>4, <1>5 DEF DaySeconds
<1>7. ToUnix(date, time, k)
        = [day |-> YearStart[y] + MonthStart(y, m) + d - 1 + u \div DaySeconds,
           sec |-> u % DaySeconds, cs |-> k % 100]
    BY <1>3, SMT DEF ToUnix, YearField, MonthField, DayField, SecondsOf
<1> HIDE DEF u
<1>8. u \div DaySeconds = 0 /\ u % DaySeconds = u
    BY <1>6 DEF DaySeconds
<1>9. YearStart[y] \in Int /\ MonthStart(y, m) \in Int
  <2>1. y \in FirstYear .. LastYear + 1
      BY DEF FirstYear, LastYear
  <2>2. YearStart[y] \in Nat
      BY <2>1, YearNext, SMT
  <2>3. DaysBefore[m] \in Int
      BY MonthTable DEF Table
  <2> QED BY <2>2, <2>3 DEF MonthStart
<1>10. YearStart[y] + MonthStart(y, m) + d - 1 + 0 = YearStart[y] + MonthStart(y, m) + d - 1
    BY <1>9
<1>11. ToUnix(date, time, k)
         = [day |-> YearStart[y] + MonthStart(y, m) + d - 1,
            sec |-> EvenSecond(s) + k \div 100, cs |-> k % 100]
    BY <1>5, <1>7, <1>8, <1>10, SMT
<1> QED BY <1>11, SMT DEF date, time, UnixTime
----------------------------------------------------------------------------
(* The calendar *)

\* The end of year x and the first of January of y in the calendar, counted
\* from 0000-03-01
YearEnd(x) == 365 * x + x \div 4 - x \div 100 + x \div 400 + 306

January(y) == YearEnd(y - 1)

\* The year after y begins where y ends.
LEMMA JanuaryAfter ==
    ASSUME NEW y \in Int
    PROVE  January(y + 1) = YearEnd(y)
<1>1. y + 1 - 1 = y
    OBVIOUS
<1> QED BY <1>1, SMT DEF January

\* The next year begins 365 or 366 days later: is_leap has the rules of the
\* Gregorian calendar.
LEMMA JanuaryNext ==
    ASSUME NEW y \in Int
    PROVE  January(y) \in Int /\ January(y + 1) = January(y) + 365 + Leap(y)
<1>1. /\ y \div 4 \in Int /\ (y - 1) \div 4 \in Int
      /\ y \div 4 = (y - 1) \div 4 + (IF y % 4 = 0 THEN 1 ELSE 0)
    OBVIOUS
<1>2. /\ y \div 100 \in Int /\ (y - 1) \div 100 \in Int
      /\ y \div 100 = (y - 1) \div 100 + (IF y % 100 = 0 THEN 1 ELSE 0)
    OBVIOUS
<1>3. /\ y \div 400 \in Int /\ (y - 1) \div 400 \in Int
      /\ y \div 400 = (y - 1) \div 400 + (IF y % 400 = 0 THEN 1 ELSE 0)
    OBVIOUS
<1>4. (y % 400 = 0 => y % 100 = 0) /\ (y % 100 = 0 => y % 4 = 0)
    OBVIOUS
<1> DEFINE a == y \div 4   a1 == (y - 1) \div 4   a0 == y % 4
           b == y \div 100 b1 == (y - 1) \div 100 b0 == y % 100
           c == y \div 400 c1 == (y - 1) \div 400 c0 == y % 400
<1>5. January(y + 1) = YearEnd(y)
    BY JanuaryAfter
<1>6. /\ January(y) = 365 * (y - 1) + a1 - b1 + c1 + 306
      /\ January(y + 1) = 365 * y + a - b + c + 306
    BY <1>5, Zenon DEF January, YearEnd
<1>7. Leap(y) = IF a0 = 0 /\ (b0 # 0 \/ c0 = 0) THEN 1 ELSE 0
    BY Zenon DEF Leap, IsLeap
<1>8. /\ a \in Int /\ a1 \in Int /\ a = a1 + (IF a0 = 0 THEN 1 ELSE 0)
      /\ b \in Int /\ b1 \in Int /\ b = b1 + (IF b0 = 0 THEN 1 ELSE 0)
      /\ c \in Int /\ c1 \in Int /\ c = c1 + (IF c0 = 0 THEN 1 ELSE 0)
      /\ (c0 = 0 => b0 = 0) /\ (b0 = 0 => a0 = 0)
    BY <1>1, <1>2, <1>3, <1>4, Zenon
<1> HIDE DEF a, a1, a0, b, b1, b0, c, c1, c0
<1> QED BY <1>6, <1>7, <1>8

\* The days of the months
LEMMA CivilMonths ==
    ASSUME NEW y \in Int, NEW m \in 1 .. 12, NEW d \in Int
    PROVE  CivilDay(y, m, d) = January(y) + MonthStart(y, m) + d - 1
<1> DEFINE z == IF m <= 2 THEN y - 1 ELSE y
           p == (m + 9) % 12
           C == 365 * z + z \div 4 - z \div 100 + z \div 400
<1>1. CivilDay(y, m, d) = C + (153 * p + 2) \div 5 + d - 1
    BY Zenon DEF CivilDay
<1>2. January(y) \in Int /\ January(y + 1) = January(y) + 365 + Leap(y) /\ Leap(y) \in Int
    BY JanuaryNext DEF Leap
<1>3. C = (IF m <= 2 THEN January(y) ELSE January(y + 1)) - 306 /\ C \in Int
  <2>1. CASE m <= 2
    <3>1. C = 365 * (y - 1) + (y - 1) \div 4 - (y - 1) \div 100 + (y - 1) \div 400
        BY <2>1, Zenon
    <3> HIDE DEF C
    <3>2. January(y) = C + 306
        BY <3>1, Zenon DEF January, YearEnd
    <3>3. C \in Int
        BY <3>1
    <3> QED BY <2>1, <3>2, <3>3
  <2>2. CASE ~(m <= 2)
    <3>1. C = 365 * y + y \div 4 - y \div 100 + y \div 400
        BY <2>2, Zenon
    <3> HIDE DEF C
    <3>2. January(y + 1) = YearEnd(y)
        BY JanuaryAfter
    <3>3. January(y + 1) = C + 306
        BY <3>1, <3>2, Zenon DEF YearEnd
    <3>4. C \in Int
        BY <3>1
    <3> QED BY <2>2, <3>3, <3>4
  <2> QED BY <2>1, <2>2, Zenon
<1>4. (153 * p + 2) \div 5 = (IF m <= 2 THEN 306 ELSE -59) + Table[m]
  <2>1. CASE m <= 2
      BY <2>1 DEF Table
  <2>2. CASE m > 2
    <3>1. p = m - 3
        BY <2>2
    <3> HIDE DEF p
    <3>2. m \in 3 .. 12
        BY <2>2
    <3> QED BY <2>2, <3>1, <3>2 DEF Table
  <2> QED BY <2>1, <2>2
<1>5. MonthStart(y, m) = Table[m] + IF m > 2 THEN Leap(y) ELSE 0
    BY MonthTable, Zenon DEF MonthStart, Leap
<1>6. Table[m] \in Int
    BY DEF Table
<1> DEFINE e == (153 * p + 2) \div 5
<1> HIDE DEF C, e
<1>7. CivilDay(y, m, d) = C + e + d - 1 /\ e = (IF m <= 2 THEN 306 ELSE -59) + Table[m]
    BY <1>1, <1>4 DEF e
<1> QED BY <1>2, <1>3, <1>5, <1>6, <1>7

\* Each year begins where the calendar has it.
LEMMA CalendarYears ==
    \A y \in FirstYear .. LastYear : YearStart[y] = January(y) - January(FirstYear)
<1> DEFINE T == {y \in FirstYear .. LastYear : YearStart[y] # January(y) - January(FirstYear)}
<1>1. SUFFICES ASSUME T # {} PROVE FALSE
    BY <1>1
<1>2. T \subseteq Nat
    BY DEF FirstYear, LastYear
<1>3. PICK y \in T : \A x \in T : y <= x
    BY <1>1, <1>2, LeastNat
<1>4. y \in FirstYear .. LastYear /\ YearStart[y] # January(y) - January(FirstYear)
    OBVIOUS
<1>5. y # FirstYear
    BY <1>4, YearNext, JanuaryNext DEF FirstYear
<1>6. PICK x \in FirstYear .. LastYear : y = x + 1
    BY <1>4, <1>5 DEF FirstYear, LastYear
<1>7. x \notin T
    BY <1>3, <1>6 DEF FirstYear, LastYear
<1>8. YearStart[x] = January(x) - January(FirstYear)
    BY <1>7, Zenon
<1>9. YearStart[y] = YearStart[x] + 365 + Leap(x)
    BY <1>6, YearNext, Zenon
<1>10. /\ January(y) = January(x) + 365 + Leap(x)
       /\ January(x) \in Int /\ January(FirstYear) \in Int /\ Leap(x) \in Int
  <2>1. x \in Int /\ FirstYear \in Int
      BY DEF FirstYear, LastYear
  <2>2. Leap(x) \in Int
      BY DEF Leap
  <2> QED BY <1>6, <2>1, <2>2, JanuaryNext, Zenon
<1> HIDE DEF T
<1> QED BY <1>4, <1>8, <1>9, <1>10
----------------------------------------------------------------------------
(* The conversions *)

\* The date of a day that an entry can say
LEMMA DateExact ==
    ASSUME NEW t \in Timespec, InRange(t), t.day >= 0
    PROVE  \E y \in FirstYear .. LastYear, m \in 1 .. 12, d \in 1 .. 31 :
             /\ FatDate(t) = PackDate(y, m, d)
             /\ t.day = YearStart[y] + MonthStart(y, m) + d - 1
<1>1. PICK day \in Nat : day = t.day
    BY DEF Timespec
<1>2. /\ YearOf(day) \in FirstYear .. LastYear
      /\ YearStart[YearOf(day)] \in Nat
      /\ day - YearStart[YearOf(day)] \in Nat
      /\ day - YearStart[YearOf(day)] < 365 + Leap(YearOf(day))
    BY <1>1, YearFound, Zenon DEF InRange
<1>3. PICK y \in FirstYear .. LastYear, d \in Nat, b \in Nat :
        y = YearOf(day) /\ b = YearStart[y] /\ d = day - b /\ d < 365 + Leap(y)
    BY <1>2, Zenon
<1>4. y \in Int
    BY DEF FirstYear, LastYear
<1>5. /\ MonthOf(y, d) \in 1 .. 12
      /\ MonthStart(y, MonthOf(y, d)) \in Nat
      /\ d - MonthStart(y, MonthOf(y, d)) \in 0 .. 30
    BY <1>3, <1>4, MonthFound, Zenon
<1>6. PICK m \in 1 .. 12, e \in Nat, k \in 0 .. 30 :
        m = MonthOf(y, d) /\ e = MonthStart(y, m) /\ k = d - e
    BY <1>5, Zenon
<1>7. ~(t.day < 0)
    BY <1>1
<1>8. FatDate(t) = PackDate(y, m, k + 1)
    BY <1>1, <1>3, <1>6, <1>7, Zenon DEF FatDate
<1>9. t.day = b + e + (k + 1) - 1 /\ k + 1 \in 1 .. 31
    BY <1>1, <1>3, <1>6
<1> QED BY <1>3, <1>6, <1>8, <1>9, Zenon

\* The calendar's day of a date that is packed
LEMMA CalendarPacked ==
    ASSUME NEW y \in FirstYear .. LastYear, NEW m \in 1 .. 12, NEW d \in 1 .. 31
    PROVE  CalendarDay(PackDate(y, m, d)) = YearStart[y] + MonthStart(y, m) + d - 1
<1>1. y \in Int /\ FirstYear \in Int /\ d \in Int
    BY DEF FirstYear, LastYear
<1>2. CalendarDay(PackDate(y, m, d)) = DayOf(y, m, d)
  <2>1. FirstYear + (y - FirstYear) = y
      BY <1>1
  <2> DEFINE date == PackDate(y, m, d)
  <2>2. YearField(date) = y - FirstYear /\ MonthField(date) = m /\ DayField(date) = d
      BY DateFields, Zenon
  <2> HIDE DEF date
  <2>3. CalendarDay(date) = DayOf(FirstYear + YearField(date), MonthField(date), DayField(date))
      BY DEF CalendarDay, YearField, MonthField, DayField
  <2>4. CalendarDay(date) = DayOf(y, m, d)
      BY <2>1, <2>2, <2>3
  <2> QED BY <2>4 DEF date
<1>3. CivilDay(y, m, d) = January(y) + MonthStart(y, m) + d - 1
    BY <1>1, CivilMonths, Zenon
<1>4. CivilDay(FirstYear, 1, 1) = January(FirstYear)
  <2>1. CivilDay(FirstYear, 1, 1) = January(FirstYear) + MonthStart(FirstYear, 1) + 1 - 1
    <3>1. 1 \in 1 .. 12 /\ 1 \in Int
        OBVIOUS
    <3> QED BY <1>1, <3>1, CivilMonths, Zenon
  <2>2. MonthStart(FirstYear, 1) = 0
      BY DaysBeforeDef DEF MonthStart
  <2>3. January(FirstYear) \in Int
      BY <1>1, JanuaryNext
  <2> QED BY <2>1, <2>2, <2>3
<1>5. January(y) \in Int /\ January(FirstYear) \in Int
    BY <1>1, JanuaryNext
<1>6. MonthStart(y, m) \in Int
    BY MonthTable DEF MonthStart, Table
<1>7. YearStart[y] = January(y) - January(FirstYear)
    BY CalendarYears
<1> QED BY <1>1, <1>2, <1>3, <1>4, <1>5, <1>6, <1>7 DEF DayOf
\* A time before 1980 is written as the first of 1980.
LEMMA Clamped ==
    ASSUME NEW t \in Timespec
    PROVE  /\ AtLeast1980(t) \in Timespec /\ AtLeast1980(t).day >= 0
           /\ InRange(t) => InRange(AtLeast1980(t))
           /\ Creation(AtLeast1980(t)) = Creation(t)
           /\ LastWrite(AtLeast1980(t)) = LastWrite(t)
           /\ FatDate(AtLeast1980(t)) = FatDate(t)
<1>1. CASE ~(t.day < 0)
  <2>1. AtLeast1980(t) = t
      BY <1>1, Zenon DEF AtLeast1980
  <2>2. t.day >= 0
      BY <1>1 DEF Timespec
  <2> QED BY <2>1, <2>2, Zenon
<1>2. CASE t.day < 0
  <2>1. AtLeast1980(t) = Epoch
      BY <1>2, Zenon DEF AtLeast1980
  <2>2. Epoch \in Timespec /\ Epoch.day = 0 /\ Epoch.sec = 0 /\ Epoch.cs = 0
    <3>1. DaySeconds - 1 \in Nat
        BY DEF DaySeconds
    <3>2. 0 \in 0 .. DaySeconds - 1 /\ 0 \in 0 .. 99 /\ 0 \in Int
        BY <3>1
    <3> QED BY <3>2 DEF Timespec, Epoch
  <2>3. YearStart[LastYear + 1] > 0
    <3>1. LastYear \in FirstYear .. LastYear /\ LastYear \in FirstYear .. LastYear + 1
        BY DEF FirstYear, LastYear
    <3>2. YearStart[LastYear + 1] = YearStart[LastYear] + 365 + Leap(LastYear)
        BY <3>1, YearNext, Zenon
    <3>3. YearStart[LastYear] \in Nat
        BY <3>1, YearNext, Zenon
    <3>4. Leap(LastYear) \in Nat
        BY DEF Leap
    <3> HIDE DEF Leap
    <3> QED BY <3>2, <3>3, <3>4
  <2>4. InRange(Epoch)
      BY <2>2, <2>3 DEF InRange
  <2>5. FatDate(Epoch) = PackDate(FirstYear, 1, 1)
    <3>1. PICK y \in FirstYear .. LastYear, m \in 1 .. 12, d \in 1 .. 31 :
            FatDate(Epoch) = PackDate(y, m, d) /\ 0 = YearStart[y] + MonthStart(y, m) + d - 1
      <4>1. Epoch.day >= 0
          BY <2>2
      <4> QED BY <2>2, <2>4, <4>1, DateExact
    <3>2. YearStart[y] \in Nat /\ (y # FirstYear => YearStart[y] >= 365)
      <4>1. y \in FirstYear .. LastYear + 1
          BY DEF FirstYear, LastYear
      <4>2. YearStart[y] \in Nat
          BY <4>1, YearNext, Zenon
      <4>3. ASSUME y # FirstYear PROVE YearStart[y] >= 365
        <5>1. PICK x \in FirstYear .. LastYear : y = x + 1
            BY <4>3 DEF FirstYear, LastYear
        <5>2. x \in FirstYear .. LastYear + 1
            BY DEF FirstYear, LastYear
        <5>3. YearStart[y] = YearStart[x] + 365 + Leap(x) /\ YearStart[x] \in Nat
            BY <5>1, <5>2, YearNext, Zenon
        <5>4. Leap(x) \in Nat
            BY DEF Leap
        <5> HIDE DEF Leap
        <5> QED BY <5>3, <5>4
      <4> QED BY <4>2, <4>3
    <3>3. MonthStart(y, m) \in Nat /\ (m # 1 => MonthStart(y, m) >= 31)
        BY MonthTable DEF MonthStart, Table
    <3>4. y = FirstYear /\ m = 1 /\ d = 1
        BY <3>1, <3>2, <3>3
    <3> QED BY <3>1, <3>4
  <2>6. FatTime(Epoch) = 0
    <3>1. PackTime(0) = 0
      <4>1. /\ 0 \div 3600 = 0 /\ 0 \div 60 = 0 /\ 0 % 60 = 0 /\ 0 \div 2 = 0
          OBVIOUS
      <4> QED BY <4>1 DEF PackTime
    <3> QED BY <2>2, <3>1 DEF FatTime
  <2>7. FatTenths(Epoch) = 0
      BY <2>2 DEF FatTenths
  <2>8. FatDate(t) = PackDate(FirstYear, 1, 1) /\ FatTime(t) = 0 /\ FatTenths(t) = 0
      BY <1>2, Zenon DEF FatDate, FatTime, FatTenths
  <2>9. 0 >= 0
      OBVIOUS
  <2> QED BY <2>1, <2>2, <2>4, <2>5, <2>6, <2>7, <2>8, <2>9, Zenon DEF Creation, LastWrite
<1> QED BY <1>1, <1>2, Zenon
\* The odd second does not go into a time.
LEMMA PackEven ==
    ASSUME NEW s \in Int, 0 <= s, s < DaySeconds
    PROVE  /\ PackTime(EvenSecond(s)) = PackTime(s)
           /\ EvenSecond(s) \in Int /\ 0 <= EvenSecond(s) /\ EvenSecond(s) < DaySeconds
<1> DEFINE q == s \div 60
           j == s % 60
           k == j \div 2
           e == j % 2
           v == EvenSecond(s)
<1>1. q \in Int /\ j \in 0 .. 59 /\ s = 60 * q + j
    BY SMT
<1>2. s \div 60 = q /\ s % 60 = j
    OBVIOUS
<1> HIDE DEF q, j
<1>3. k \in Int /\ e \in 0 .. 1 /\ j = 2 * k + e
  <2>1. j \in Int
      BY <1>1
  <2> QED BY <2>1, SMT
<1>4. j \div 2 = k
    OBVIOUS
<1> HIDE DEF k, e
<1>5. s % 2 = e
  <2>1. s = 2 * (30 * q + k) + e /\ 30 * q + k \in Int
      BY <1>1, <1>3
  <2> QED BY <1>3, <2>1, SMT
<1>6. v = s - e
    BY <1>5 DEF EvenSecond
<1> HIDE DEF v
<1>7. v \in Int /\ v = 60 * q + 2 * k /\ 0 <= 2 * k /\ 2 * k < 60
    BY <1>1, <1>3, <1>6
<1>8. v \div 60 = q /\ v % 60 = 2 * k
  <2>1. 2 * k \in 0 .. 59
      BY <1>3, <1>7
  <2> QED BY <1>1, <1>7, <2>1, SMT
<1>9. (2 * k) \div 2 = k
    BY <1>3, SMT
<1>10. v \div 3600 = s \div 3600
  <2> DEFINE h == q \div 60
             i == q % 60
  <2>1. h \in Int /\ i \in 0 .. 59 /\ q = 60 * h + i
      BY <1>1, SMT
  <2> HIDE DEF h, i
  <2>2. /\ 3600 * h <= s /\ s < 3600 * h + 3600
        /\ 3600 * h <= v /\ v < 3600 * h + 3600
      BY <1>1, <1>3, <1>7, <2>1
  <2>3. s \div 3600 = h
      BY <2>1, <2>2, SMT
  <2>4. v \div 3600 = h
      BY <1>7, <2>1, <2>2, SMT
  <2> QED BY <2>3, <2>4
<1> DEFINE r == s \div 3600
           g == q % 60
<1>11. r \in Int /\ g \in Int
    BY <1>1
<1>12. s \div 3600 = r /\ q % 60 = g
    OBVIOUS
<1> HIDE DEF r, g
<1>13. PackTime(s) = r * 2048 + g * 32 + k
    BY <1>1, <1>2, <1>3, <1>4, <1>11, <1>12 DEF PackTime
<1>14. PackTime(v) = r * 2048 + g * 32 + k
    BY <1>8, <1>9, <1>10, <1>12 DEF PackTime
<1>15. 0 <= v /\ v < DaySeconds
  <2>1. 0 <= q
      BY <1>1
  <2> QED BY <1>1, <1>3, <1>6, <1>7, <2>1 DEF DaySeconds
<1> QED BY <1>7, <1>13, <1>14, <1>15 DEF v

\* What a time becomes that an entry keeps to the even second, or to the day
Even(t)     == [t EXCEPT !.sec = @ - (@ % 2), !.cs = 0]
Midnight(t) == [t EXCEPT !.sec = 0, !.cs = 0]

\* The two roundings, field by field
LEMMA Rounded ==
    ASSUME NEW day, NEW sec, NEW cs
    PROVE  /\ Even([day |-> day, sec |-> sec, cs |-> cs])
                = [day |-> day, sec |-> EvenSecond(sec), cs |-> 0]
           /\ Midnight([day |-> day, sec |-> sec, cs |-> cs])
                = [day |-> day, sec |-> 0, cs |-> 0]
<1>1. ASSUME NEW v
      PROVE  [[day |-> day, sec |-> sec, cs |-> cs] EXCEPT !.sec = v, !.cs = 0]
               = [day |-> day, sec |-> v, cs |-> 0]
  <2> DEFINE r == [day |-> day, sec |-> sec, cs |-> cs]
  <2>1. [r EXCEPT !.sec = v] = [day |-> day, sec |-> v, cs |-> cs]
      OBVIOUS
  <2>2. [[day |-> day, sec |-> v, cs |-> cs] EXCEPT !.cs = 0]
          = [day |-> day, sec |-> v, cs |-> 0]
      OBVIOUS
  <2> QED BY <2>1, <2>2, Zenon
<1>2. [day |-> day, sec |-> sec, cs |-> cs].sec = sec
    OBVIOUS
<1> QED BY <1>1, <1>2, Zenon DEF Even, Midnight, EvenSecond

\* What the two conversions make of a time from 1980 on
LEMMA ReadBackLate ==
    ASSUME NEW t \in Timespec, InRange(t), t.day >= 0
    PROVE  /\ ToUnix(FatDate(t), FatTime(t), FatTenths(t)) = t
           /\ ToUnix(FatDate(t), FatTime(t), 0) = Even(t)
           /\ ToUnix(FatDate(t), 0, 0) = Midnight(t)
           /\ CalendarDay(FatDate(t)) = t.day
<1>1. PICK y \in FirstYear .. LastYear, m \in 1 .. 12, d \in 1 .. 31 :
             /\ FatDate(t) = PackDate(y, m, d)
             /\ t.day = YearStart[y] + MonthStart(y, m) + d - 1
    BY DateExact
<1>2. PICK day \in Int, s \in 0 .. DaySeconds - 1, c \in 0 .. 99 :
        day = t.day /\ s = t.sec /\ c = t.cs
    BY DEF Timespec
<1>3. t = [day |-> day, sec |-> s, cs |-> c]
    BY <1>2 DEF Timespec
<1>4. s \in Int /\ 0 <= s /\ s < DaySeconds
    BY DEF DaySeconds
<1> DEFINE e == s % 2
           k == c + e * 100
<1>5. e \in 0 .. 1
    BY <1>4
<1>6. /\ k \in Int /\ 0 <= k /\ k <= 199 /\ k \div 100 = e /\ k % 100 = c
  <2> HIDE DEF e
  <2>1. k \in Int /\ 0 <= k /\ k <= 199
      BY <1>5
  <2>2. k \div 100 = e
      BY <1>5
  <2>3. k % 100 = c
      BY <1>5
  <2> QED BY <2>1, <2>2, <2>3
<1>7. FatTime(t) = PackTime(s) /\ FatTenths(t) = k
  <2>1. ~(t.day < 0)
      BY <1>2
  <2> QED BY <1>2, <2>1, Zenon DEF FatTime, FatTenths
<1>8. EvenSecond(s) + e = s /\ EvenSecond(s) \in Int
    BY <1>4, <1>5 DEF EvenSecond
<1>9. ToUnix(FatDate(t), FatTime(t), FatTenths(t)) = t
  <2>1. ToUnix(PackDate(y, m, d), PackTime(s), k) = UnixTime(y, m, d, s, k)
    <3> HIDE DEF k
    <3> QED BY <1>4, <1>6, Unpacked, SMT
  <2> HIDE DEF e, k
  <2> QED BY <1>1, <1>2, <1>3, <1>6, <1>7, <1>8, <2>1, Zenon DEF UnixTime
<1>10. 0 \in Int /\ 0 <= 0 /\ 0 <= 199 /\ 0 \div 100 = 0 /\ 0 % 100 = 0 /\ 0 < DaySeconds
    BY DEF DaySeconds
<1>11. EvenSecond(s) + 0 = EvenSecond(s)
    BY <1>8
<1>12. ToUnix(FatDate(t), FatTime(t), 0) = Even(t)
  <2>1. ToUnix(PackDate(y, m, d), PackTime(s), 0) = UnixTime(y, m, d, s, 0)
      BY <1>4, <1>10, Unpacked, SMT
  <2>2. Even(t) = [day |-> day, sec |-> EvenSecond(s), cs |-> 0]
      BY <1>3, Rounded, Zenon
  <2> QED BY <1>1, <1>2, <1>7, <1>10, <1>11, <2>1, <2>2, Zenon DEF UnixTime
<1>13. EvenSecond(0) + 0 = 0 /\ PackTime(0) = 0
  <2>1. /\ 0 \div 3600 = 0 /\ 0 \div 60 = 0 /\ 0 % 60 = 0 /\ 0 \div 2 = 0 /\ 0 % 2 = 0
      OBVIOUS
  <2> QED BY <2>1 DEF PackTime, EvenSecond
<1>14. ToUnix(FatDate(t), 0, 0) = Midnight(t)
  <2>1. ToUnix(PackDate(y, m, d), PackTime(0), 0) = UnixTime(y, m, d, 0, 0)
      BY <1>10, Unpacked, SMT
  <2>2. Midnight(t) = [day |-> day, sec |-> 0, cs |-> 0]
      BY <1>3, Rounded, Zenon
  <2> QED BY <1>1, <1>2, <1>10, <1>13, <2>1, <2>2, Zenon DEF UnixTime
<1>15. CalendarDay(FatDate(t)) = t.day
    BY <1>1, CalendarPacked, Zenon
<1> QED BY <1>9, <1>12, <1>14, <1>15
\* What an entry makes of any time that it can say, or that is before 1980, and
\* what it makes of that again: writing what was read changes nothing.
LEMMA ReadBack ==
    ASSUME NEW t \in Timespec, InRange(t)
    PROVE  /\ ToUnix(FatDate(t), FatTime(t), FatTenths(t)) = AtLeast1980(t)
           /\ ToUnix(FatDate(t), FatTime(t), 0) = Even(AtLeast1980(t))
           /\ ToUnix(FatDate(t), 0, 0) = Midnight(AtLeast1980(t))
           /\ CalendarDay(FatDate(t)) = AtLeast1980(t).day
           /\ Creation(AtLeast1980(t)) = Creation(t)
           /\ LastWrite(Even(AtLeast1980(t))) = LastWrite(t)
           /\ FatDate(Midnight(AtLeast1980(t))) = FatDate(t)
<1>1. PICK u \in Timespec : u = AtLeast1980(t)
    BY Clamped
<1>2. /\ InRange(u) /\ u.day >= 0 /\ Creation(u) = Creation(t)
      /\ LastWrite(u) = LastWrite(t) /\ FatDate(u) = FatDate(t)
    BY <1>1, Clamped, Zenon
<1>3. FatTime(u) = FatTime(t) /\ FatTenths(u) = FatTenths(t)
    BY <1>2 DEF Creation
<1>4. /\ ToUnix(FatDate(u), FatTime(u), FatTenths(u)) = u
      /\ ToUnix(FatDate(u), FatTime(u), 0) = Even(u)
      /\ ToUnix(FatDate(u), 0, 0) = Midnight(u)
      /\ CalendarDay(FatDate(u)) = u.day
    BY <1>2, ReadBackLate, Zenon
<1>5. PICK day \in Int, s \in 0 .. DaySeconds - 1, c \in 0 .. 99 :
        u = [day |-> day, sec |-> s, cs |-> c]
    BY DEF Timespec
<1>6. day = u.day /\ s = u.sec /\ ~(day < 0)
    BY <1>2, <1>5
<1>7. ASSUME NEW v, NEW w
      PROVE  /\ FatDate([day |-> day, sec |-> v, cs |-> w]) = FatDate(u)
             /\ FatTime([day |-> day, sec |-> v, cs |-> w]) = PackTime(v)
  <2> DEFINE r == [day |-> day, sec |-> v, cs |-> w]
  <2>1. r.day = day /\ r.sec = v
      OBVIOUS
  <2> HIDE DEF r
  <2>2. FatDate(r) = FatDate(u) /\ FatTime(r) = PackTime(v)
      BY <1>6, <2>1, Zenon DEF FatDate, FatTime
  <2> QED BY <2>2, Zenon DEF r
<1>8. FatTime(u) = PackTime(s)
    BY <1>6, Zenon DEF FatTime
<1>9. PackTime(EvenSecond(s)) = PackTime(s)
  <2>1. s \in Int /\ 0 <= s /\ s < DaySeconds
      BY DEF DaySeconds
  <2> QED BY <2>1, PackEven, Zenon
<1>10. /\ Even(u) = [day |-> day, sec |-> EvenSecond(s), cs |-> 0]
       /\ Midnight(u) = [day |-> day, sec |-> 0, cs |-> 0]
    BY <1>5, Rounded, Zenon
<1>11. LastWrite(Even(u)) = LastWrite(t)
    BY <1>2, <1>7, <1>8, <1>9, <1>10, Zenon DEF LastWrite
<1>12. FatDate(Midnight(u)) = FatDate(t)
    BY <1>2, <1>7, <1>10, Zenon
<1> QED BY <1>1, <1>2, <1>3, <1>4, <1>11, <1>12, Zenon

\* fat32_unix_to_fat_time and fat32_fat_to_unix_time are inverse to each other up
\* to what an entry keeps, and the dates are those of the Gregorian calendar, for
\* every time up to the end of 2107; a time before 1980 becomes the first of 1980.
THEOREM ConversionsInverse ==
    \A t \in Timespec :
        InRange(t) =>
            /\ ToUnix(FatDate(t), FatTime(t), FatTenths(t)) = AtLeast1980(t)
            /\ CalendarDay(FatDate(t)) = AtLeast1980(t).day
    BY ReadBack, Zenon

----------------------------------------------------------------------------
(* Vnode and entry *)

IsEntry(e) == e.there = TRUE /\ DOMAIN e = {"there", "attr", "a", "m", "c"}

IsVnode(f) ==
    f.there = TRUE /\ DOMAIN f = {"there", "new", "dirty", "attr", "mode", "a", "m", "c"}

\* Only times are dirty between calls: fat32_setattr writes back what it sets.
Shape ==
    /\ entry = NoEntry \/ IsEntry(entry)
    /\ fv = NoVnode \/ (IsVnode(fv) /\ IsEntry(entry) /\ fv.dirty \subseteq {"a", "m"})
    /\ DOMAIN asked = {"dir", "w", "a", "m", "c"}

\* What fat32_update_fdentry leaves in the entry
LEMMA UpdateFields ==
    ASSUME IsEntry(entry), NEW f
    PROVE  LET e == UpdateEntry(f)
           IN /\ IsEntry(e)
              /\ e.attr = IF "attr" \in f.dirty THEN f.attr ELSE entry.attr
              /\ e.a = IF "a" \in f.dirty THEN FatDate(f.a) ELSE entry.a
              /\ e.m = IF "m" \in f.dirty THEN LastWrite(f.m) ELSE entry.m
              /\ e.c = IF "c" \in f.dirty THEN Creation(f.c) ELSE entry.c
<1> DEFINE a == IF "a" \in f.dirty THEN FatDate(f.a) ELSE entry.a
           m == IF "m" \in f.dirty THEN LastWrite(f.m) ELSE entry.m
           c == IF "c" \in f.dirty THEN Creation(f.c) ELSE entry.c
           attr == IF "attr" \in f.dirty THEN f.attr ELSE entry.attr
<1>2. UpdateEntry(f) = [entry EXCEPT !.a = a, !.m = m, !.c = c, !.attr = attr]
    BY DEF UpdateEntry
<1> HIDE DEF a, m, c, attr
<1>3. /\ IsEntry(UpdateEntry(f)) /\ UpdateEntry(f).attr = attr /\ UpdateEntry(f).a = a
      /\ UpdateEntry(f).m = m /\ UpdateEntry(f).c = c
    BY <1>2 DEF IsEntry
<1> QED BY <1>3, Zenon DEF a, m, c, attr

\* A record is not the one that stands for none.
LEMMA Distinct ==
    /\ \A e : IsEntry(e) => e # NoEntry
    /\ \A f : IsVnode(f) => f # NoVnode
    BY DEF IsEntry, IsVnode, NoEntry, NoVnode

\* A vnode read from the entry
LEMMA ReadFields ==
    LET f == ReadEntry
    IN /\ IsVnode(f) /\ f.dirty = {} /\ f.attr = entry.attr /\ f.new = FALSE
       /\ f.a = ToUnix(entry.a, 0, 0)
       /\ f.m = ToUnix(entry.m[1], entry.m[2], 0)
       /\ f.c = ToUnix(entry.c[1], entry.c[2], entry.c[3])
<1> DEFINE a == ToUnix(entry.a, 0, 0)
           m == ToUnix(entry.m[1], entry.m[2], 0)
           c == ToUnix(entry.c[1], entry.c[2], entry.c[3])
           mode == IF "dir" \notin entry.attr /\ "ro" \in entry.attr THEN "ro" ELSE "rw"
<1>1. ReadEntry = [there |-> TRUE, new |-> FALSE, dirty |-> {}, attr |-> entry.attr,
                   mode |-> mode, a |-> a, m |-> m, c |-> c]
    BY Zenon DEF ReadEntry
<1> HIDE DEF a, m, c, mode
<1>2. /\ IsVnode(ReadEntry) /\ ReadEntry.dirty = {} /\ ReadEntry.attr = entry.attr
      /\ ReadEntry.new = FALSE /\ ReadEntry.a = a /\ ReadEntry.m = m /\ ReadEntry.c = c
    BY <1>1 DEF IsVnode
<1> QED BY <1>2, Zenon DEF a, m, c
\* A vnode that is clean
LEMMA CleanFields ==
    ASSUME NEW f, IsVnode(f)
    PROVE  /\ IsVnode(Clean(f)) /\ Clean(f).dirty = {} /\ Clean(f).attr = f.attr
           /\ Clean(f).new = f.new
    BY DEF IsVnode, Clean

\* A vnode of which fat32_setattr has set one time
Stamped(f, which, t) == [f EXCEPT ![which] = t, !.dirty = @ \cup {which}]

\* Setting one time of a vnode leaves the others.
LEMMA SetFields ==
    ASSUME NEW f, IsVnode(f), NEW which \in {"a", "m", "c"}, NEW t, NEW g,
           g = Stamped(f, which, t)
    PROVE  /\ IsVnode(g) /\ g.dirty = f.dirty \cup {which} /\ g.attr = f.attr /\ g.new = f.new
           /\ g.a = IF which = "a" THEN t ELSE f.a
           /\ g.m = IF which = "m" THEN t ELSE f.m
           /\ g.c = IF which = "c" THEN t ELSE f.c
<1>1. CASE which = "a"
    BY <1>1 DEF IsVnode, Stamped
<1>2. CASE which = "m"
    BY <1>2 DEF IsVnode, Stamped
<1>3. CASE which = "c"
    BY <1>3 DEF IsVnode, Stamped
<1> QED BY <1>1, <1>2, <1>3

\* A vnode whose mode fat32_setattr has changed
LEMMA ChmodFields ==
    ASSUME IsVnode(fv), NEW mode, NEW g, g = Chmoded(mode)
    PROVE  /\ IsVnode(g) /\ g.new = fv.new /\ g.a = fv.a /\ g.m = fv.m /\ g.c = fv.c
           /\ g.attr = IF mode = "rw" THEN fv.attr \ {"ro"} ELSE fv.attr \cup {"ro"}
           /\ g.dirty = fv.dirty \cup IF g.attr = fv.attr THEN {} ELSE {"attr"}
<1> DEFINE attr == IF mode = "rw" THEN fv.attr \ {"ro"} ELSE fv.attr \cup {"ro"}
           d == fv.dirty \cup IF attr = fv.attr THEN {} ELSE {"attr"}
<1>1. g = [fv EXCEPT !.mode = mode, !.attr = attr, !.dirty = d]
    BY DEF Chmoded
<1> HIDE DEF attr, d
<1>2. /\ IsVnode(g) /\ g.new = fv.new /\ g.a = fv.a /\ g.m = fv.m /\ g.c = fv.c
      /\ g.attr = attr /\ g.dirty = d
    BY <1>1 DEF IsVnode
<1> QED BY <1>2, Zenon DEF attr, d

\* fat32_create and fat32_mkdir, as what they do to the fields of entry and vnode
LEMMA MakeStep ==
    ASSUME NEW type, NEW mode, Make(type, mode)
    PROVE  /\ IsEntry(entry') /\ IsVnode(fv') /\ fv'.dirty = {"a", "m"} /\ fv'.new = TRUE
           /\ entry'.attr = type \cup (IF mode = "rw" THEN {} ELSE {"ro"})
           /\ entry'.c = Creation(now) /\ fv'.a = now' /\ fv'.m = now'
           /\ DOMAIN asked' = {"dir", "w", "a", "m", "c"}
           /\ asked'.dir = (type # {}) /\ asked'.w = (mode = "rw")
           /\ asked'.a = now' /\ asked'.m = now' /\ asked'.c = now
           /\ now' \in Instant
<1> DEFINE attr == type \cup (IF mode = "rw" THEN {} ELSE {"ro"})
           md == IF mode = "zero" THEN "rw" ELSE mode
           dir == (type # {})
           w == (mode = "rw")
<1>1. /\ entry' = [there |-> TRUE, attr |-> attr,
                   a |-> FatDate(now), m |-> LastWrite(now), c |-> Creation(now)]
      /\ fv' = [there |-> TRUE, new |-> TRUE, dirty |-> {"a", "m"}, attr |-> {},
                mode |-> md, a |-> now', m |-> now', c |-> now']
      /\ asked' = [dir |-> dir, w |-> w, a |-> now', m |-> now', c |-> now]
      /\ now' \in Instant
    BY DEF Make, Later
<1> HIDE DEF attr, md, dir, w
<1>2. /\ IsEntry(entry') /\ entry'.attr = attr /\ entry'.c = Creation(now)
    BY <1>1 DEF IsEntry
<1>3. /\ IsVnode(fv') /\ fv'.dirty = {"a", "m"} /\ fv'.new = TRUE
      /\ fv'.a = now' /\ fv'.m = now'
    BY <1>1 DEF IsVnode
<1>4. /\ DOMAIN asked' = {"dir", "w", "a", "m", "c"}
      /\ asked'.a = now' /\ asked'.m = now' /\ asked'.c = now
    BY <1>1
<1>5. asked'.dir = dir /\ asked'.w = w
    BY <1>1
<1> QED BY <1>1, <1>2, <1>3, <1>4, <1>5 DEF attr, dir, w
\* A call that ends with fat32_update_fdentry of vnode f, and leaves it clean or
\* gone
LEMMA WriteBack ==
    ASSUME IsEntry(entry), NEW f, IsVnode(f), entry' = UpdateEntry(f),
           fv' = Clean(f) \/ fv' = NoVnode, DOMAIN asked' = {"dir", "w", "a", "m", "c"}
    PROVE  /\ Shape' /\ IsEntry(entry')
           /\ entry'.attr = IF "attr" \in f.dirty THEN f.attr ELSE entry.attr
           /\ entry'.a = IF "a" \in f.dirty THEN FatDate(f.a) ELSE entry.a
           /\ entry'.m = IF "m" \in f.dirty THEN LastWrite(f.m) ELSE entry.m
           /\ entry'.c = IF "c" \in f.dirty THEN Creation(f.c) ELSE entry.c
           /\ IsVnode(fv') => fv'.dirty = {} /\ fv'.attr = f.attr /\ fv'.new = f.new
<1>1. PICK e : e = UpdateEntry(f)
    OBVIOUS
<1>2. /\ IsEntry(e)
      /\ e.attr = IF "attr" \in f.dirty THEN f.attr ELSE entry.attr
      /\ e.a = IF "a" \in f.dirty THEN FatDate(f.a) ELSE entry.a
      /\ e.m = IF "m" \in f.dirty THEN LastWrite(f.m) ELSE entry.m
      /\ e.c = IF "c" \in f.dirty THEN Creation(f.c) ELSE entry.c
    BY <1>1, UpdateFields, Zenon
<1>3. entry' = e
    BY <1>1
<1>4. PICK g : g = Clean(f)
    OBVIOUS
<1>5. IsVnode(g) /\ g.dirty = {} /\ g.attr = f.attr /\ g.new = f.new
    BY <1>4, CleanFields, Zenon
<1>6. fv' = g \/ fv' = NoVnode
    BY <1>4
<1>7. IsVnode(fv') => fv' = g
    BY <1>6, Distinct, Zenon
<1>8. Shape'
  <2>1. IsEntry(entry')
      BY <1>2, <1>3, Zenon
  <2>2. fv' = NoVnode \/ (IsVnode(fv') /\ fv'.dirty \subseteq {"a", "m"})
      BY <1>5, <1>6, Zenon
  <2> QED BY <2>1, <2>2, Zenon DEF Shape
<1> QED BY <1>2, <1>3, <1>5, <1>7, <1>8, Zenon

\* What holds of types and read-only bits between any two calls: the entry has
\* them as they were asked for, and a vnode that was read from it has them too.
AttrInv ==
    /\ Shape
    /\ IsEntry(entry) => /\ "dir" \in entry.attr <=> asked.dir
                         /\ "ro" \in entry.attr <=> ~asked.w
    /\ IsVnode(fv) /\ ~fv.new => fv.attr = entry.attr

\* A write-back of times keeps type and read-only bit.
LEMMA AttrWriteBack ==
    ASSUME AttrInv, NEW f, IsVnode(fv), IsVnode(f), entry' = UpdateEntry(f),
           fv' = Clean(f) \/ fv' = NoVnode, DOMAIN asked' = {"dir", "w", "a", "m", "c"},
           asked'.dir = asked.dir, asked'.w = asked.w,
           "attr" \notin f.dirty, f.attr = fv.attr, f.new = fv.new
    PROVE  AttrInv'
<1>1. IsEntry(entry)
    BY Distinct, Zenon DEF AttrInv, Shape
<1>2. /\ Shape' /\ IsEntry(entry') /\ entry'.attr = entry.attr
      /\ IsVnode(fv') => fv'.attr = f.attr /\ fv'.new = f.new
    BY <1>1, WriteBack, Zenon
<1>3. IsEntry(entry)'
    BY <1>2 DEF IsEntry
<1> QED BY <1>1, <1>2, Zenon DEF AttrInv

\* AttrInv is inductive when fresh vnodes are not chmoded.
LEMMA AttrStep ==
    ASSUME ~ChmodNew, AttrInv, [Next]_vars
    PROVE  AttrInv'
<1> USE DEF AttrInv
<1>1. ASSUME NEW type \in {{}, {"dir"}}, NEW mode \in Mode, Make(type, mode) PROVE AttrInv'
  <2>1. /\ IsEntry(entry') /\ IsVnode(fv') /\ fv'.dirty = {"a", "m"} /\ fv'.new = TRUE
        /\ entry'.attr = type \cup (IF mode = "rw" THEN {} ELSE {"ro"})
        /\ DOMAIN asked' = {"dir", "w", "a", "m", "c"}
        /\ asked'.dir = (type # {}) /\ asked'.w = (mode = "rw")
      BY <1>1, MakeStep, Zenon
  <2>2. Shape'
      BY <2>1, Zenon DEF Shape
  <2>3. "dir" \in entry'.attr <=> type # {}
      BY <2>1
  <2>4. "ro" \in entry'.attr <=> mode # "rw"
      BY <2>1
  <2> QED BY <2>1, <2>2, <2>3, <2>4, Zenon
<1>2. ASSUME NEW mode \in Mode, Chmod(mode) PROVE AttrInv'
  <2>1. IsVnode(fv) /\ IsEntry(entry) /\ fv.dirty \subseteq {"a", "m"} /\ ~fv.new
      BY <1>2, Zenon DEF Chmod, Shape
  <2>2. PICK g : g = Chmoded(mode)
      OBVIOUS
  <2>3. /\ IsVnode(g) /\ g.new = fv.new
        /\ g.attr = IF mode = "rw" THEN fv.attr \ {"ro"} ELSE fv.attr \cup {"ro"}
        /\ g.dirty = fv.dirty \cup IF g.attr = fv.attr THEN {} ELSE {"attr"}
      BY <2>1, <2>2, ChmodFields, Zenon
  <2>4. /\ entry' = UpdateEntry(g) /\ fv' = Clean(g)
        /\ asked' = [asked EXCEPT !.w = (mode = "rw")]
      BY <1>2, <2>2 DEF Chmod
  <2>5. DOMAIN asked' = {"dir", "w", "a", "m", "c"} /\ asked'.dir = asked.dir
      BY <2>4 DEF Shape
  <2>6. asked'.w = (mode = "rw")
      BY <2>4, Zenon DEF Shape
  <2>7. /\ Shape' /\ IsEntry(entry')
        /\ entry'.attr = IF "attr" \in g.dirty THEN g.attr ELSE entry.attr
        /\ IsVnode(fv') => fv'.dirty = {} /\ fv'.attr = g.attr /\ fv'.new = g.new
      BY <2>1, <2>3, <2>4, <2>5, WriteBack, Zenon
  <2>8. entry'.attr = g.attr
      BY <2>1, <2>3, <2>7
  <2>9. "dir" \in entry'.attr <=> "dir" \in entry.attr
      BY <2>1, <2>3, <2>8
  <2>10. "ro" \in entry'.attr <=> mode # "rw"
      BY <2>3, <2>8
  <2> QED BY <2>1, <2>5, <2>6, <2>7, <2>8, <2>9, <2>10, Zenon
<1>3. ASSUME Lookup \/ \E write \in BOOLEAN : CreateExisting(write) PROVE AttrInv'
  <2>1. PICK f : f = ReadEntry
      OBVIOUS
  <2>2. IsVnode(f) /\ f.dirty = {} /\ f.attr = entry.attr
      BY <2>1, ReadFields, Zenon
  <2>3. /\ entry' = entry /\ entry # NoEntry
        /\ fv' = f \/ fv' = [f EXCEPT !.a = now, !.m = now, !.c = now]
        /\ asked' = asked \/ asked' = [asked EXCEPT !.a = Lost, !.m = Lost, !.c = Lost]
      BY <1>3, <2>1 DEF Lookup, CreateExisting
  <2>4. IsVnode(fv') /\ fv'.dirty = {} /\ fv'.attr = entry.attr
      BY <2>2, <2>3 DEF IsVnode
  <2>5. IsEntry(entry)
      BY <2>3, Zenon DEF Shape
  <2>6. DOMAIN asked' = DOMAIN asked /\ asked'.dir = asked.dir /\ asked'.w = asked.w
      BY <2>3 DEF Shape
  <2> QED BY <2>3, <2>4, <2>5, <2>6, Zenon DEF Shape
<1>4. ASSUME NEW which \in {"a", "m"}, Touch(which) PROVE AttrInv'
  <2>1. IsVnode(fv) /\ IsEntry(entry) /\ fv.dirty \subseteq {"a", "m"}
      BY <1>4, Zenon DEF Touch, Shape
  <2>2. /\ IsVnode(fv') /\ fv'.dirty = fv.dirty \cup {which}
        /\ fv'.attr = fv.attr /\ fv'.new = fv.new
      BY <1>4, <2>1 DEF Touch, IsVnode
  <2>3. /\ DOMAIN asked' = {"dir", "w", "a", "m", "c"} /\ asked'.dir = asked.dir
        /\ asked'.w = asked.w /\ entry' = entry
      BY <1>4 DEF Touch, Shape
  <2>4. fv'.dirty \subseteq {"a", "m"}
      BY <2>1, <2>2
  <2> QED BY <2>1, <2>2, <2>3, <2>4, Zenon DEF Shape
<1>5. ASSUME NEW which \in {"a", "m", "c"}, NEW t \in Instant, Utimes(which, t) PROVE AttrInv'
  <2>1. IsVnode(fv) /\ fv.dirty \subseteq {"a", "m"}
      BY <1>5, Zenon DEF Utimes, Shape
  <2>2. PICK g : g = Stamped(fv, which, t)
      OBVIOUS
  <2>3. IsVnode(g) /\ g.dirty = fv.dirty \cup {which} /\ g.attr = fv.attr /\ g.new = fv.new
    <3>1. PICK f : f = fv
        OBVIOUS
    <3>2. IsVnode(f) /\ g = Stamped(f, which, t)
        BY <2>1, <2>2, <3>1
    <3>3. IsVnode(g) /\ g.dirty = f.dirty \cup {which} /\ g.attr = f.attr /\ g.new = f.new
        BY <3>2, SetFields
    <3> QED BY <3>1, <3>3, Zenon
  <2>4. /\ entry' = UpdateEntry(g) /\ fv' = Clean(g)
        /\ asked' = [asked EXCEPT ![which] = t]
      BY <1>5, <2>2 DEF Utimes, Stamped
  <2>5. /\ DOMAIN asked' = {"dir", "w", "a", "m", "c"} /\ asked'.dir = asked.dir
        /\ asked'.w = asked.w
      BY <2>4 DEF Shape
  <2>6. "attr" \notin g.dirty
      BY <2>1, <2>3
  <2> QED BY <2>1, <2>3, <2>4, <2>5, <2>6, AttrWriteBack, Zenon
<1>6. ASSUME Sync \/ Inactive PROVE AttrInv'
  <2>1. PICK f : f = fv
      OBVIOUS
  <2>2. IsVnode(f) /\ f.dirty \subseteq {"a", "m"}
      BY <1>6, <2>1, Zenon DEF Sync, Inactive, Shape
  <2>3. /\ entry' = UpdateEntry(f) /\ (fv' = Clean(f) \/ fv' = NoVnode)
        /\ asked' = asked
      BY <1>6, <2>1 DEF Sync, Inactive
  <2>4. "attr" \notin f.dirty
      BY <2>2
  <2> QED BY <2>1, <2>2, <2>3, <2>4, AttrWriteBack, Zenon DEF Shape
<1>7. ASSUME Rename PROVE AttrInv'
  <2>1. entry # NoEntry /\ fv = NoVnode /\ fv' = fv /\ asked' = asked
      BY <1>7 DEF Rename
  <2>2. IsEntry(entry)
      BY <2>1, Zenon DEF Shape
  <2>3. IsEntry(entry') /\ entry'.attr = entry.attr
      BY <1>7, <2>2 DEF Rename, IsEntry
  <2>4. ~IsVnode(fv')
      BY <2>1, Distinct, Zenon
  <2> QED BY <2>1, <2>2, <2>3, <2>4, Zenon DEF Shape
<1>8. ASSUME Remove PROVE AttrInv'
  <2>1. entry' = NoEntry /\ fv = NoVnode /\ fv' = fv /\ asked' = asked
      BY <1>8 DEF Remove
  <2>2. ~IsVnode(fv') /\ ~IsEntry(entry')
      BY <2>1, Distinct, Zenon
  <2> QED BY <2>1, <2>2, Zenon DEF Shape
<1>9. ASSUME Tick \/ UNCHANGED vars PROVE AttrInv'
  <2>1. entry' = entry /\ fv' = fv /\ asked' = asked
      BY <1>9 DEF Tick, vars
  <2> QED BY <2>1, Zenon DEF Shape
<1> HIDE DEF AttrInv
<1>10. {} \in {{}, {"dir"}} /\ {"dir"} \in {{}, {"dir"}}
    OBVIOUS
<1> QED BY <1>1, <1>2, <1>3, <1>4, <1>5, <1>6, <1>7, <1>8, <1>9, <1>10, Zenon
        DEF Next, Create, Mkdir
\* When its vnode is gone, an entry has the type and the read-only bit that
\* fat32_create, fat32_mkdir and fat32_setattr were asked for, whatever the calls
\* and however many, if modes are not changed through the vnode of a new file.
THEOREM AttributesSurvive ==
    ASSUME ~ChmodNew
    PROVE  Spec => []AttrSurvives
<1>1. Init => AttrInv
  <2>1. SUFFICES ASSUME Init PROVE AttrInv
      OBVIOUS
  <2>2. entry = NoEntry /\ fv = NoVnode /\ DOMAIN asked = {"dir", "w", "a", "m", "c"}
      BY <2>1 DEF Init
  <2>3. ~IsEntry(entry) /\ ~IsVnode(fv)
      BY <2>2, Distinct, Zenon
  <2> QED BY <2>2, <2>3, Zenon DEF AttrInv, Shape
<1>2. AttrInv /\ [Next]_vars => AttrInv'
    BY AttrStep
<1>3. AttrInv => AttrSurvives
    BY Zenon DEF AttrInv, Shape, AttrSurvives, TypeKept, Closed
<1> QED BY <1>1, <1>2, <1>3, PTL DEF Spec

----------------------------------------------------------------------------
(* Times *)

Unsaved(x) == IsVnode(fv) /\ x \in fv.dirty

\* What holds of times between any two calls: the entry has the ones last asked
\* for, but for those that the vnode has and the entry not yet, and those that
\* are lost.
AskedTime == Instant \cup {Lost}

TimeInv ==
    /\ Shape
    /\ now \in Instant /\ asked.a \in AskedTime /\ asked.m \in AskedTime /\ asked.c \in AskedTime
    /\ IsEntry(entry) =>
         /\ asked.c # Lost => entry.c = Creation(asked.c)
         /\ asked.m # Lost /\ ~Unsaved("m") => entry.m = LastWrite(asked.m)
         /\ asked.a # Lost /\ ~Unsaved("a") => entry.a = FatDate(asked.a)
    /\ Unsaved("m") => fv.m = asked.m
    /\ Unsaved("a") => fv.a = asked.a

Representable == \A t \in Instant : InRange(t)

\* After a write-back the entry has all the times that were asked for.
LEMMA TimeWriteBack ==
    ASSUME TimeInv, NEW f, IsVnode(fv), IsVnode(f), entry' = UpdateEntry(f), now' = now,
           fv' = Clean(f) \/ fv' = NoVnode, DOMAIN asked' = {"dir", "w", "a", "m", "c"},
           asked'.a \in AskedTime, asked'.m \in AskedTime, asked'.c \in AskedTime,
           IF "a" \in f.dirty THEN f.a = asked'.a
                              ELSE "a" \notin fv.dirty /\ asked'.a = asked.a,
           IF "m" \in f.dirty THEN f.m = asked'.m
                              ELSE "m" \notin fv.dirty /\ asked'.m = asked.m,
           IF "c" \in f.dirty THEN f.c = asked'.c ELSE asked'.c = asked.c
    PROVE  TimeInv'
<1>1. IsEntry(entry)
    BY Distinct, Zenon DEF TimeInv, Shape
<1>2. /\ Shape' /\ IsEntry(entry')
      /\ entry'.a = IF "a" \in f.dirty THEN FatDate(f.a) ELSE entry.a
      /\ entry'.m = IF "m" \in f.dirty THEN LastWrite(f.m) ELSE entry.m
      /\ entry'.c = IF "c" \in f.dirty THEN Creation(f.c) ELSE entry.c
      /\ IsVnode(fv') => fv'.dirty = {}
    BY <1>1, WriteBack, Zenon
<1>3. ~Unsaved("a")' /\ ~Unsaved("m")'
    BY <1>2, Zenon DEF Unsaved
<1>4. asked.c # Lost => entry.c = Creation(asked.c)
    BY <1>1, Zenon DEF TimeInv
<1>5. "m" \notin f.dirty /\ asked.m # Lost => entry.m = LastWrite(asked.m)
    BY <1>1, Zenon DEF TimeInv, Unsaved
<1>6. "a" \notin f.dirty /\ asked.a # Lost => entry.a = FatDate(asked.a)
    BY <1>1, Zenon DEF TimeInv, Unsaved
<1>7. /\ asked'.c # Lost => entry'.c = Creation(asked'.c)
      /\ asked'.m # Lost => entry'.m = LastWrite(asked'.m)
      /\ asked'.a # Lost => entry'.a = FatDate(asked'.a)
    BY <1>2, <1>4, <1>5, <1>6, Zenon
<1>8. now' \in Instant
    BY Zenon DEF TimeInv
<1> QED BY <1>2, <1>3, <1>7, <1>8, Zenon DEF TimeInv

\* fat32_rename makes the new entry from what it read from the old one.
LEMMA RenameKeeps ==
    ASSUME Representable, NEW x \in Instant
    PROVE  /\ entry.a = FatDate(x) =>
                FatDate(ReadEntry.a) = FatDate(x) /\ ReadEntry.a = Midnight(AtLeast1980(x))
           /\ entry.m = LastWrite(x) =>
                LastWrite(ReadEntry.m) = LastWrite(x) /\ ReadEntry.m = Even(AtLeast1980(x))
           /\ entry.c = Creation(x) =>
                Creation(ReadEntry.c) = Creation(x) /\ ReadEntry.c = AtLeast1980(x)
<1>1. x \in Timespec /\ InRange(x)
    BY AttributesAssumption DEF Representable
<1>2. ASSUME entry.a = FatDate(x)
      PROVE  ReadEntry.a = Midnight(AtLeast1980(x)) /\ FatDate(Midnight(AtLeast1980(x))) = FatDate(x)
    BY <1>1, <1>2, ReadFields, ReadBack, Zenon
<1>3. ASSUME entry.m = LastWrite(x)
      PROVE  ReadEntry.m = Even(AtLeast1980(x)) /\ LastWrite(Even(AtLeast1980(x))) = LastWrite(x)
  <2>1. entry.m[1] = FatDate(x) /\ entry.m[2] = FatTime(x)
      BY <1>3 DEF LastWrite
  <2> QED BY <1>1, <2>1, ReadFields, ReadBack, Zenon
<1>4. ASSUME entry.c = Creation(x)
      PROVE  ReadEntry.c = AtLeast1980(x) /\ Creation(AtLeast1980(x)) = Creation(x)
  <2>1. entry.c[1] = FatDate(x) /\ entry.c[2] = FatTime(x) /\ entry.c[3] = FatTenths(x)
      BY <1>4 DEF Creation
  <2> QED BY <1>1, <2>1, ReadFields, ReadBack, Zenon
<1> QED BY <1>2, <1>3, <1>4, Zenon

\* TimeInv is inductive.
LEMMA TimeStep ==
    ASSUME Representable, TimeInv, [Next]_vars
    PROVE  TimeInv'
<1> USE DEF TimeInv
<1>1. ASSUME NEW type, NEW mode, Make(type, mode) PROVE TimeInv'
  <2>1. /\ IsEntry(entry') /\ IsVnode(fv') /\ fv'.dirty = {"a", "m"}
        /\ entry'.c = Creation(now) /\ fv'.a = now' /\ fv'.m = now'
        /\ DOMAIN asked' = {"dir", "w", "a", "m", "c"}
        /\ asked'.a = now' /\ asked'.m = now' /\ asked'.c = now /\ now' \in Instant
      BY <1>1, MakeStep, Zenon
  <2>2. Shape'
      BY <2>1, Zenon DEF Shape
  <2>3. Unsaved("m")' /\ Unsaved("a")'
      BY <2>1 DEF Unsaved
  <2>4. asked'.a \in AskedTime /\ asked'.m \in AskedTime /\ asked'.c \in AskedTime
      BY <2>1, Zenon DEF AskedTime
  <2> QED BY <2>1, <2>2, <2>3, <2>4, Zenon
<1>2. ASSUME NEW mode \in Mode, Chmod(mode) PROVE TimeInv'
  <2>1. IsVnode(fv) /\ fv.dirty \subseteq {"a", "m"}
      BY <1>2, Zenon DEF Chmod, Shape
  <2>2. PICK g : g = Chmoded(mode)
      OBVIOUS
  <2>3. /\ IsVnode(g) /\ g.a = fv.a /\ g.m = fv.m /\ g.c = fv.c
        /\ g.dirty = fv.dirty \cup IF g.attr = fv.attr THEN {} ELSE {"attr"}
      BY <2>1, <2>2, ChmodFields, Zenon
  <2>4. /\ entry' = UpdateEntry(g) /\ fv' = Clean(g) /\ now' = now
        /\ asked' = [asked EXCEPT !.w = (mode = "rw")]
      BY <1>2, <2>2 DEF Chmod
  <2>5. /\ DOMAIN asked' = {"dir", "w", "a", "m", "c"}
        /\ asked'.a = asked.a /\ asked'.m = asked.m /\ asked'.c = asked.c
    <3> DEFINE w == (mode = "rw")
    <3>1. asked' = [asked EXCEPT !.w = w]
        BY <2>4
    <3> HIDE DEF w
    <3> QED BY <3>1 DEF Shape
  <2>6. /\ "a" \in g.dirty <=> "a" \in fv.dirty
        /\ "m" \in g.dirty <=> "m" \in fv.dirty
        /\ "c" \notin g.dirty
      BY <2>1, <2>3
  <2>7. ("a" \in fv.dirty => fv.a = asked.a) /\ ("m" \in fv.dirty => fv.m = asked.m)
      BY <2>1, Zenon DEF Unsaved
  <2>8. /\ IF "a" \in g.dirty THEN g.a = asked'.a
                              ELSE "a" \notin fv.dirty /\ asked'.a = asked.a
        /\ IF "m" \in g.dirty THEN g.m = asked'.m
                              ELSE "m" \notin fv.dirty /\ asked'.m = asked.m
        /\ IF "c" \in g.dirty THEN g.c = asked'.c ELSE asked'.c = asked.c
      BY <2>3, <2>5, <2>6, <2>7, Zenon
  <2>9. asked'.a \in AskedTime /\ asked'.m \in AskedTime /\ asked'.c \in AskedTime
      BY <2>5, Zenon
  <2> HIDE DEF TimeInv
  <2> QED BY <2>1, <2>3, <2>4, <2>5, <2>8, <2>9, TimeWriteBack, Zenon
<1>3. ASSUME Lookup \/ \E write \in BOOLEAN : CreateExisting(write) PROVE TimeInv'
  <2>1. PICK f : f = ReadEntry
      OBVIOUS
  <2>2. IsVnode(f) /\ f.dirty = {}
      BY <2>1, ReadFields, Zenon
  <2>3. /\ entry' = entry /\ entry # NoEntry /\ fv = NoVnode /\ now' = now
        /\ fv' = f \/ fv' = [f EXCEPT !.a = now, !.m = now, !.c = now]
        /\ asked' = asked \/ asked' = [asked EXCEPT !.a = Lost, !.m = Lost, !.c = Lost]
      BY <1>3, <2>1 DEF Lookup, CreateExisting
  <2>4. IsVnode(fv') /\ fv'.dirty = {}
      BY <2>2, <2>3 DEF IsVnode
  <2>5. IsEntry(entry)
      BY <2>3, Zenon DEF Shape
  <2>6. ~Unsaved("m") /\ ~Unsaved("a") /\ ~Unsaved("m")' /\ ~Unsaved("a")'
      BY <2>3, <2>4, Distinct, Zenon DEF Unsaved
  <2>7. /\ DOMAIN asked' = DOMAIN asked
        /\ asked'.a \in {asked.a, Lost} /\ asked'.m \in {asked.m, Lost} /\ asked'.c \in {asked.c, Lost}
      BY <2>3 DEF Shape
  <2>8. asked'.a \in AskedTime /\ asked'.m \in AskedTime /\ asked'.c \in AskedTime
      BY <2>7, Zenon DEF AskedTime
  <2> QED BY <2>3, <2>4, <2>5, <2>6, <2>7, <2>8, Zenon DEF Shape
<1>4. ASSUME NEW which \in {"a", "m"}, Touch(which) PROVE TimeInv'
  <2>1. IsVnode(fv) /\ IsEntry(entry) /\ fv.dirty \subseteq {"a", "m"}
      BY <1>4, Zenon DEF Touch, Shape
  <2>2. /\ IsVnode(fv') /\ fv'.dirty = fv.dirty \cup {which}
        /\ fv'.a = (IF which = "a" THEN now ELSE fv.a)
        /\ fv'.m = (IF which = "m" THEN now ELSE fv.m)
      BY <1>4, <2>1 DEF Touch, IsVnode
  <2>3. /\ DOMAIN asked' = {"dir", "w", "a", "m", "c"}
        /\ asked'.a = (IF which = "a" THEN now ELSE asked.a)
        /\ asked'.m = (IF which = "m" THEN now ELSE asked.m)
        /\ asked'.c = asked.c /\ entry' = entry /\ now' = now
      BY <1>4 DEF Touch, Shape
  <2>4. fv'.dirty \subseteq {"a", "m"}
      BY <2>1, <2>2
  <2>5. /\ Shape'
        /\ asked'.a \in AskedTime /\ asked'.m \in AskedTime /\ asked'.c \in AskedTime
      BY <2>1, <2>2, <2>3, <2>4, Zenon DEF Shape, AskedTime
  <2>6. CASE which = "a"
    <3>1. /\ Unsaved("a")' /\ (Unsaved("m")' <=> Unsaved("m"))
          /\ fv'.a = now /\ asked'.a = now /\ fv'.m = fv.m /\ asked'.m = asked.m
        BY <2>1, <2>2, <2>3, <2>6 DEF Unsaved
    <3> QED BY <2>1, <2>3, <2>5, <3>1, Zenon
  <2>7. CASE which = "m"
    <3>1. /\ Unsaved("m")' /\ (Unsaved("a")' <=> Unsaved("a"))
          /\ fv'.m = now /\ asked'.m = now /\ fv'.a = fv.a /\ asked'.a = asked.a
        BY <2>1, <2>2, <2>3, <2>7 DEF Unsaved
    <3> QED BY <2>1, <2>3, <2>5, <3>1, Zenon
  <2> QED BY <2>6, <2>7, Zenon
<1>5. ASSUME NEW which \in {"a", "m", "c"}, NEW t \in Instant, Utimes(which, t) PROVE TimeInv'
  <2>1. IsVnode(fv) /\ fv.dirty \subseteq {"a", "m"}
      BY <1>5, Zenon DEF Utimes, Shape
  <2>2. PICK g : g = Stamped(fv, which, t)
      OBVIOUS
  <2>3. /\ IsVnode(g) /\ g.dirty = fv.dirty \cup {which}
        /\ g.a = (IF which = "a" THEN t ELSE fv.a)
        /\ g.m = (IF which = "m" THEN t ELSE fv.m)
        /\ g.c = (IF which = "c" THEN t ELSE fv.c)
    <3>1. PICK f : f = fv
        OBVIOUS
    <3>2. IsVnode(f) /\ g = Stamped(f, which, t)
        BY <2>1, <2>2, <3>1
    <3>3. /\ IsVnode(g) /\ g.dirty = f.dirty \cup {which}
          /\ g.a = (IF which = "a" THEN t ELSE f.a)
          /\ g.m = (IF which = "m" THEN t ELSE f.m)
          /\ g.c = (IF which = "c" THEN t ELSE f.c)
        BY <3>2, SetFields
    <3> QED BY <3>1, <3>3, Zenon
  <2>4. /\ entry' = UpdateEntry(g) /\ fv' = Clean(g) /\ now' = now
        /\ asked' = [asked EXCEPT ![which] = t]
      BY <1>5, <2>2 DEF Utimes, Stamped
  <2>5. /\ DOMAIN asked' = {"dir", "w", "a", "m", "c"}
        /\ asked'.a = (IF which = "a" THEN t ELSE asked.a)
        /\ asked'.m = (IF which = "m" THEN t ELSE asked.m)
        /\ asked'.c = (IF which = "c" THEN t ELSE asked.c)
      BY <2>4 DEF Shape
  <2>6. /\ "a" \in g.dirty <=> "a" \in fv.dirty \/ which = "a"
        /\ "m" \in g.dirty <=> "m" \in fv.dirty \/ which = "m"
        /\ "c" \in g.dirty <=> which = "c"
      BY <2>1, <2>3
  <2>7. ("a" \in fv.dirty => fv.a = asked.a) /\ ("m" \in fv.dirty => fv.m = asked.m)
      BY <2>1, Zenon DEF Unsaved
  <2>8. /\ IF "a" \in g.dirty THEN g.a = asked'.a
                              ELSE "a" \notin fv.dirty /\ asked'.a = asked.a
        /\ IF "m" \in g.dirty THEN g.m = asked'.m
                              ELSE "m" \notin fv.dirty /\ asked'.m = asked.m
        /\ IF "c" \in g.dirty THEN g.c = asked'.c ELSE asked'.c = asked.c
      BY <2>3, <2>5, <2>6, <2>7, Zenon
  <2>9. asked'.a \in AskedTime /\ asked'.m \in AskedTime /\ asked'.c \in AskedTime
      BY <2>5, Zenon DEF AskedTime
  <2> HIDE DEF TimeInv
  <2> QED BY <2>1, <2>3, <2>4, <2>5, <2>8, <2>9, TimeWriteBack, Zenon
<1>6. ASSUME Sync \/ Inactive PROVE TimeInv'
  <2>1. PICK f : f = fv
      OBVIOUS
  <2>2. IsVnode(f) /\ f.dirty \subseteq {"a", "m"}
      BY <1>6, <2>1, Zenon DEF Sync, Inactive, Shape
  <2>3. /\ entry' = UpdateEntry(f) /\ (fv' = Clean(f) \/ fv' = NoVnode)
        /\ asked' = asked /\ now' = now /\ DOMAIN asked' = {"dir", "w", "a", "m", "c"}
      BY <1>6, <2>1 DEF Sync, Inactive, Shape
  <2>4. "c" \notin f.dirty
      BY <2>2
  <2>5. /\ IF "a" \in f.dirty THEN f.a = asked'.a
                              ELSE "a" \notin fv.dirty /\ asked'.a = asked.a
        /\ IF "m" \in f.dirty THEN f.m = asked'.m
                              ELSE "m" \notin fv.dirty /\ asked'.m = asked.m
        /\ IF "c" \in f.dirty THEN f.c = asked'.c ELSE asked'.c = asked.c
      BY <2>1, <2>2, <2>3, <2>4, Zenon DEF Unsaved
  <2>6. asked'.a \in AskedTime /\ asked'.m \in AskedTime /\ asked'.c \in AskedTime
      BY <2>3, Zenon
  <2> HIDE DEF TimeInv
  <2> QED BY <2>1, <2>2, <2>3, <2>5, <2>6, TimeWriteBack, Zenon
<1>7. ASSUME Rename PROVE TimeInv'
  <2>1. entry # NoEntry /\ fv = NoVnode /\ fv' = fv /\ asked' = asked /\ now' = now
      BY <1>7 DEF Rename
  <2>2. IsEntry(entry) /\ ~IsVnode(fv) /\ ~IsVnode(fv')
      BY <2>1, Distinct, Zenon DEF Shape
  <2>3. /\ ~Unsaved("m") /\ ~Unsaved("a") /\ ~Unsaved("m")' /\ ~Unsaved("a")'
      BY <2>2, Zenon DEF Unsaved
  <2>4. PICK p, q, r : p = FatDate(ReadEntry.a) /\ q = LastWrite(ReadEntry.m)
                        /\ r = Creation(ReadEntry.c)
      OBVIOUS
  <2>5. entry' = [entry EXCEPT !.a = p, !.m = q, !.c = r]
      BY <1>7, <2>4, Zenon DEF Rename
  <2>6. IsEntry(entry') /\ entry'.a = p /\ entry'.m = q /\ entry'.c = r
      BY <2>2, <2>5 DEF IsEntry
  <2>7. asked.a # Lost => p = FatDate(asked.a)
      BY <2>2, <2>3, <2>4, RenameKeeps, Zenon DEF AskedTime
  <2>8. asked.m # Lost => q = LastWrite(asked.m)
      BY <2>2, <2>3, <2>4, RenameKeeps, Zenon DEF AskedTime
  <2>9. asked.c # Lost => r = Creation(asked.c)
      BY <2>2, <2>3, <2>4, RenameKeeps, Zenon DEF AskedTime
  <2> QED BY <2>1, <2>2, <2>3, <2>6, <2>7, <2>8, <2>9, Zenon DEF Shape
<1>8. ASSUME Remove PROVE TimeInv'
  <2>1. entry' = NoEntry /\ fv = NoVnode /\ fv' = fv /\ asked' = asked /\ now' = now
      BY <1>8 DEF Remove
  <2>2. ~IsVnode(fv') /\ ~IsEntry(entry')
      BY <2>1, Distinct, Zenon
  <2> QED BY <2>1, <2>2, Zenon DEF Shape, Unsaved
<1>9. ASSUME Tick \/ UNCHANGED vars PROVE TimeInv'
  <2>1. entry' = entry /\ fv' = fv /\ asked' = asked /\ now' \in Instant
      BY <1>9 DEF Tick, vars, Later
  <2> QED BY <2>1, Zenon DEF Shape, Unsaved
<1> HIDE DEF TimeInv
<1> QED BY <1>1, <1>2, <1>3, <1>4, <1>5, <1>6, <1>7, <1>8, <1>9, Zenon DEF Next, Create, Mkdir

\* When its vnode is gone, an entry has the times that were last set, or that of
\* the creation, as precisely as an entry can keep them and with the calendar's
\* date, through any number of calls and renames and for all times up to 2107,
\* unless it was fat32_create of an existing name that set them last.
THEOREM TimesKept ==
    ASSUME Representable
    PROVE  Spec => []TimesSurvive
<1>1. Init => TimeInv
  <2>1. SUFFICES ASSUME Init PROVE TimeInv
      OBVIOUS
  <2>2. /\ entry = NoEntry /\ fv = NoVnode /\ DOMAIN asked = {"dir", "w", "a", "m", "c"}
        /\ now \in Instant /\ asked.a = now /\ asked.m = now /\ asked.c = now
      BY <2>1 DEF Init
  <2>2a. now \in AskedTime
      BY <2>2 DEF AskedTime
  <2>3. ~IsEntry(entry) /\ ~IsVnode(fv)
      BY <2>2, Distinct, Zenon
  <2> QED BY <2>2, <2>2a, <2>3, Zenon DEF TimeInv, Shape, Unsaved
<1>2. TimeInv /\ [Next]_vars => TimeInv'
    BY TimeStep
<1>3. TimeInv => TimesSurvive
  <2>1. SUFFICES ASSUME TimeInv, Closed PROVE TimesSurvive
      BY DEF TimesSurvive
  <2>2. IsEntry(entry) /\ ~IsVnode(fv)
      BY <2>1, Distinct, Zenon DEF TimeInv, Shape, Closed
  <2>3. ASSUME asked.a # Lost
        PROVE  /\ ReadEntry.a = Midnight(AtLeast1980(asked.a))
               /\ CalendarDay(entry.a) = AtLeast1980(asked.a).day
    <3>1. PICK x \in Instant : x = asked.a
        BY <2>1, <2>3, Zenon DEF TimeInv, AskedTime
    <3>2. entry.a = FatDate(x)
        BY <2>1, <2>2, <2>3, <3>1, Zenon DEF TimeInv, Unsaved
    <3>3. x \in Timespec /\ InRange(x)
        BY AttributesAssumption DEF Representable
    <3> QED BY <3>1, <3>2, <3>3, RenameKeeps, ReadBack, Zenon
  <2>4. ASSUME asked.m # Lost PROVE ReadEntry.m = Even(AtLeast1980(asked.m))
    <3>1. PICK x \in Instant : x = asked.m
        BY <2>1, <2>4, Zenon DEF TimeInv, AskedTime
    <3>2. entry.m = LastWrite(x)
        BY <2>1, <2>2, <2>4, <3>1, Zenon DEF TimeInv, Unsaved
    <3> QED BY <3>1, <3>2, RenameKeeps, Zenon
  <2>5. ASSUME asked.c # Lost PROVE ReadEntry.c = AtLeast1980(asked.c)
    <3>1. PICK x \in Instant : x = asked.c
        BY <2>1, <2>5, Zenon DEF TimeInv, AskedTime
    <3>2. entry.c = Creation(x)
        BY <2>1, <2>2, <2>5, <3>1, Zenon DEF TimeInv
    <3> QED BY <3>1, <3>2, RenameKeeps, Zenon
  <2> QED BY <2>3, <2>4, <2>5, Zenon DEF TimesSurvive, Even, Midnight
<1> QED BY <1>1, <1>2, <1>3, PTL DEF Spec
=============================================================================
