----------------------------- MODULE ValuesProofs -----------------------------
(***************************************************************************)
(* Theorems about Values.  The calendar of Date and Timestamp, for every set*)
(* of years and whatever the lengths of an hour, a minute and a second:     *)
(* months are counted from March of the year 0, so that a leap day is the   *)
(* last of its year, and everything rests on where the first of a month     *)
(* lies.  The bytes of integers, for every radix: a number is the sum of    *)
(* its digits.  The search and the division of texts, for every text: a loop*)
(* of the code is a recursive function of the number of rounds, and its     *)
(* invariant a family of sets, one for each round.                          *)
(***************************************************************************)
EXTENDS Values, WellFoundedInduction, SequenceTheorems, TLAPS

-----------------------------------------------------------------------------
(* Counting months and days.                                               *)

\* Leap days in the years from 1 to y.
Leaps(y) == y \div 4 - y \div 100 + y \div 400

\* Days from the first of March of the year 0 to that of month m, 0 for March of
\* the year 0.
FirstOf(m) == YearStart(m \div 12) + MonthStart(m % 12)

\* The same for the first of January 1970.
Epoch == YearStart(1969) + MonthStart(10)

\* A month of the count is one of a year.
LEMMA DivMod12 ==
  ASSUME NEW m \in Int
  PROVE  /\ m \div 12 \in Int
         /\ m % 12 \in 0 .. 11
         /\ m = 12 * (m \div 12) + (m % 12)
OBVIOUS

\* The count of days begins at a whole day.
LEMMA EpochInt == Epoch \in Int
BY DEF Epoch, YearStart, MonthStart

\* The number of a day, by the first of its month.
LEMMA DayNumberIs ==
  ASSUME NEW y \in Int, NEW m \in Int, NEW d \in Int
  PROVE  DayNumber(y, m, d) = FirstOf(12 * y + m - 3) + d - 1 - Epoch
BY DEF DayNumber, FirstOf, Epoch, YearStart, MonthStart

\* The first of a month is a whole day.
LEMMA FirstInt ==
  ASSUME NEW m \in Int
  PROVE  FirstOf(m) \in Int
BY DEF FirstOf, YearStart, MonthStart

\* The number of the first day of a month.
LEMMA FirstDay ==
  ASSUME NEW y \in Int, NEW m \in Int, NEW k \in Int, k = 12 * y + m - 3
  PROVE  DayNumber(y, m, 1) = FirstOf(k) - Epoch /\ DayNumber(y, m, 1) \in Int
<1>1. DayNumber(y, m, 1) = FirstOf(k) + 1 - 1 - Epoch
  BY DayNumberIs
<1>2. FirstOf(k) \in Int /\ Epoch \in Int
  BY FirstInt, EpochInt
<1> QED
  BY <1>1, <1>2

\* The days of a month follow its first.
LEMMA DaysOfMonth ==
  ASSUME NEW y \in Int, NEW m \in Int, NEW d \in Int
  PROVE  /\ DayNumber(y, m, d) = DayNumber(y, m, 1) + d - 1
         /\ DayNumber(y, m, d) \in Int /\ DayNumber(y, m, 1) \in Int
<1> DEFINE f == FirstOf(12 * y + m - 3)
<1>1. f \in Int /\ Epoch \in Int
  BY FirstInt, EpochInt
<1>2. DayNumber(y, m, d) = f + d - 1 - Epoch
      /\ DayNumber(y, m, 1) = f + 1 - 1 - Epoch
  BY DayNumberIs
<1> HIDE DEF f
<1> QED
  BY <1>1, <1>2

\* Leap days only add up: a century that drops one has kept 24.
LEMMA LeapsGrow ==
  ASSUME NEW y \in Int, NEW z \in Int, y <= z
  PROVE  Leaps(y) <= Leaps(z)
BY DEF Leaps

\* A year has at least 365 days.
LEMMA YearsOrdered ==
  ASSUME NEW y \in Int, NEW z \in Int, y <= z
  PROVE  YearStart(z) >= YearStart(y) + 365 * (z - y)
BY LeapsGrow DEF YearStart, Leaps

\* isLeapYear says of which year the C library's count gains a day.
LEMMA LeapDay ==
  ASSUME NEW y \in Int
  PROVE  Leaps(y) - Leaps(y - 1) = IF IsLeapYear(y) THEN 1 ELSE 0
BY DEF Leaps, IsLeapYear

\* Within a year that begins in March, a month has at least 28 days.
LEMMA MonthsWithinYear ==
  ASSUME NEW a \in 0 .. 11, NEW b \in 0 .. 11, a < b
  PROVE  MonthStart(b) >= MonthStart(a) + 28
BY DEF MonthStart

\* The last month of such a year begins at day 337.
LEMMA MonthStartRange ==
  ASSUME NEW a \in 0 .. 11
  PROVE  MonthStart(a) \in 0 .. 337
BY DEF MonthStart

\* Months follow one another, at least 28 days apart, across years too.
LEMMA MonthsOrdered ==
  ASSUME NEW m \in Int, NEW n \in Int, m < n
  PROVE  FirstOf(n) >= FirstOf(m) + 28
<1> DEFINE p == m \div 12
           q == n \div 12
           a == m % 12
           b == n % 12
<1>1. /\ p \in Int /\ a \in 0 .. 11 /\ m = 12 * p + a
      /\ q \in Int /\ b \in 0 .. 11 /\ n = 12 * q + b
  BY DivMod12
<1>2. FirstOf(m) = YearStart(p) + MonthStart(a)
      /\ FirstOf(n) = YearStart(q) + MonthStart(b)
  BY DEF FirstOf
<1>3. /\ YearStart(p) \in Int /\ YearStart(q) \in Int
      /\ MonthStart(a) \in 0 .. 337 /\ MonthStart(b) \in 0 .. 337
  BY <1>1, MonthStartRange DEF YearStart
<1> DEFINE Y == YearStart(p)
           Z == YearStart(q)
           A == MonthStart(a)
           B == MonthStart(b)
<1>7. /\ FirstOf(m) = Y + A /\ FirstOf(n) = Z + B
      /\ Y \in Int /\ Z \in Int /\ A \in 0 .. 337 /\ B \in 0 .. 337
  BY <1>2, <1>3
<1> HIDE DEF p, q, a, b
<1>4. CASE p = q
  <2>1. a < b
    BY <1>1, <1>4
  <2>2. MonthStart(b) >= MonthStart(a) + 28
    BY <1>1, <2>1, MonthsWithinYear
  <2>3. Y = Z /\ B >= A + 28
    BY <1>4, <2>2
  <2> HIDE DEF Y, Z, A, B
  <2> QED
    BY <1>7, <2>3
<1>5. CASE p < q
  <2>1. YearStart(q) >= YearStart(p) + 365 * (q - p)
    BY <1>1, <1>5, YearsOrdered
  <2>2. 365 * (q - p) >= 365
    BY <1>1, <1>5
  <2>3. Z >= Y + 365
    BY <1>1, <1>3, <2>1, <2>2
  <2> HIDE DEF Y, Z, A, B
  <2> QED
    BY <1>7, <2>3
<1>6. ~(q < p)
  BY <1>1
<1> QED
  BY <1>1, <1>4, <1>5, <1>6

\* An earlier month does not begin later.
LEMMA NotBefore ==
  ASSUME NEW m \in Int, NEW n \in Int, m <= n
  PROVE  FirstOf(m) <= FirstOf(n)
BY MonthsOrdered, FirstInt

\* The same of months given by year and number, which may be below 1 or above
\* 12.
LEMMA Ordered ==
  ASSUME NEW y \in Int, NEW m \in Int, NEW z \in Int, NEW n \in Int
  PROVE  /\ DayNumber(y, m, 1) \in Int /\ DayNumber(z, n, 1) \in Int
         /\ 12 * y + m <= 12 * z + n =>
              DayNumber(y, m, 1) <= DayNumber(z, n, 1)
         /\ 12 * y + m < 12 * z + n =>
              DayNumber(y, m, 1) + 28 <= DayNumber(z, n, 1)
<1> DEFINE k == 12 * y + m - 3
           l == 12 * z + n - 3
<1>1. k \in Int /\ l \in Int
  OBVIOUS
<1>2. /\ DayNumber(y, m, 1) = FirstOf(k) - Epoch
      /\ DayNumber(z, n, 1) = FirstOf(l) - Epoch
  BY <1>1, FirstDay
<1>3. FirstOf(k) \in Int /\ FirstOf(l) \in Int /\ Epoch \in Int
  BY <1>1, FirstInt, EpochInt
<1>4. k <= l => FirstOf(k) <= FirstOf(l)
  BY <1>1, NotBefore
<1>5. k < l => FirstOf(k) + 28 <= FirstOf(l)
  BY <1>1, <1>3, MonthsOrdered
<1>6. /\ (12 * y + m <= 12 * z + n) = (k <= l)
      /\ (12 * y + m < 12 * z + n) = (k < l)
  OBVIOUS
<1> HIDE DEF k, l
<1> QED
  BY <1>2, <1>3, <1>4, <1>5, <1>6

\* getDaysInMonth says how many days the C library gives a month.
LEMMA MonthLength ==
  ASSUME NEW y \in Int, NEW m \in 1 .. 12
  PROVE  FirstOf(12 * y + m - 2) - FirstOf(12 * y + m - 3) = GetDaysInMonth(y, m)
<1> DEFINE k == 12 * y + m - 3
<1>1. k + 1 = 12 * y + m - 2
  OBVIOUS
<1>2. CASE m = 1
  <2>1. /\ k \div 12 = y - 1
        /\ k % 12 = 10
        /\ (k + 1) \div 12 = y - 1
        /\ (k + 1) % 12 = 11
    BY <1>2
  <2> QED
    BY <1>1, <1>2, <2>1 DEF FirstOf, YearStart, MonthStart, GetDaysInMonth
<1>3. CASE m = 2
  <2>1. /\ k \div 12 = y - 1
        /\ k % 12 = 11
        /\ (k + 1) \div 12 = y
        /\ (k + 1) % 12 = 0
    BY <1>3
  <2>2. MonthStart(0) = 0 /\ MonthStart(11) = 337
    BY DEF MonthStart
  <2>3. YearStart(y) - YearStart(y - 1) = 365 + (Leaps(y) - Leaps(y - 1))
    BY DEF YearStart, Leaps
  <2>4. GetDaysInMonth(y, m) = IF IsLeapYear(y) THEN 29 ELSE 28
    BY <1>3 DEF GetDaysInMonth
  <2>5. /\ YearStart(y) \in Int
        /\ YearStart(y - 1) \in Int
        /\ Leaps(y) \in Int
        /\ Leaps(y - 1) \in Int
    BY DEF YearStart, Leaps
  <2> QED
    BY <1>1, <1>3, <2>1, <2>2, <2>3, <2>4, <2>5, LeapDay DEF FirstOf
<1>4. CASE m > 2
  <2>1. /\ k \div 12 = y
        /\ k % 12 = m - 3
        /\ (k + 1) \div 12 = y
        /\ (k + 1) % 12 = m - 2
    BY <1>4
  <2>2. FirstOf(k + 1) - FirstOf(k) = MonthStart(m - 2) - MonthStart(m - 3)
    BY <2>1 DEF FirstOf, YearStart, MonthStart
  <2>3. MonthStart(m - 2) - MonthStart(m - 3) = GetDaysInMonth(y, m)
    BY <1>4 DEF MonthStart, GetDaysInMonth
  <2> QED
    BY <1>1, <2>2, <2>3
<1> QED
  BY <1>2, <1>3, <1>4

\* The lengths of months.
LEMMA LengthRange ==
  ASSUME NEW y, NEW m \in 1 .. 12
  PROVE  GetDaysInMonth(y, m) \in 28 .. 31
BY DEF GetDaysInMonth

-----------------------------------------------------------------------------
(* The C library's calendar.                                               *)

\* Quotient and remainder of a multiple and a rest.
LEMMA Divided ==
  ASSUME NEW b \in Nat \ {0}, NEW q \in Int, NEW r \in 0 .. b - 1
  PROVE  (b * q + r) \div b = q /\ (b * q + r) % b = r
OBVIOUS

\* A number is its quotient times the divisor, and the remainder.
LEMMA DivMod ==
  ASSUME NEW b \in Nat \ {0}, NEW n \in Int
  PROVE  /\ n \div b \in Int
         /\ n % b \in 0 .. b - 1
         /\ n = b * (n \div b) + (n % b)
OBVIOUS

\* Hours and days have seconds.
LEMMA Units ==
  /\ Sixty \in Nat \ {0} /\ SecondsPerHour \in Nat \ {0}
  /\ SecondsPerDay \in Nat \ {0}
  /\ SecondsPerHour = Sixty * Sixty /\ SecondsPerDay = 24 * SecondsPerHour
<1>1. Sixty \in Nat \ {0}
  BY DateAssumption DEF DateAssumption
<1>2. Sixty * Sixty \in Nat \ {0}
  BY <1>1
<1> QED
  BY <1>1, <1>2 DEF SecondsPerHour, SecondsPerDay

\* localtime finds the year of a day: no other year has it.
LEMMA YearFound ==
  ASSUME NEW y \in Years, NEW d \in Int,
         DayNumber(y, 1, 1) <= d, d < DayNumber(y + 1, 1, 1)
  PROVE  (CHOOSE z \in Years : DayNumber(z, 1, 1) <= d
                               /\ d < DayNumber(z + 1, 1, 1)) = y
<1>1. Years \subseteq Int
  BY DateAssumption DEF DateAssumption
<1>2. ASSUME NEW w \in Int, NEW x \in Int, w < x,
             d < DayNumber(w + 1, 1, 1), DayNumber(x, 1, 1) <= d
      PROVE  FALSE
  <2>1. 12 * (w + 1) + 1 <= 12 * x + 1
    BY <1>2
  <2>2. /\ DayNumber(w + 1, 1, 1) \in Int /\ DayNumber(x, 1, 1) \in Int
        /\ DayNumber(w + 1, 1, 1) <= DayNumber(x, 1, 1)
    BY ONLY <2>1, Ordered, w \in Int, w + 1 \in Int, x \in Int, 1 \in Int
  <2> QED
    BY <1>2, <2>2
<1>3. ASSUME NEW z \in Years,
             DayNumber(z, 1, 1) <= d /\ d < DayNumber(z + 1, 1, 1)
      PROVE  z = y
  <2>1. z \in Int /\ y \in Int
    BY <1>1
  <2>2. ~(z < y) /\ ~(y < z)
    BY <1>2, <1>3, <2>1
  <2> QED
    BY <2>1, <2>2
<1> QED
  BY <1>3

\* localtime finds the month of a day: no other month of the year has it.
LEMMA MonthFound ==
  ASSUME NEW y \in Int, NEW m \in 1 .. 12, NEW d \in Int,
         DayNumber(y, m, 1) <= d, d < DayNumber(y, m + 1, 1)
  PROVE  (CHOOSE n \in 1 .. 12 : DayNumber(y, n, 1) <= d
                                 /\ d < DayNumber(y, n + 1, 1)) = m
<1>1. ASSUME NEW a \in Int, NEW b \in Int, a < b
      PROVE  /\ DayNumber(y, a + 1, 1) <= DayNumber(y, b, 1)
             /\ DayNumber(y, a + 1, 1) \in Int /\ DayNumber(y, b, 1) \in Int
  <2>1. 12 * y + (a + 1) <= 12 * y + b /\ a + 1 \in Int
    BY <1>1
  <2> QED
    BY ONLY <2>1, Ordered, y \in Int, b \in Int
<1>2. ASSUME NEW n \in 1 .. 12,
             DayNumber(y, n, 1) <= d /\ d < DayNumber(y, n + 1, 1)
      PROVE  n = m
  <2>1. ~(n < m) /\ ~(m < n)
    BY <1>1, <1>2
  <2> QED
    BY <2>1
<1> QED
  BY <1>2

\* The next month begins getDaysInMonth days later, January of the next year too.
LEMMA NextMonth ==
  ASSUME NEW y \in Int, NEW m \in 1 .. 12
  PROVE  DayNumber(y, m + 1, 1) = DayNumber(y, m, 1) + GetDaysInMonth(y, m)
<1> DEFINE k == 12 * y + m - 3
           l == 12 * y + m - 2
<1>1. k \in Int /\ l \in Int /\ l = 12 * y + (m + 1) - 3 /\ m + 1 \in Int
  OBVIOUS
<1>2. DayNumber(y, m, 1) = FirstOf(k) - Epoch
  BY FirstDay
<1>3. DayNumber(y, m + 1, 1) = FirstOf(l) - Epoch
  BY ONLY <1>1, FirstDay, y \in Int
<1>4. FirstOf(l) - FirstOf(k) = GetDaysInMonth(y, m)
  BY MonthLength
<1>5. FirstOf(k) \in Int /\ FirstOf(l) \in Int /\ Epoch \in Int
      /\ GetDaysInMonth(y, m) \in Int
  BY <1>1, FirstInt, EpochInt, LengthRange
<1> HIDE DEF k, l
<1> QED
  BY <1>2, <1>3, <1>4, <1>5

\* localtime gives back the day that a number of seconds falls on, and the time
\* of that day.
LEMMA LocalTimeIs ==
  ASSUME NEW y \in Years, NEW m \in 1 .. 12,
         NEW k \in 1 .. GetDaysInMonth(y, m), NEW r \in 0 .. SecondsPerDay - 1
  PROVE  LocalTime(SecondsPerDay * DayNumber(y, m, k) + r) =
           [seconds |-> SecondsPerDay * DayNumber(y, m, k) + r,
            year |-> y, month |-> m, day |-> k,
            hour |-> r \div SecondsPerHour,
            minute |-> (r % SecondsPerHour) \div Sixty,
            second |-> r % Sixty,
            wday |-> (DayNumber(y, m, k) + 4) % 7,
            yday |-> DayNumber(y, m, k) - DayNumber(y, 1, 1)]
<1> DEFINE d == DayNumber(y, m, k)
           s == SecondsPerDay * d + r
<1>1. /\ y \in Int
      /\ GetDaysInMonth(y, m) \in 28 .. 31
      /\ SecondsPerDay \in Nat \ {0}
  BY LengthRange, Units, DateAssumption DEF DateAssumption
<1>2. d = DayNumber(y, m, 1) + k - 1 /\ d \in Int /\ DayNumber(y, m, 1) \in Int
  BY <1>1, DaysOfMonth
<1>3. DayNumber(y, m + 1, 1) = DayNumber(y, m, 1) + GetDaysInMonth(y, m)
  BY <1>1, NextMonth
<1>4. DayNumber(y, m, 1) <= d /\ d < DayNumber(y, m + 1, 1)
  BY <1>1, <1>2, <1>3
<1>5. DayNumber(y, 1, 1) <= DayNumber(y, m, 1) /\ DayNumber(y, 1, 1) \in Int
  <2>1. 12 * y + 1 <= 12 * y + m /\ m \in Int
    BY <1>1
  <2> QED
    BY ONLY <2>1, <1>1, Ordered, 1 \in Int
<1>6. /\ DayNumber(y, m + 1, 1) <= DayNumber(y + 1, 1, 1)
      /\ DayNumber(y, m + 1, 1) \in Int /\ DayNumber(y + 1, 1, 1) \in Int
  <2>1. 12 * y + (m + 1) <= 12 * (y + 1) + 1 /\ m + 1 \in Int /\ y + 1 \in Int
    BY <1>1
  <2> QED
    BY ONLY <2>1, <1>1, Ordered, 1 \in Int
<1>7. s \div SecondsPerDay = d /\ s % SecondsPerDay = r
  BY ONLY <1>1, <1>2, Divided, r \in 0 .. SecondsPerDay - 1
<1> HIDE DEF d
<1>8. DayNumber(y, 1, 1) <= d /\ d < DayNumber(y + 1, 1, 1)
  BY <1>2, <1>4, <1>5, <1>6
<1>9. (CHOOSE z \in Years : DayNumber(z, 1, 1) <= d
                            /\ d < DayNumber(z + 1, 1, 1)) = y
  BY <1>2, <1>8, YearFound
<1>10. (CHOOSE n \in 1 .. 12 : DayNumber(y, n, 1) <= d
                               /\ d < DayNumber(y, n + 1, 1)) = m
  BY <1>1, <1>2, <1>4, MonthFound
<1>11. d - DayNumber(y, m, 1) + 1 = k
  BY <1>2
<1> HIDE DEF s
<1>12. LocalTime(s) =
           [seconds |-> s,
            year |-> y, month |-> m, day |-> k,
            hour |-> r \div SecondsPerHour,
            minute |-> (r % SecondsPerHour) \div Sixty,
            second |-> r % Sixty,
            wday |-> (d + 4) % 7,
            yday |-> d - DayNumber(y, 1, 1)]
  BY <1>7, <1>9, <1>10, <1>11, Zenon DEF LocalTime
<1> QED
  BY <1>12 DEF s, d

\* Hour, minute and second make up the seconds of a day.
LEMMA Fields ==
  ASSUME NEW r \in 0 .. SecondsPerDay - 1
  PROVE  /\ r \div SecondsPerHour \in 0 .. 23
         /\ (r % SecondsPerHour) \div Sixty \in 0 .. Sixty - 1
         /\ r % Sixty \in 0 .. Sixty - 1
         /\ r = SecondsPerHour * (r \div SecondsPerHour)
                  + Sixty * ((r % SecondsPerHour) \div Sixty) + (r % Sixty)
<1> DEFINE H == SecondsPerHour
           h == r \div H
           q == r % H
           mi == q \div Sixty
           se == q % Sixty
<1>1. /\ Sixty \in Nat \ {0} /\ H \in Nat \ {0} /\ r \in Int
      /\ H = Sixty * Sixty /\ SecondsPerDay = 24 * H
  BY Units
<1> HIDE DEF H
<1>2. h \in Int /\ q \in 0 .. H - 1 /\ r = H * h + q
  BY <1>1, DivMod
<1> HIDE DEF h, q
<1>3. mi \in Int /\ se \in 0 .. Sixty - 1 /\ q = Sixty * mi + se
  <2>1. q \in Int
    BY <1>1, <1>2
  <2> QED
    BY ONLY <1>1, <2>1, DivMod
<1> HIDE DEF mi, se
<1>4. h \in 0 .. 23
  BY <1>1, <1>2
<1>5. mi \in 0 .. Sixty - 1
  BY <1>1, <1>2, <1>3
<1>6. r = Sixty * (Sixty * h + mi) + se
  BY <1>1, <1>2, <1>3
<1>7. Sixty * h + mi \in Int
  BY <1>1, <1>2, <1>3
<1>8. r % Sixty = se
  BY <1>1, <1>3, <1>6, <1>7, Divided
<1>9. r = H * h + Sixty * mi + se
  BY <1>1, <1>2, <1>3
<1> QED
  BY <1>4, <1>5, <1>3, <1>8, <1>9 DEF h, q, mi, se, H

\* Hour, minute and second are found again in the seconds of a day.
LEMMA FieldsOf ==
  ASSUME NEW h \in 0 .. 23, NEW i \in 0 .. Sixty - 1, NEW c \in 0 .. Sixty - 1
  PROVE  LET r == SecondsPerHour * h + Sixty * i + c
         IN  /\ r \in 0 .. SecondsPerDay - 1
             /\ r \div SecondsPerHour = h
             /\ (r % SecondsPerHour) \div Sixty = i
             /\ r % Sixty = c
<1> DEFINE H == SecondsPerHour
           q == Sixty * i + c
           r == H * h + Sixty * i + c
<1>1. /\ Sixty \in Nat \ {0} /\ H \in Nat \ {0}
      /\ H = Sixty * Sixty /\ SecondsPerDay = 24 * H
  BY Units
<1> HIDE DEF H
<1>2. q \in 0 .. H - 1
  <2>1. Sixty * i <= Sixty * (Sixty - 1) /\ Sixty * i >= 0 /\ Sixty * i \in Int
    BY <1>1
  <2>2. Sixty * (Sixty - 1) = H - Sixty
    BY <1>1
  <2> QED
    BY <1>1, <2>1, <2>2
<1>3. r = H * h + q /\ r = Sixty * (Sixty * h + i) + c /\ Sixty * h + i \in Int
  BY <1>1
<1>4. r \div H = h /\ r % H = q
  <2> HIDE DEF r, q
  <2> QED
    BY ONLY <1>1, <1>2, <1>3, Divided, h \in Int
<1>5. q \div Sixty = i
  BY ONLY <1>1, Divided, i \in Int, c \in 0 .. Sixty - 1
<1>6. r % Sixty = c
  BY ONLY <1>1, <1>3, Divided, c \in 0 .. Sixty - 1
<1>7. r \in 0 .. 24 * H - 1
  <2>1. H * h <= H * 23 /\ H * h >= 0 /\ H * h \in Int
    BY <1>1
  <2> HIDE DEF q, r
  <2> QED
    BY <1>1, <1>2, <1>3, <2>1
<1> QED
  BY <1>1, <1>4, <1>5, <1>6, <1>7 DEF H

\* The date with these fields.
DateAt(y, m, k, h, i, c) ==
  [seconds |-> SecondsPerDay * DayNumber(y, m, k)
                 + SecondsPerHour * h + Sixty * i + c,
   year |-> y, month |-> m, day |-> k, hour |-> h, minute |-> i, second |-> c,
   wday |-> (DayNumber(y, m, k) + 4) % 7,
   yday |-> DayNumber(y, m, k) - DayNumber(y, 1, 1)]

\* Date(year, month, day, hour, minute, second) leaves fields that name a day as
\* they are: mktime and localtime agree on every day of every month that
\* getDaysInMonth allows.
THEOREM NormalisedDate ==
  ASSUME NEW y \in Years, NEW m \in 1 .. 12,
         NEW k \in 1 .. GetDaysInMonth(y, m),
         NEW h \in 0 .. 23, NEW i \in 0 .. Sixty - 1, NEW c \in 0 .. Sixty - 1
  PROVE  DateFromFields(y, m, k, h, i, c) = DateAt(y, m, k, h, i, c)
<1> DEFINE d == DayNumber(y, m, k)
           r == SecondsPerHour * h + Sixty * i + c
           s == SecondsPerDay * d + r
<1>1. /\ r \in 0 .. SecondsPerDay - 1
      /\ r \div SecondsPerHour = h
      /\ (r % SecondsPerHour) \div Sixty = i
      /\ r % Sixty = c
  BY FieldsOf
<1>2. MkTime(y, m, k, h, i, c) = s
  <2>1. /\ d \in Int
        /\ Sixty \in Int
        /\ SecondsPerHour \in Int
        /\ SecondsPerDay \in Int
    BY DaysOfMonth, LengthRange, Units, DateAssumption DEF DateAssumption
  <2>2. /\ SecondsPerDay * d \in Int /\ SecondsPerHour * h \in Int
        /\ Sixty * i \in Int /\ c \in Int
    BY <2>1
  <2>3. MkTime(y, m, k, h, i, c)
          = SecondsPerDay * d + SecondsPerHour * h + Sixty * i + c
    BY DEF MkTime
  <2> HIDE DEF d
  <2> QED
    BY <2>2, <2>3
<1> HIDE DEF r
<1>3. LocalTime(s) =
        [seconds |-> s, year |-> y, month |-> m, day |-> k,
         hour |-> h, minute |-> i, second |-> c,
         wday |-> (d + 4) % 7, yday |-> d - DayNumber(y, 1, 1)]
  BY <1>1, LocalTimeIs
<1>4. s = SecondsPerDay * d + SecondsPerHour * h + Sixty * i + c
  <2>1. /\ d \in Int
        /\ Sixty \in Int
        /\ SecondsPerHour \in Int
        /\ SecondsPerDay \in Int
    BY DaysOfMonth, LengthRange, Units, DateAssumption DEF DateAssumption
  <2>2. /\ SecondsPerDay * d \in Int /\ SecondsPerHour * h \in Int
        /\ Sixty * i \in Int /\ c \in Int
    BY <2>1
  <2> HIDE DEF d
  <2> QED
    BY <2>2 DEF r
<1> HIDE DEF s
<1> QED
  BY <1>2, <1>3, <1>4 DEF DateFromFields, DateAt

\* A date is the broken-down time of its seconds.
LEMMA DateOfItsSeconds ==
  ASSUME NEW y \in Years, NEW m \in 1 .. 12,
         NEW k \in 1 .. GetDaysInMonth(y, m),
         NEW h \in 0 .. 23, NEW i \in 0 .. Sixty - 1, NEW c \in 0 .. Sixty - 1
  PROVE  /\ LocalTime(DateAt(y, m, k, h, i, c).seconds)
               = DateAt(y, m, k, h, i, c)
         /\ DateAt(y, m, k, h, i, c).seconds = MkTime(y, m, k, h, i, c)
<1>1. LocalTime(MkTime(y, m, k, h, i, c)) = DateAt(y, m, k, h, i, c)
  BY NormalisedDate DEF DateFromFields
<1>2. LocalTime(MkTime(y, m, k, h, i, c)).seconds = MkTime(y, m, k, h, i, c)
  BY DEF LocalTime
<1> QED
  BY <1>1, <1>2

\* A month below 1 or above 12 is one of another year.
LEMMA Reached ==
  ASSUME NEW y \in Int, NEW m \in 1 .. 12, NEW n \in Int
  PROVE  LET M == 12 * y + m - 1 + n
             z == M \div 12
             j == (M % 12) + 1
         IN  /\ z \in Int /\ j \in 1 .. 12
             /\ 12 * z + j - 1 = M
             /\ DayNumber(y, m + n, 1) = DayNumber(z, j, 1)
<1> DEFINE M == 12 * y + m - 1 + n
           z == M \div 12
           j == (M % 12) + 1
<1>1. M \in Int
  OBVIOUS
<1>2. z \in Int /\ j \in 1 .. 12 /\ 12 * z + j - 1 = M
  BY <1>1, DivMod12
<1>3. 12 * y + (m + n) = 12 * z + j /\ m + n \in Int
  BY <1>2
<1> HIDE DEF z, j
<1>4. DayNumber(y, m + n, 1) = DayNumber(z, j, 1)
  <2> DEFINE l == m + n
  <2>1. /\ l \in Int /\ j \in Int /\ z \in Int
        /\ 12 * y + l <= 12 * z + j /\ 12 * z + j <= 12 * y + l
    BY <1>2, <1>3
  <2> HIDE DEF l
  <2>2. /\ DayNumber(y, l, 1) \in Int /\ DayNumber(z, j, 1) \in Int
        /\ DayNumber(y, l, 1) <= DayNumber(z, j, 1)
    BY ONLY <2>1, Ordered, y \in Int
  <2>3. DayNumber(z, j, 1) <= DayNumber(y, l, 1)
    BY ONLY <2>1, Ordered, y \in Int
  <2> QED
    BY <2>2, <2>3 DEF l
<1> QED
  BY <1>2, <1>4 DEF z, j

\* addMonths leads to the same day, n months later or earlier, of a month that
\* has it, and past the end of another by the days that it lacks.
Lands(y, m, k, h, i, c, n) ==
  LET M == 12 * y + m - 1 + n
      z == M \div 12
      j == (M % 12) + 1
      days == GetDaysInMonth(z, j)
  IN  \E j1 \in 1 .. 12 : \E k1 \in 1 .. GetDaysInMonth(z, j1) :
        /\ AddMonths(DateAt(y, m, k, h, i, c), n) = DateAt(z, j1, k1, h, i, c)
        /\ DayNumber(z, j1, k1) = DayNumber(y, m + n, k)
        /\ IF k <= days THEN k1 = k /\ j1 = j ELSE k1 = k - days /\ j1 = j + 1

\* addMonths(n), for every n, negative ones and those that cross years too, lands
\* on a day of the month reached or, if that month is too short, of the next one.
THEOREM MonthsAdded ==
  ASSUME NEW y \in Years, NEW m \in 1 .. 12,
         NEW k \in 1 .. GetDaysInMonth(y, m),
         NEW h \in 0 .. 23, NEW i \in 0 .. Sixty - 1, NEW c \in 0 .. Sixty - 1,
         NEW n \in Int, (12 * y + m - 1 + n) \div 12 \in Years
  PROVE  Lands(y, m, k, h, i, c, n)
<1> DEFINE M == 12 * y + m - 1 + n
           z == M \div 12
           j == (M % 12) + 1
           days == GetDaysInMonth(z, j)
           mn == m + n
<1>1. y \in Int /\ k \in 1 .. 31 /\ m + n \in Int
  BY LengthRange, DateAssumption DEF DateAssumption
<1>2. /\ z \in Int /\ j \in 1 .. 12 /\ 12 * z + j - 1 = M
      /\ DayNumber(y, m + n, 1) = DayNumber(z, j, 1)
  BY <1>1, Reached
<1>3. z \in Years
  OBVIOUS
<1> HIDE DEF z, j
<1>4. days \in 28 .. 31
  BY <1>2, LengthRange
<1>5. AddMonths(DateAt(y, m, k, h, i, c), n)
        = DateFromFields(y, m + n, k, h, i, c)
  BY DEF AddMonths, DateAt
<1>6. /\ DayNumber(y, m + n, k) = DayNumber(z, j, 1) + k - 1
      /\ DayNumber(z, j, 1) \in Int
  BY <1>1, <1>2, DaysOfMonth
<1>7. CASE k <= days
  <2>1. DayNumber(z, j, k) = DayNumber(y, m + n, k)
    BY <1>1, <1>2, <1>6, DaysOfMonth
  <2>2. k \in 1 .. days
    BY <1>1, <1>4, <1>7
  <2>3. DateFromFields(y, m + n, k, h, i, c) = DateAt(z, j, k, h, i, c)
    <3>1. DayNumber(y, mn, k) = DayNumber(z, j, k)
      BY <2>1
    <3> HIDE DEF mn
    <3>2. DateFromFields(z, j, k, h, i, c) = DateAt(z, j, k, h, i, c)
      BY ONLY <1>2, <1>3, <2>2, NormalisedDate,
              h \in 0 .. 23, i \in 0 .. Sixty - 1, c \in 0 .. Sixty - 1
    <3> QED
      BY <3>1, <3>2 DEF mn, DateFromFields, MkTime
  <2> QED
    BY <1>2, <1>5, <1>7, <2>1, <2>2, <2>3 DEF Lands, z, j
<1>8. CASE k > days
  <2> DEFINE g == j + 1
             l == k - days
  <2>1. j # 12
    BY <1>1, <1>8 DEF GetDaysInMonth
  <2>2. g \in 1 .. 12
    BY <1>2, <2>1
  <2>3. l \in 1 .. GetDaysInMonth(z, g) /\ l \in Int
    BY <1>1, <1>4, <1>8, <2>2, LengthRange
  <2>4. DayNumber(z, g, 1) = DayNumber(z, j, 1) + days
    BY <1>2, NextMonth
  <2>5. DayNumber(z, g, l) = DayNumber(z, g, 1) + l - 1
    <3> HIDE DEF g, l
    <3> QED
      BY <1>2, <2>2, <2>3, DaysOfMonth
  <2>6. DayNumber(z, g, l) = DayNumber(y, m + n, k)
    BY <1>1, <1>4, <1>6, <2>4, <2>5
  <2> HIDE DEF g, l
  <2>7. DateFromFields(y, m + n, k, h, i, c) = DateAt(z, g, l, h, i, c)
    <3>1. DayNumber(y, mn, k) = DayNumber(z, g, l)
      BY <2>6
    <3> HIDE DEF mn
    <3>2. DateFromFields(z, g, l, h, i, c) = DateAt(z, g, l, h, i, c)
      BY ONLY <1>3, <2>2, <2>3, NormalisedDate,
              h \in 0 .. 23, i \in 0 .. Sixty - 1, c \in 0 .. Sixty - 1
    <3> QED
      BY <3>1, <3>2 DEF mn, DateFromFields, MkTime
  <2>8. /\ AddMonths(DateAt(y, m, k, h, i, c), n) = DateAt(z, g, l, h, i, c)
        /\ IF k <= days THEN l = k /\ g = j ELSE l = k - days /\ g = j + 1
    BY <1>1, <1>4, <1>5, <1>8, <2>7 DEF g, l
  <2> QED
    BY <2>2, <2>3, <2>6, <2>8 DEF Lands, z, j
<1> QED
  BY <1>1, <1>4, <1>7, <1>8

\* After a leap year comes a common one.
LEMMA NoTwoLeapYears ==
  ASSUME NEW y \in Int, IsLeapYear(y)
  PROVE  ~IsLeapYear(y + 1)
<1> DEFINE q == y + 1
<1>1. (y % 4) = 0 \/ (y % 400) = 0
  BY DEF IsLeapYear
<1>2. (y % 4) = 0
  BY <1>1
<1>3. (q % 4) = 1
  BY <1>2
<1>4. (q % 400) # 0
  BY <1>3
<1> QED
  BY <1>3, <1>4 DEF IsLeapYear

\* Only a February loses a day from one year to the next, and only after a leap
\* year.
LEMMA DayLost ==
  ASSUME NEW y \in Int, NEW m \in 1 .. 12, NEW k \in 1 .. GetDaysInMonth(y, m)
  PROVE  IF m = 2 /\ k = 29 THEN GetDaysInMonth(y + 1, m) = 28
                            ELSE k <= GetDaysInMonth(y + 1, m)
<1>1. CASE m = 2
  <2>1. CASE IsLeapYear(y)
    <3>1. ~IsLeapYear(y + 1)
      BY <2>1, NoTwoLeapYears
    <3> QED
      BY <1>1, <2>1, <3>1 DEF GetDaysInMonth
  <2>2. CASE ~IsLeapYear(y)
    BY <1>1, <2>2 DEF GetDaysInMonth
  <2> QED
    BY <2>1, <2>2
<1>2. CASE m # 2
  BY <1>2 DEF GetDaysInMonth
<1> QED
  BY <1>1, <1>2

\* addYears(1) lands where addMonths(12) does: on the same day of the next year,
\* and from February 29 on March 1.
THEOREM YearAdded ==
  ASSUME NEW y \in Years, NEW m \in 1 .. 12,
         NEW k \in 1 .. GetDaysInMonth(y, m),
         NEW h \in 0 .. 23, NEW i \in 0 .. Sixty - 1, NEW c \in 0 .. Sixty - 1,
         y + 1 \in Years
  PROVE  YearLater(DateAt(y, m, k, h, i, c), AddYears(DateAt(y, m, k, h, i, c), 1))
<1> DEFINE d == DateAt(y, m, k, h, i, c)
           q == y + 1
           n == m + 12
<1>1. y \in Int /\ q \in Int /\ n \in Int /\ k \in Int /\ m \in Int
  BY DateAssumption DEF DateAssumption
<1>2. /\ (12 * y + m - 1 + 12) \div 12 = q
      /\ (12 * y + m - 1 + 12) % 12 = m - 1
      /\ 12 * y + n - 3 = 12 * q + m - 3
  BY <1>1
<1>3. Lands(y, m, k, h, i, c, 12)
  <2>1. 12 \in Int /\ (12 * y + m - 1 + 12) \div 12 \in Years
    BY <1>2
  <2> QED
    BY ONLY <2>1, MonthsAdded, y \in Years, m \in 1 .. 12,
            k \in 1 .. GetDaysInMonth(y, m),
            h \in 0 .. 23, i \in 0 .. Sixty - 1, c \in 0 .. Sixty - 1
<1>4. AddMonths(d, 12) = AddYears(d, 1)
  <2>1. DayNumber(y, n, k) = DayNumber(q, m, k)
    <3> HIDE DEF q, n
    <3>1. DayNumber(y, n, k) = FirstOf(12 * y + n - 3) + k - 1 - Epoch
      BY ONLY <1>1, DayNumberIs
    <3>2. DayNumber(q, m, k) = FirstOf(12 * q + m - 3) + k - 1 - Epoch
      BY ONLY <1>1, DayNumberIs
    <3> QED
      BY <1>2, <3>1, <3>2
  <2>2. /\ AddMonths(d, 12) = DateFromFields(y, n, k, h, i, c)
        /\ AddYears(d, 1) = DateFromFields(q, m, k, h, i, c)
    BY DEF AddMonths, AddYears, DateAt
  <2> HIDE DEF q, n, d
  <2> QED
    BY <2>1, <2>2 DEF DateFromFields, MkTime
<1>5. PICK j1 \in 1 .. 12 : \E k1 \in 1 .. GetDaysInMonth(q, j1) :
        /\ AddMonths(d, 12) = DateAt(q, j1, k1, h, i, c)
        /\ IF k <= GetDaysInMonth(q, m)
             THEN k1 = k /\ j1 = m
             ELSE k1 = k - GetDaysInMonth(q, m) /\ j1 = m + 1
  <2>1. ((12 * y + m - 1 + 12) % 12) + 1 = m
    BY <1>1, <1>2
  <2> HIDE DEF q
  <2> QED
    BY <1>2, <1>3, <2>1 DEF Lands
<1>6. PICK k1 \in 1 .. GetDaysInMonth(q, j1) :
        /\ AddYears(d, 1) = DateAt(q, j1, k1, h, i, c)
        /\ IF k <= GetDaysInMonth(q, m)
             THEN k1 = k /\ j1 = m
             ELSE k1 = k - GetDaysInMonth(q, m) /\ j1 = m + 1
  BY <1>4, <1>5
<1>7. IF m = 2 /\ k = 29 THEN j1 = 3 /\ k1 = 1 ELSE j1 = m /\ k1 = k
  <2>1. IF m = 2 /\ k = 29 THEN GetDaysInMonth(q, m) = 28
                           ELSE k <= GetDaysInMonth(q, m)
    BY <1>1, DayLost
  <2> HIDE DEF q
  <2> QED
    BY <1>1, <1>6, <2>1
<1>8. /\ d.year = y /\ d.month = m /\ d.day = k
      /\ d.hour = h /\ d.minute = i /\ d.second = c
  BY DEF DateAt
<1>9. LET f == AddYears(d, 1)
      IN  /\ f.year = q /\ f.month = j1 /\ f.day = k1
          /\ f.hour = h /\ f.minute = i /\ f.second = c
  BY <1>6 DEF DateAt
<1> HIDE DEF d
<1>10. YearLater(d, AddYears(d, 1))
  BY <1>7, <1>8, <1>9 DEF YearLater
<1> QED
  BY <1>10 DEF d

-----------------------------------------------------------------------------
(* The arithmetic of dates.                                                *)

\* A second has microseconds.
LEMMA MicroUnit ==
  /\ kMicroSecondsPerSecond \in Nat \ {0} /\ Thousand \in Nat \ {0}
  /\ kMicroSecondsPerSecond = Thousand * Thousand
BY DateAssumption DEF DateAssumption, kMicroSecondsPerSecond

\* toSeconds of a whole number of seconds, before 1970 too.
LEMMA WholeSeconds ==
  ASSUME NEW q \in Int
  PROVE  ToSeconds(kMicroSecondsPerSecond * q) = q
<1> DEFINE K == kMicroSecondsPerSecond
<1>1. K \in Nat \ {0}
  BY MicroUnit
<1> HIDE DEF K
<1>2. ASSUME NEW p \in Int
      PROVE  (K * p) \div K = p
  <2>1. 0 \in 0 .. K - 1
    BY <1>1
  <2>2. (K * p + 0) \div K = p
    BY ONLY <1>1, <2>1, Divided, p \in Int
  <2>3. K * p + 0 = K * p
    BY <1>1
  <2> QED
    BY <2>2, <2>3
<1>3. CASE q >= 0
  <2>1. K * q >= 0
    BY <1>1, <1>3
  <2> QED
    BY <1>2, <2>1 DEF ToSeconds, Quotient, K
<1>4. CASE q < 0
  <2>1. ~(K * q >= 0)
    BY <1>1, <1>4
  <2>2. -(K * q) = K * (-q)
    BY <1>1
  <2>3. (-(K * q)) \div K = -q
    BY <1>2, <2>2
  <2>4. ToSeconds(K * q) = -(-q)
    BY <2>1, <2>3 DEF ToSeconds, Quotient, K
  <2> QED
    BY <2>4 DEF K
<1> QED
  BY <1>3, <1>4

\* addSeconds, addMinutes, addHours and addDays move by so many seconds.
LEMMA Moved ==
  ASSUME NEW d, d.seconds \in Int, NEW n \in Int
  PROVE  /\ AddSeconds(d, n) = LocalTime(d.seconds + n)
         /\ AddMinutes(d, n) = LocalTime(d.seconds + Sixty * n)
         /\ AddHours(d, n) = LocalTime(d.seconds + SecondsPerHour * n)
         /\ AddDays(d, n) = LocalTime(d.seconds + SecondsPerDay * n)
<1> DEFINE K == kMicroSecondsPerSecond
           s == d.seconds
<1>1. K \in Int /\ Sixty \in Int /\ s \in Int /\ SecondsPerHour \in Int
      /\ SecondsPerDay \in Int
  BY MicroUnit, Units
<1> HIDE DEF K, s
<1>2. ASSUME NEW p \in Int
      PROVE  DateOf(K * p) = LocalTime(p)
  BY WholeSeconds DEF DateOf, K
<1>3. /\ s + n \in Int
      /\ s + Sixty * n \in Int
      /\ s + SecondsPerHour * n \in Int
      /\ s + SecondsPerDay * n \in Int
  BY <1>1
<1>4. s * K + n * K = K * (s + n)
  BY <1>1
<1>5. s * K + n * K * Sixty = K * (s + Sixty * n)
  BY <1>1
<1>6. s * K + n * K * Sixty * Sixty = K * (s + SecondsPerHour * n)
  <2>1. n * K * Sixty * Sixty = K * ((Sixty * Sixty) * n)
    BY <1>1
  <2> QED
    BY <1>1, <2>1 DEF SecondsPerHour
<1>7. s * K + n * K * Sixty * Sixty * 24 = K * (s + SecondsPerDay * n)
  <2>1. n * K * Sixty * Sixty * 24 = K * ((24 * (Sixty * Sixty)) * n)
    BY <1>1
  <2> QED
    BY <1>1, <2>1 DEF SecondsPerDay, SecondsPerHour
<1>8. AddSeconds(d, n) = DateOf(K * (s + n))
  BY <1>4 DEF AddSeconds, ToTimestamp, ParseFromSeconds, TimestampAddSeconds, K, s
<1>9. AddMinutes(d, n) = DateOf(K * (s + Sixty * n))
  BY <1>5 DEF AddMinutes, ToTimestamp, ParseFromSeconds, TimestampAddMinutes, K, s
<1>10. AddHours(d, n) = DateOf(K * (s + SecondsPerHour * n))
  BY <1>6 DEF AddHours, ToTimestamp, ParseFromSeconds, TimestampAddHour, K, s
<1>11. AddDays(d, n) = DateOf(K * (s + SecondsPerDay * n))
  BY <1>7 DEF AddDays, ToTimestamp, ParseFromSeconds, TimestampAddDay, K, s
<1> QED
  BY <1>2, <1>3, <1>8, <1>9, <1>10, <1>11 DEF s

\* A date keeps the seconds it was made of.
LEMMA SecondsOf ==
  ASSUME NEW n
  PROVE  LocalTime(n).seconds = n
BY DEF LocalTime

\* operator< compares seconds.
LEMMA OrderOfDates ==
  ASSUME NEW d, NEW e, d.seconds \in Int, e.seconds \in Int
  PROVE  Before(d, e) <=> d.seconds < e.seconds
<1> DEFINE K == kMicroSecondsPerSecond
           s == d.seconds
           t == e.seconds
<1>1. K \in Int /\ K > 0 /\ s \in Int /\ t \in Int
  BY MicroUnit
<1>2. Before(d, e) <=> s * K < t * K
  BY DEF Before, ToTimestamp, ParseFromSeconds
<1> HIDE DEF K, s, t
<1>3. s * K < t * K <=> s < t
  <2>1. s < t => s * K < t * K
    BY <1>1
  <2>2. t <= s => t * K <= s * K
    BY <1>1
  <2>3. s * K \in Int /\ t * K \in Int
    BY <1>1
  <2> QED
    BY <1>1, <2>1, <2>2, <2>3
<1> QED
  BY <1>2, <1>3 DEF s, t

\* dayDistance counts the days between two dates at the same time of day.
LEMMA Distance ==
  ASSUME NEW d, NEW e, NEW a \in Int, NEW b \in Int, NEW r \in Int, a <= b,
         d.seconds = SecondsPerDay * a + r, e.seconds = SecondsPerDay * b + r
  PROVE  DayDistance(e, d) = b - a
<1> DEFINE P == SecondsPerDay
<1>1. P \in Nat \ {0} /\ b - a \in Nat
  BY Units
<1> HIDE DEF P
<1>2. e.seconds - d.seconds = P * (b - a)
  BY <1>1 DEF P
<1>3. ~(P * (b - a) < 0)
  BY <1>1
<1>4. (P * (b - a)) \div P = b - a
  <2>1. 0 \in 0 .. P - 1
    BY <1>1
  <2>2. (P * (b - a) + 0) \div P = b - a
    BY ONLY <1>1, <2>1, Divided, a \in Int, b \in Int
  <2>3. P * (b - a) + 0 = P * (b - a)
    BY <1>1
  <2> QED
    BY <2>2, <2>3
<1> QED
  BY <1>2, <1>3, <1>4 DEF DayDistance, P

\* getYearDays says how many days the C library gives a year.
LEMMA YearLength ==
  ASSUME NEW y \in Int
  PROVE  DayNumber(y + 1, 1, 1) - DayNumber(y, 1, 1) = GetYearDays(y)
<1> DEFINE k == 12 * y + 10
           l == 12 * y - 2
<1>1. /\ k \in Int /\ k = 12 * (y + 1) + 1 - 3 /\ k \div 12 = y /\ k % 12 = 10
      /\ l \in Int /\ l = 12 * y + 1 - 3 /\ l \div 12 = y - 1 /\ l % 12 = 10
      /\ y + 1 \in Int /\ 1 \in Int
  OBVIOUS
<1> HIDE DEF k, l
<1>2. DayNumber(y + 1, 1, 1) = FirstOf(k) - Epoch
  BY ONLY <1>1, FirstDay
<1>3. DayNumber(y, 1, 1) = FirstOf(l) - Epoch
  BY ONLY <1>1, FirstDay, y \in Int
<1>4. FirstOf(k) = YearStart(y) + MonthStart(10)
      /\ FirstOf(l) = YearStart(y - 1) + MonthStart(10)
  BY <1>1 DEF FirstOf
<1>5. YearStart(y) - YearStart(y - 1) = 365 + (Leaps(y) - Leaps(y - 1))
  BY DEF YearStart, Leaps
<1>6. YearStart(y) \in Int /\ YearStart(y - 1) \in Int /\ MonthStart(10) \in Int
      /\ Epoch \in Int /\ Leaps(y) \in Int /\ Leaps(y - 1) \in Int
  BY EpochInt DEF YearStart, Leaps, MonthStart
<1>7. Leaps(y) - Leaps(y - 1) = IF IsLeapYear(y) THEN 1 ELSE 0
  BY LeapDay
<1> QED
  BY <1>2, <1>3, <1>4, <1>5, <1>6, <1>7 DEF GetYearDays

-----------------------------------------------------------------------------
(* The calls.                                                              *)

\* dayInYear counts by the lengths of the months.
LEMMA DaysOfYear ==
  ASSUME NEW y \in Years, NEW m \in 1 .. 12,
         NEW k \in 1 .. GetDaysInMonth(y, m), NEW h, NEW i, NEW c
  PROVE  LET e == DateAt(y, m, k, h, i, c)
             first(j) == DateFromFields(y, j, 1, 0, 0, 0)
         IN  /\ DayInYear(e) = DayInYear(first(m)) + k - 1
             /\ \A j \in 1 .. m :
                  DayInYear(first(j)) =
                    IF j = 1 THEN 1
                    ELSE DayInYear(first(j - 1)) + GetDaysInMonth(y, j - 1)
<1> DEFINE first(j) == DateFromFields(y, j, 1, 0, 0, 0)
           J(j) == DayNumber(y, j, 1)
<1>1. y \in Int /\ k \in Int
  BY LengthRange, DateAssumption DEF DateAssumption
<1>2. ASSUME NEW j \in 1 .. 12
      PROVE  DayInYear(first(j)) = J(j) - J(1) + 1 /\ J(j) \in Int
  <2>1. 1 \in 1 .. GetDaysInMonth(y, j)
    BY LengthRange
  <2>2. 0 \in 0 .. 23 /\ 0 \in 0 .. Sixty - 1
    BY Units
  <2>3. first(j) = DateAt(y, j, 1, 0, 0, 0)
    BY ONLY <2>1, <2>2, NormalisedDate, y \in Years, j \in 1 .. 12
  <2>4. J(j) \in Int
    BY <1>1, DaysOfMonth
  <2> HIDE DEF first
  <2> QED
    BY <2>3, <2>4 DEF DayInYear, DateAt
<1>3. DayNumber(y, m, k) = J(m) + k - 1 /\ J(m) \in Int /\ J(1) \in Int
  BY <1>1, DaysOfMonth
<1>4. DayInYear(DateAt(y, m, k, h, i, c)) = DayNumber(y, m, k) - J(1) + 1
  BY DEF DayInYear, DateAt
<1>5. ASSUME NEW j \in 1 .. 12, j # 1
      PROVE  J(j) = J(j - 1) + GetDaysInMonth(y, j - 1)
             /\ GetDaysInMonth(y, j - 1) \in Int
  <2> DEFINE p == j - 1
  <2>1. p \in 1 .. 12 /\ p + 1 = j
    BY <1>5
  <2> HIDE DEF p
  <2>2. DayNumber(y, p + 1, 1) = DayNumber(y, p, 1) + GetDaysInMonth(y, p)
    BY <1>1, <2>1, NextMonth
  <2>3. GetDaysInMonth(y, p) \in Int
    BY <2>1, LengthRange
  <2> QED
    BY <2>1, <2>2, <2>3 DEF p
<1> HIDE DEF first, J
<1>6. DayInYear(DateAt(y, m, k, h, i, c)) = DayInYear(first(m)) + k - 1
  BY <1>1, <1>2, <1>3, <1>4
<1>7. ASSUME NEW j \in 1 .. m
      PROVE  DayInYear(first(j)) =
               IF j = 1 THEN 1
               ELSE DayInYear(first(j - 1)) + GetDaysInMonth(y, j - 1)
  <2>1. j \in 1 .. 12
    OBVIOUS
  <2>2. CASE j = 1
    BY <1>2, <1>3, <2>1, <2>2
  <2>3. CASE j # 1
    <3>1. j - 1 \in 1 .. 12
      BY <2>1, <2>3
    <3>2. /\ DayInYear(first(j)) = J(j) - J(1) + 1
          /\ DayInYear(first(j - 1)) = J(j - 1) - J(1) + 1
          /\ J(j) \in Int /\ J(j - 1) \in Int
      BY <1>2, <2>1, <3>1
    <3> QED
      BY <1>3, <1>5, <2>1, <2>3, <3>2
  <2> QED
    BY <2>2, <2>3
<1> QED
  BY <1>6, <1>7 DEF first

\* weekday goes round with the days.
LEMMA Weekdays ==
  ASSUME NEW a \in Int, NEW b \in Int, NEW d, NEW e,
         d.wday = (a + 4) % 7, e.wday = (b + 4) % 7
  PROVE  Weekday(e) = ((Weekday(d) + (b - a) - 1) % 7) + 1
BY DEF Weekday

\* What a caller gets who adds months to a late hour of a day.
LEMMA ShiftIsRight ==
  ASSUME NEW y \in Years, NEW m \in 1 .. 12,
         NEW k \in 1 .. GetDaysInMonth(y, m), NEW n \in Nat,
         y + 1 \in Years, (12 * y + m - 1 + n) \div 12 \in Years
  PROVE  LET d == DateAt(y, m, k, 23, Sixty - 1, Sixty - 1)
             e == AddMonths(d, n)
         IN  ShiftAgrees(d, n,
               [date |-> e, distance |-> DayDistance(e, d),
                back |-> AddDays(e, -DayDistance(e, d)),
                year |-> AddYears(d, 1),
                clock |-> AddSeconds(AddMinutes(AddHours(d, -23),
                                                -(Sixty - 1)), 1 - Sixty)])
<1> DEFINE i == Sixty - 1
           d == DateAt(y, m, k, 23, i, i)
           e == AddMonths(d, n)
           M == 12 * y + m - 1 + n
           z == M \div 12
           j == (M % 12) + 1
           days == GetDaysInMonth(z, j)
           a == DayNumber(y, m, k)
           b == DayNumber(y, m + n, k)
           r == SecondsPerHour * 23 + Sixty * i + i
           clock == AddSeconds(AddMinutes(AddHours(d, -23), -i), 1 - Sixty)
<1>1. /\ y \in Int /\ y + 1 \in Int /\ k \in 1 .. 31 /\ m + n \in Int
      /\ GetDaysInMonth(y, m) \in 28 .. 31
  BY LengthRange, DateAssumption DEF DateAssumption
<1>2. /\ Sixty \in Nat \ {0} /\ SecondsPerHour \in Nat \ {0}
      /\ SecondsPerDay \in Nat \ {0}
      /\ SecondsPerHour = Sixty * Sixty /\ SecondsPerDay = 24 * SecondsPerHour
      /\ 23 \in 0 .. 23 /\ i \in 0 .. Sixty - 1 /\ 0 \in 0 .. Sixty - 1
      /\ 0 \in 0 .. 23
  BY Units
<1>3. Lands(y, m, k, 23, i, i, n)
  <2>1. n \in Int
    OBVIOUS
  <2> HIDE DEF i
  <2> QED
    BY ONLY <1>2, <2>1, MonthsAdded, y \in Years, m \in 1 .. 12,
            k \in 1 .. GetDaysInMonth(y, m),
            (12 * y + m - 1 + n) \div 12 \in Years
<1>4. PICK j1 \in 1 .. 12 : \E k1 \in 1 .. GetDaysInMonth(z, j1) :
        /\ e = DateAt(z, j1, k1, 23, i, i)
        /\ DayNumber(z, j1, k1) = b
        /\ IF k <= days THEN k1 = k /\ j1 = j ELSE k1 = k - days /\ j1 = j + 1
  BY <1>3 DEF Lands
<1>7. PICK k1 \in 1 .. GetDaysInMonth(z, j1) :
        /\ e = DateAt(z, j1, k1, 23, i, i)
        /\ DayNumber(z, j1, k1) = b
        /\ IF k <= days THEN k1 = k /\ j1 = j ELSE k1 = k - days /\ j1 = j + 1
  BY <1>4
<1>8. /\ z \in Int /\ j \in 1 .. 12 /\ 12 * z + j - 1 = M
  BY <1>1, DivMod12
<1> HIDE DEF z, j
<1>5. /\ a = DayNumber(y, m, 1) + k - 1 /\ b = DayNumber(y, m + n, 1) + k - 1
      /\ DayNumber(y, m, 1) \in Int /\ DayNumber(y, m + n, 1) \in Int
      /\ a \in Int /\ b \in Int
  <2> DEFINE mn == m + n
  <2>1. mn \in Int /\ m \in Int /\ k \in Int
    BY <1>1
  <2> HIDE DEF mn
  <2>2. /\ DayNumber(y, mn, k) = DayNumber(y, mn, 1) + k - 1
        /\ DayNumber(y, mn, k) \in Int /\ DayNumber(y, mn, 1) \in Int
    BY ONLY <1>1, <2>1, DaysOfMonth
  <2>3. /\ DayNumber(y, m, k) = DayNumber(y, m, 1) + k - 1
        /\ DayNumber(y, m, k) \in Int /\ DayNumber(y, m, 1) \in Int
    BY ONLY <1>1, <2>1, DaysOfMonth
  <2> QED
    BY <2>2, <2>3 DEF mn
<1>6. a <= b /\ (a < b <=> n > 0)
  <2>1. CASE n = 0
    <3>1. m + n = m
      BY <2>1
    <3>2. a = b
      BY <1>1, <1>5, <3>1
    <3> QED
      BY <1>5, <2>1, <3>2
  <2>2. CASE n > 0
    <3> DEFINE mn == m + n
    <3>1. mn \in Int /\ 12 * y + m < 12 * y + mn
      BY <1>1, <2>2
    <3> HIDE DEF mn
    <3>2. DayNumber(y, m, 1) + 28 <= DayNumber(y, mn, 1)
      BY ONLY <1>1, <3>1, Ordered, m \in 1 .. 12
    <3>3. a < b
      BY <1>1, <1>5, <3>2 DEF mn
    <3> QED
      BY <1>5, <2>2, <3>3
  <2> QED
    BY <2>1, <2>2
<1>9. d.seconds = SecondsPerDay * a + r /\ r \in Int
  <2>1. /\ SecondsPerDay * a \in Int /\ SecondsPerHour * 23 \in Int
        /\ Sixty * i \in Int /\ i \in Int
    BY <1>2, <1>5
  <2>2. d.seconds = SecondsPerDay * a + SecondsPerHour * 23 + Sixty * i + i
    BY DEF DateAt
  <2> HIDE DEF a, i, d
  <2> QED
    BY <2>1, <2>2
<1>10. e.seconds = SecondsPerDay * b + r
  <2>1. /\ SecondsPerDay * b \in Int /\ SecondsPerHour * 23 \in Int
        /\ Sixty * i \in Int /\ i \in Int
    BY <1>2, <1>5
  <2>2. e.seconds = SecondsPerDay * b + SecondsPerHour * 23 + Sixty * i + i
    BY <1>7 DEF DateAt
  <2> HIDE DEF b, i, e
  <2> QED
    BY <2>1, <2>2
<1>11. LocalTime(d.seconds) = d /\ d.seconds = MkTime(y, m, k, 23, i, i)
  <2> HIDE DEF i
  <2> QED
    BY ONLY <1>2, DateOfItsSeconds, y \in Years, m \in 1 .. 12,
            k \in 1 .. GetDaysInMonth(y, m)
<1>12. /\ d.year = y /\ d.month = m /\ d.day = k /\ d.hour = 23
       /\ d.minute = i /\ d.second = i /\ d.wday = (a + 4) % 7
       /\ e.year = z /\ e.month = j1 /\ e.day = k1 /\ e.wday = (b + 4) % 7
  BY <1>7 DEF DateAt
<1> HIDE DEF d, e, a, b, i, r
<1>13. DayDistance(e, d) = b - a
  BY <1>5, <1>6, <1>9, <1>10, Distance
\* The way back.
<1>14. AddDays(e, -DayDistance(e, d)) = d
  <2>1. e.seconds \in Int /\ -(b - a) \in Int
    BY <1>2, <1>5, <1>9, <1>10
  <2>2. AddDays(e, -(b - a)) = LocalTime(e.seconds + SecondsPerDay * (-(b - a)))
    BY ONLY <2>1, Moved
  <2>3. e.seconds + SecondsPerDay * (-(b - a)) = d.seconds
    BY <1>2, <1>5, <1>9, <1>10
  <2> QED
    BY <1>11, <1>13, <2>2, <2>3
\* The lengths of the month and of the year.
<1>15. n = 1 /\ k = 1 => DayDistance(e, d) = DaysInMonth(d)
  <2>1. SUFFICES ASSUME n = 1, k = 1
                 PROVE  b - a = GetDaysInMonth(y, m)
    BY <1>12, <1>13 DEF DaysInMonth
  <2>2. DayNumber(y, m + 1, 1) = DayNumber(y, m, 1) + GetDaysInMonth(y, m)
    BY <1>1, NextMonth
  <2> QED
    BY <1>1, <1>5, <2>1, <2>2
<1>16. m = 1 /\ k = 1 => DayDistance(AddYears(d, 1), d) = DaysInYear(d)
  <2> SUFFICES ASSUME m = 1, k = 1
               PROVE  DayDistance(AddYears(d, 1), d) = DaysInYear(d)
    OBVIOUS
  <2> DEFINE q == y + 1
             f == DayNumber(q, 1, 1)
             w == DateAt(q, 1, 1, 23, i, i)
  <2>1. q \in Years /\ q \in Int
    BY <1>1
  <2>2. 1 \in 1 .. GetDaysInMonth(q, 1) /\ 1 \in 1 .. 12
    BY LengthRange
  <2>3. AddYears(d, 1) = w
    <3>1. AddYears(d, 1) = DateFromFields(q, 1, 1, 23, i, i)
      BY <1>12 DEF AddYears
    <3> HIDE DEF q
    <3>2. DateFromFields(q, 1, 1, 23, i, i) = DateAt(q, 1, 1, 23, i, i)
      BY ONLY <1>2, <2>1, <2>2, NormalisedDate
    <3> QED
      BY <3>1, <3>2
  <2>4. f \in Int /\ f - a = GetYearDays(y) /\ GetYearDays(y) \in {365, 366}
    <3>1. f - DayNumber(y, 1, 1) = GetYearDays(y)
      BY <1>1, YearLength
    <3>2. f \in Int
      BY ONLY <2>1, 1 \in Int, DaysOfMonth
    <3> QED
      BY <3>1, <3>2 DEF GetYearDays, a
  <2>5. w.seconds = SecondsPerDay * f + r
    <3>1. /\ SecondsPerDay * f \in Int /\ SecondsPerHour * 23 \in Int
          /\ Sixty * i \in Int /\ i \in Int
      BY <1>2, <2>4
    <3>2. w.seconds = SecondsPerDay * f + SecondsPerHour * 23 + Sixty * i + i
      BY DEF DateAt
    <3> HIDE DEF f, w
    <3> QED
      BY <3>1, <3>2 DEF r
  <2>6. a <= f
    BY <1>5, <2>4
  <2> HIDE DEF f, w
  <2>7. DayDistance(w, d) = f - a
    BY <1>5, <1>9, <2>4, <2>5, <2>6, Distance
  <2> QED
    BY <1>12, <2>3, <2>4, <2>7 DEF DaysInYear
\* The day a year later.
<1>28. YearLater(d, AddYears(d, 1))
  <2>1. i \in 0 .. Sixty - 1 /\ 23 \in 0 .. 23
    BY <1>2
  <2> QED
    BY ONLY <2>1, YearAdded, y \in Years, y + 1 \in Years, m \in 1 .. 12,
            k \in 1 .. GetDaysInMonth(y, m) DEF d
\* The beginning of the day.
<1>17. /\ clock = DateFromFields(y, m, k, 0, 0, 0)
       /\ clock.seconds = SecondsPerDay * a
  <2> DEFINE s == d.seconds
             s1 == s + SecondsPerHour * (-23)
             s2 == s1 + Sixty * (-i)
             s3 == s2 + (1 - Sixty)
  <2>1. /\ s \in Int /\ s1 \in Int /\ s2 \in Int /\ s3 \in Int
        /\ -23 \in Int /\ -i \in Int /\ 1 - Sixty \in Int
    BY <1>2, <1>5, <1>9
  <2>2. s3 = SecondsPerDay * a
    <3>1. 1 - Sixty = -i
      BY <1>2 DEF i
    <3>2. /\ SecondsPerHour * (-23) = -(SecondsPerHour * 23)
          /\ Sixty * (-i) = -(Sixty * i)
          /\ SecondsPerDay * a \in Int /\ SecondsPerHour * 23 \in Int
          /\ Sixty * i \in Int /\ i \in Int
      BY <1>2, <1>5
    <3> QED
      BY <1>9, <3>1, <3>2 DEF r
  <2> HIDE DEF s1, s2, s3
  <2>3. AddHours(d, -23) = LocalTime(s1) /\ LocalTime(s1).seconds = s1
    BY <2>1, Moved, SecondsOf DEF s1
  <2> DEFINE d1 == LocalTime(s1)
  <2>4. d1.seconds = s1
    BY <2>3
  <2> HIDE DEF d1
  <2>5. AddMinutes(d1, -i) = LocalTime(s2) /\ LocalTime(s2).seconds = s2
    BY <2>1, <2>4, Moved, SecondsOf DEF s2
  <2> DEFINE d2 == LocalTime(s2)
  <2>6. d2.seconds = s2
    BY <2>5
  <2> HIDE DEF d2
  <2>7. AddSeconds(d2, 1 - Sixty) = LocalTime(s3)
    BY <2>1, <2>6, Moved DEF s3
  <2>8. clock = LocalTime(s3)
    BY <2>3, <2>5, <2>7 DEF d1, d2
  <2>9. MkTime(y, m, k, 0, 0, 0) = SecondsPerDay * a
    BY <1>2, <1>5 DEF MkTime, a
  <2> QED
    BY <2>2, <2>8, <2>9, SecondsOf DEF DateFromFields
\* The order of the dates.
<1>18. Before(clock, d)
  <2> HIDE DEF clock
  <2>1. clock.seconds \in Int /\ d.seconds \in Int
    BY <1>2, <1>5, <1>9, <1>17
  <2>2. r > 0
    <3>1. SecondsPerHour * 23 > 0 /\ Sixty * i >= 0 /\ i >= 0
          /\ SecondsPerHour * 23 \in Int /\ Sixty * i \in Int /\ i \in Int
      BY <1>2
    <3> QED
      BY <3>1 DEF r
  <2>3. clock.seconds < d.seconds
    BY <1>2, <1>5, <1>9, <1>17, <2>2
  <2> QED
    BY <2>1, <2>3, OrderOfDates
<1>19. Before(d, e) <=> n > 0
  <2>1. d.seconds \in Int /\ e.seconds \in Int
    BY <1>2, <1>5, <1>9, <1>10
  <2>2. d.seconds < e.seconds <=> a < b
    <3> DEFINE P == SecondsPerDay
    <3>1. P \in Int /\ P > 0
      BY <1>2
    <3>2. d.seconds = P * a + r /\ e.seconds = P * b + r
      BY <1>9, <1>10
    <3> HIDE DEF P
    <3>3. a < b => P * a < P * b
      BY <1>5, <3>1
    <3>4. b <= a => P * b <= P * a
      BY <1>5, <3>1
    <3>5. P * a \in Int /\ P * b \in Int
      BY <1>5, <3>1
    <3> QED
      BY <1>5, <1>9, <3>2, <3>3, <3>4, <3>5
  <2> QED
    BY <1>6, <2>1, <2>2, OrderOfDates
\* The weekday and the day of the year.
<1>20. Weekday(e) = ((Weekday(d) + DayDistance(e, d) - 1) % 7) + 1
  BY <1>5, <1>12, <1>13, Weekdays
<1>21. /\ DayInYear(e) = DayInYear(DateFromFields(e.year, e.month, 1, 0, 0, 0))
                           + e.day - 1
       /\ \A l \in 1 .. e.month :
            DayInYear(DateFromFields(e.year, l, 1, 0, 0, 0)) =
              IF l = 1 THEN 1
              ELSE DayInYear(DateFromFields(e.year, l - 1, 1, 0, 0, 0))
                     + GetDaysInMonth(e.year, l - 1)
  <2>1. z \in Years
    BY DEF z
  <2>2. e = DateAt(z, j1, k1, 23, i, i)
    BY <1>7
  <2> QED
    BY <1>12, <2>1, <2>2, DaysOfYear
\* Where addMonths leads.
<1>22. IF d.day <= days
         THEN e.day = d.day /\ 12 * e.year + e.month - 1 = M
         ELSE e.day = d.day - days /\ 12 * e.year + e.month - 1 = M + 1
  <2>1. CASE k <= days
    BY <1>7, <1>8, <1>12, <2>1
  <2>2. CASE ~(k <= days)
    BY <1>7, <1>8, <1>12, <2>2
  <2> QED
    BY <2>1, <2>2
<1>23. M = 12 * d.year + d.month - 1 + n
  BY <1>12
<1> DEFINE res == [date |-> e, distance |-> DayDistance(e, d),
                   back |-> AddDays(e, -DayDistance(e, d)),
                   year |-> AddYears(d, 1), clock |-> clock]
<1>24. /\ res.date = e /\ res.distance = DayDistance(e, d) /\ res.back = d
       /\ res.year = AddYears(d, 1) /\ res.clock = clock
  BY <1>14
<1>25. Equal(d, d)
  BY DEF Equal
<1>26. days = GetDaysInMonth(M \div 12, (M % 12) + 1)
  BY DEF z, j
<1> HIDE DEF res, clock, M, days
<1>27. ShiftAgrees(d, n, res)
  <2>1. LET e1 == res.date
            m1 == 12 * d.year + d.month - 1 + n
            days1 == GetDaysInMonth(m1 \div 12, (m1 % 12) + 1)
        IN  IF d.day <= days1
              THEN e1.day = d.day /\ 12 * e1.year + e1.month - 1 = m1
              ELSE e1.day = d.day - days1 /\ 12 * e1.year + e1.month - 1 = m1 + 1
    BY <1>22, <1>23, <1>24, <1>26, Zenon
  <2>2. Equal(res.back, d) /\ res.back = d
    BY <1>24, <1>25
  <2>3. /\ (n = 1 /\ d.day = 1) => res.distance = DaysInMonth(d)
        /\ (d.month = 1 /\ d.day = 1) =>
             DayDistance(res.year, d) = DaysInYear(d)
    BY <1>12, <1>15, <1>16, <1>24
  <2>7. YearLater(d, res.year)
    BY <1>24, <1>28
  <2>4. res.clock = DateFromFields(d.year, d.month, d.day, 0, 0, 0)
    BY <1>12, <1>17, <1>24
  <2>5. Weekday(res.date) = ((Weekday(d) + res.distance - 1) % 7) + 1
    BY <1>20, <1>24
  <2>6. Before(res.clock, d) /\ (Before(d, res.date) <=> n > 0)
    BY <1>18, <1>19, <1>24
  <2> QED
    BY <1>21, <1>24, <2>1, <2>2, <2>3, <2>4, <2>5, <2>6, <2>7, Zenon
       DEF ShiftAgrees
<1> QED
  BY <1>27 DEF res, d, e, i, clock

\* What formatTo writes of a time close to the first of January or of March: the
\* time falls on that day or on the one before, which both have a year.
LEMMA FormatIsRight ==
  ASSUME NEW y \in Years, NEW m \in {1, 3}, NEW milli \in -1 .. Thousand,
         NEW micro \in -1 .. Thousand,
         y - 1 \in Years \/ milli * Thousand + micro >= 0,
         NEW t, Valid(t),
         t = TimestampAddMicroSeconds(
               TimestampAddMilliSeconds(
                 ToTimestamp(DateFromFields(y, m, 1, 0, 0, 0)), milli), micro)
  PROVE  FormatAgrees(t, FormatTo(t))
<1> DEFINE K == kMicroSecondsPerSecond
           T == Thousand
           P == SecondsPerDay
           a == DayNumber(y, m, 1)
           o == milli * T + micro
           n == t \div K
           q == t % K
           g == n \div P
           r == n % P
<1>1. /\ K \in Nat \ {0} /\ T \in Nat \ {0} /\ K = T * T
      /\ P \in Nat \ {0} /\ P >= 24 /\ Sixty \in Nat \ {0}
      /\ SecondsPerHour \in Nat \ {0}
  BY MicroUnit, Units
<1>2. y \in Int /\ a \in Int
  BY DaysOfMonth, DateAssumption DEF DateAssumption
<1> HIDE DEF K, T, P, a
<1>3. t = K * (P * a) + o /\ o \in Int /\ t \in Int /\ t >= 0
  <2> DEFINE s == MkTime(y, m, 1, 0, 0, 0)
  <2>1. s = P * a
    BY <1>1, <1>2 DEF MkTime, P, a
  <2>2. DateFromFields(y, m, 1, 0, 0, 0).seconds = s
    BY SecondsOf DEF DateFromFields
  <2> HIDE DEF s
  <2>3. t = s * K + milli * T + micro
    BY <2>2 DEF TimestampAddMicroSeconds, TimestampAddMilliSeconds, ToTimestamp,
                ParseFromSeconds, K, T
  <2>4. s \in Int /\ milli \in Int /\ micro \in Int /\ s * K = K * (P * a)
        /\ s * K \in Int /\ milli * T \in Int
    BY <1>1, <1>2, <2>1 DEF T
  <2> QED
    BY <2>3, <2>4 DEF Valid
<1>4. -(T + 1) <= o /\ o <= K + T
  <2>1. milli * T >= -T /\ milli * T <= K /\ milli * T \in Int
    BY <1>1 DEF T
  <2> QED
    BY <1>1, <2>1 DEF T
<1>5. T <= K
  BY <1>1
<1> HIDE DEF o
<1>6. n \in Int /\ q \in 0 .. K - 1 /\ t = K * n + q
  BY <1>1, <1>3, DivMod
<1> HIDE DEF n, q
<1>7. /\ n <= P * a + 2 /\ n >= P * a - 2
      /\ o >= 0 => n >= P * a
  <2> DEFINE x == P * a
  <2>1. x \in Int
    BY <1>1, <1>2
  <2> HIDE DEF x
  <2>2. K * n + q = K * x + o
    BY <1>3, <1>6 DEF x
  <2>3. ~(n > x + 2)
    <3>1. SUFFICES ASSUME n >= x + 3
                   PROVE  FALSE
      BY <1>6, <2>1
    <3>2. K * n >= K * (x + 3)
      BY <1>1, <1>6, <2>1, <3>1
    <3>3. K * (x + 3) = K * x + 3 * K
      BY <1>1, <2>1
    <3> DEFINE u == K * n
               v == K * x
    <3>4. u \in Int /\ v \in Int /\ u >= v + 3 * K /\ u + q = v + o
      BY <1>1, <1>6, <2>1, <2>2, <3>2, <3>3
    <3> HIDE DEF u, v
    <3> QED
      BY <1>1, <1>3, <1>4, <1>5, <1>6, <3>4
  <2>4. ~(n < x - 2)
    <3>1. SUFFICES ASSUME n + 1 <= x - 2
                   PROVE  FALSE
      BY <1>6, <2>1
    <3>2. K * (n + 1) <= K * (x - 2)
      BY <1>1, <1>6, <2>1, <3>1
    <3>3. K * (x - 2) = K * x - 2 * K /\ K * (n + 1) = K * n + K
      BY <1>1, <1>6, <2>1
    <3> DEFINE u == K * n
               v == K * x
    <3>4. u \in Int /\ v \in Int /\ u + K <= v - 2 * K /\ u + q = v + o
      BY <1>1, <1>6, <2>1, <2>2, <3>2, <3>3
    <3> HIDE DEF u, v
    <3> QED
      BY <1>1, <1>3, <1>4, <1>5, <1>6, <3>4
  <2>5. o >= 0 => n >= x
    <3>1. SUFFICES ASSUME o >= 0, n + 1 <= x
                   PROVE  FALSE
      BY <1>6, <2>1
    <3>2. K * (n + 1) <= K * x
      BY <1>1, <1>6, <2>1, <3>1
    <3>3. K * (n + 1) = K * n + K
      BY <1>1, <1>6
    <3> DEFINE u == K * n
               v == K * x
    <3>4. u \in Int /\ v \in Int /\ u + K <= v /\ u + q = v + o
      BY <1>1, <1>6, <2>1, <2>2, <3>2, <3>3
    <3> HIDE DEF u, v
    <3> QED
      BY <1>1, <1>3, <1>6, <3>1, <3>4
  <2> QED
    BY <1>6, <2>1, <2>3, <2>4, <2>5 DEF x
<1>8. g \in Int /\ r \in 0 .. P - 1 /\ n = P * g + r
  BY <1>1, <1>6, DivMod
<1> HIDE DEF g, r
<1>9. (g = a \/ g = a - 1) /\ (o >= 0 => g = a)
  <2>1. ~(g >= a + 1)
    <3>1. SUFFICES ASSUME g >= a + 1
                   PROVE  FALSE
      OBVIOUS
    <3>2. P * g >= P * (a + 1) /\ P * (a + 1) = P * a + P
          /\ P * a \in Int /\ P * g \in Int
      BY <1>1, <1>2, <1>8, <3>1
    <3> QED
      BY <1>1, <1>6, <1>7, <1>8, <3>2
  <2>2. ~(g <= a - 2)
    <3>1. SUFFICES ASSUME g <= a - 2
                   PROVE  FALSE
      OBVIOUS
    <3>2. P * g <= P * (a - 2) /\ P * (a - 2) = P * a - 2 * P
          /\ P * a \in Int /\ P * g \in Int
      BY <1>1, <1>2, <1>8, <3>1
    <3> QED
      BY <1>1, <1>6, <1>7, <1>8, <3>2
  <2>3. o >= 0 => ~(g <= a - 1)
    <3>1. SUFFICES ASSUME o >= 0, g <= a - 1
                   PROVE  FALSE
      OBVIOUS
    <3>2. P * g <= P * (a - 1) /\ P * (a - 1) = P * a - P
          /\ P * a \in Int /\ P * g \in Int
      BY <1>1, <1>2, <1>8, <3>1
    <3> QED
      BY <1>1, <1>6, <1>7, <1>8, <3>1, <3>2
  <2> QED
    BY <1>2, <1>8, <2>1, <2>2, <2>3
<1>10. \E w \in Years : \E j \in 1 .. 12 : \E k \in 1 .. GetDaysInMonth(w, j) :
         DayNumber(w, j, k) = g
  <2>1. CASE g = a
    <3>1. 1 \in 1 .. GetDaysInMonth(y, m) /\ m \in 1 .. 12
      BY LengthRange
    <3> QED
      BY <2>1, <3>1 DEF a
  <2>2. CASE g # a /\ m = 3
    <3> DEFINE k == GetDaysInMonth(y, 2)
    <3>1. k \in Int /\ k \in 1 .. k
      BY LengthRange
    <3>2. DayNumber(y, 2 + 1, 1) = DayNumber(y, 2, 1) + k
      BY <1>2, NextMonth
    <3>3. DayNumber(y, 2, 1) \in Int
      BY <1>2, DaysOfMonth
    <3> HIDE DEF k
    <3>4. DayNumber(y, 2, k) = DayNumber(y, 2, 1) + k - 1
      BY <1>2, <3>1, DaysOfMonth
    <3>5. DayNumber(y, 2, k) = a - 1
      BY <2>2, <3>1, <3>2, <3>3, <3>4 DEF a
    <3> QED
      BY <1>9, <2>2, <3>1, <3>5 DEF k
  <2>3. CASE g # a /\ m = 1
    <3> DEFINE w == y - 1
    <3>1. w \in Years /\ w \in Int
      <4>1. ~(o >= 0)
        BY <1>9, <2>3
      <4> QED
        BY <1>2, <4>1 DEF o, T
    <3>2. 31 \in 1 .. GetDaysInMonth(w, 12) /\ GetDaysInMonth(w, 12) = 31
      BY DEF GetDaysInMonth
    <3>3. 12 * w + 13 <= 12 * y + 1 /\ 12 * y + 1 <= 12 * w + 13 /\ 13 \in Int
          /\ 1 \in Int /\ 12 + 1 = 13
      BY <1>2
    <3> HIDE DEF w
    <3>4. /\ DayNumber(w, 13, 1) \in Int /\ DayNumber(y, 1, 1) \in Int
          /\ DayNumber(w, 13, 1) <= DayNumber(y, 1, 1)
      BY ONLY <1>2, <3>1, <3>3, Ordered
    <3>5. DayNumber(y, 1, 1) <= DayNumber(w, 13, 1)
      BY ONLY <1>2, <3>1, <3>3, Ordered
    <3>6. DayNumber(w, 12 + 1, 1) = DayNumber(w, 12, 1) + 31
      BY <3>1, <3>2, NextMonth
    <3>7. /\ DayNumber(w, 12, 31) = DayNumber(w, 12, 1) + 31 - 1
          /\ DayNumber(w, 12, 1) \in Int
      BY ONLY <3>1, DaysOfMonth, 12 \in Int, 31 \in Int
    <3>8. DayNumber(w, 12, 31) = a - 1
      BY <2>3, <3>3, <3>4, <3>5, <3>6, <3>7 DEF a
    <3> QED
      BY <1>9, <2>3, <3>1, <3>2, <3>8
  <2> QED
    BY <2>1, <2>2, <2>3
<1>11. PICK w \in Years : \E j \in 1 .. 12 : \E k \in 1 .. GetDaysInMonth(w, j) :
         DayNumber(w, j, k) = g
  BY <1>10
<1>12. PICK j \in 1 .. 12 : \E k \in 1 .. GetDaysInMonth(w, j) :
         DayNumber(w, j, k) = g
  BY <1>11
<1>13. PICK k \in 1 .. GetDaysInMonth(w, j) : DayNumber(w, j, k) = g
  BY <1>12
<1> DEFINE f == LocalTime(n)
           H == SecondsPerHour
           hh == r \div H
           mm == (r % H) \div Sixty
           ss == r % Sixty
<1>14. /\ f.year = w /\ f.month = j /\ f.day = k /\ f.hour = hh
       /\ f.minute = mm /\ f.second = ss
  <2>1. r \in 0 .. SecondsPerDay - 1
    BY <1>8 DEF P
  <2>2. LocalTime(SecondsPerDay * DayNumber(w, j, k) + r) = LocalTime(n)
    BY <1>8, <1>13 DEF P
  <2>3. LocalTime(SecondsPerDay * DayNumber(w, j, k) + r) =
          [seconds |-> SecondsPerDay * DayNumber(w, j, k) + r,
           year |-> w, month |-> j, day |-> k,
           hour |-> r \div SecondsPerHour,
           minute |-> (r % SecondsPerHour) \div Sixty,
           second |-> r % Sixty,
           wday |-> (DayNumber(w, j, k) + 4) % 7,
           yday |-> DayNumber(w, j, k) - DayNumber(w, 1, 1)]
    BY ONLY <2>1, LocalTimeIs, w \in Years, j \in 1 .. 12,
            k \in 1 .. GetDaysInMonth(w, j)
  <2> QED
    BY <2>2, <2>3
<1>15. /\ r = H * hh + Sixty * mm + ss
       /\ hh \in Int /\ mm \in Int /\ ss \in Int
  <2>1. r \in 0 .. SecondsPerDay - 1
    BY <1>8 DEF P
  <2> QED
    BY <1>1, <2>1, Fields
<1> HIDE DEF f, H, hh, mm, ss
<1>16. MkTime(f.year, f.month, f.day, f.hour, f.minute, f.second) = n
  <2>1. MkTime(w, j, k, hh, mm, ss) = P * g + H * hh + Sixty * mm + ss
    BY <1>13 DEF MkTime, P, H
  <2>2. P * g \in Int /\ H * hh \in Int /\ Sixty * mm \in Int
    BY <1>1, <1>8, <1>15 DEF H
  <2> QED
    BY <1>8, <1>14, <1>15, <2>1, <2>2
<1>17. ToSeconds(t) = n
  BY <1>3 DEF ToSeconds, Quotient, n, K
<1> DEFINE ms == q \div T
<1>18. ms \in Int /\ q % T \in 0 .. T - 1 /\ q = T * ms + (q % T)
  <2>1. q \in Int
    BY <1>1, <1>6
  <2> QED
    BY ONLY <1>1, <2>1, DivMod
<1>19. t - n * K = q /\ Quotient(q, T) = ms
  <2>1. n * K = K * n /\ K * n \in Int
    BY <1>1, <1>6
  <2> QED
    BY <1>1, <1>6, <2>1 DEF Quotient
<1> HIDE DEF ms
<1>20. ms \in 0 .. T - 1
  <2>1. T * ms <= T * T - 1 /\ T * ms > -T /\ T * ms \in Int
    BY <1>1, <1>6, <1>18
  <2>2. ~(ms >= T)
    <3>1. ms >= T => T * ms >= T * T
      BY <1>1, <1>18
    <3> QED
      BY <1>1, <2>1, <3>1
  <2>3. ~(ms <= -1)
    <3>1. ms <= -1 => T * ms <= -T
      BY <1>1, <1>18
    <3> QED
      BY <1>1, <2>1, <3>1
  <2> QED
    BY <1>1, <1>18, <2>2, <2>3
<1>21. FormatTo(t).time = f /\ FormatTo(t).milliSeconds = ms
  BY <1>17, <1>19 DEF FormatTo, K, T, f
<1>22. n * K + ms * T <= t /\ t < (n * K + ms * T) + T
  <2>1. n * K = K * n /\ K * n \in Int /\ ms * T = T * ms /\ T * ms \in Int
    BY <1>1, <1>6, <1>18
  <2> QED
    BY <1>1, <1>6, <1>18, <2>1
<1>23. ParseFromSeconds(MkTime(f.year, f.month, f.day, f.hour, f.minute,
                               f.second)) = n * K
  BY <1>16 DEF ParseFromSeconds, K
<1> QED
  BY <1>20, <1>21, <1>22, <1>23 DEF FormatAgrees, T

\* Every call keeps the invariant.
LEMMA AgreesStep == CalendarAgrees /\ [Next]_vars => CalendarAgrees'
<1> SUFFICES ASSUME CalendarAgrees, [Next]_vars
             PROVE  CalendarAgrees'
  OBVIOUS
<1>1. CASE UNCHANGED vars
  BY <1>1 DEF vars, CalendarAgrees
<1>2. ASSUME NEW s, NEW p, Search(s, p)
      PROVE  CalendarAgrees'
  BY <1>2 DEF Search, CalendarAgrees
<1>3. ASSUME NEW s, NEW delim, Divide(s, delim)
      PROVE  CalendarAgrees'
  BY <1>3 DEF Divide, CalendarAgrees
<1>4. ASSUME NEW v, NEW width, NEW from, NEW to, Transfer(v, width, from, to)
      PROVE  CalendarAgrees'
  BY <1>4 DEF Transfer, CalendarAgrees
<1>5. ASSUME NEW port, NEW loopBack, NEW ipv6, NEW host,
             Resolve(port, loopBack, ipv6, host)
      PROVE  CalendarAgrees'
  BY <1>5 DEF Resolve, CalendarAgrees
<1>6. ASSUME NEW year \in Years, NEW month \in {1, 3},
             NEW milli \in -1 .. Thousand, NEW micro \in -1 .. Thousand,
             year - 1 \in Years \/ milli * Thousand + micro >= 0,
             Format(year, month, 1, milli, micro)
      PROVE  CalendarAgrees'
  <2> DEFINE t == TimestampAddMicroSeconds(
                    TimestampAddMilliSeconds(
                      ToTimestamp(DateFromFields(year, month, 1, 0, 0, 0)),
                      milli), micro)
  <2>1. /\ Valid(t) /\ call' = [op |-> "format", time |-> t]
        /\ result' = FormatTo(t)
    BY <1>6 DEF Format
  <2> HIDE DEF t
  <2>2. FormatAgrees(t, FormatTo(t))
    BY <1>6, <2>1, FormatIsRight DEF t
  <2> QED
    BY <2>1, <2>2 DEF CalendarAgrees
<1>7. ASSUME NEW year \in Years, NEW month \in 1 .. 12, NEW day \in Days,
             NEW n \in 0 .. MaxMonths,
             year + 1 \in Years, (12 * year + month - 1 + n) \div 12 \in Years,
             day <= GetDaysInMonth(year, month),
             Shift(year, month, day, n)
      PROVE  CalendarAgrees'
  <2> DEFINE i == Sixty - 1
             d == DateFromFields(year, month, day, 23, i, i)
             e == AddMonths(d, n)
             r == [date |-> e, distance |-> DayDistance(e, d),
                   back |-> AddDays(e, -DayDistance(e, d)),
                   year |-> AddYears(d, 1),
                   clock |-> AddSeconds(AddMinutes(AddHours(d, -23), -i),
                                        1 - Sixty)]
  <2>1. call' = [op |-> "shift", date |-> d, months |-> n] /\ result' = r
    BY <1>7 DEF Shift
  <2>2. day \in 1 .. GetDaysInMonth(year, month) /\ n \in Nat
    BY <1>7, LengthRange, ValuesAssumption DEF ValuesAssumption
  <2>3. 23 \in 0 .. 23 /\ i \in 0 .. Sixty - 1
    BY Units
  <2>4. d = DateAt(year, month, day, 23, i, i)
    <3> HIDE DEF i
    <3> QED
      BY <2>2, <2>3, NormalisedDate
  <2>5. ShiftAgrees(d, n, r)
    BY ONLY <1>7, <2>2, <2>4, ShiftIsRight
  <2> HIDE DEF d, r
  <2> QED
    BY <2>1, <2>5 DEF CalendarAgrees
<1>8. CASE Next
  BY <1>2, <1>3, <1>4, <1>5, <1>6, <1>7, <1>8 DEF Next
<1> QED
  BY <1>1, <1>8

\* Dates, time stamps and what is written of them agree with the calendar: the
\* code's own leap years and month lengths are the C library's, adding months and
\* going back by dayDistance is exact, weekday, dayInYear and the comparisons
\* follow, and a text names the latest millisecond not after its time stamp.
THEOREM CalendarCorrect == Spec => []CalendarAgrees
<1>1. Init => CalendarAgrees
  BY DEF Init, CalendarAgrees
<1> QED
  BY <1>1, AgreesStep, PTL DEF Spec

-----------------------------------------------------------------------------
(* Induction, and loops that are recursive functions.                      *)

\* A set of natural numbers has a least one.
LEMMA LeastNatural ==
  ASSUME NEW T, T \subseteq Nat, T # {}
  PROVE  \E n \in T : \A m \in T : n <= m
<1> DEFINE R == OpToRel(<, Nat)
<1>1. IsWellFoundedOn(R, Nat)
  BY NatLessThanWellFounded
<1>2. \A x, y \in Nat : x < y => <<x, y>> \in R
  BY DEF OpToRel
<1> HIDE DEF R
<1>3. \E x \in T : \A y \in T : ~ (<<y, x>> \in R)
  BY <1>1, WFMin
<1>4. PICK n \in T : \A m \in T : ~ (<<m, n>> \in R)
  BY <1>3
<1>5. n \in Nat /\ \A m \in T : m \in Nat
  OBVIOUS
<1>6. \A m \in T : ~ (m < n)
  BY <1>2, <1>4, <1>5, Zenon
<1>7. \A m \in T : n <= m
  BY <1>5, <1>6
<1> QED
  BY <1>7

\* Induction over the natural numbers up to a bound, from each to the next.
LEMMA Induction ==
  ASSUME NEW T, NEW N \in Nat, 0 \in T,
         \A n \in 1 .. N : n - 1 \in T => n \in T
  PROVE  \A n \in 0 .. N : n \in T
<1> SUFFICES ASSUME \E n \in 0 .. N : n \notin T
             PROVE  FALSE
  OBVIOUS
<1> DEFINE U == {n \in 0 .. N : n \notin T}
<1>1. U \subseteq Nat /\ U # {}
  OBVIOUS
<1>2. PICK n \in U : \A m \in U : n <= m
  BY <1>1, LeastNatural, Zenon
<1>3. n \in 1 .. N /\ n - 1 \in 0 .. N /\ ~ (n <= n - 1)
  BY <1>2
<1>4. n - 1 \notin U
  BY <1>2, <1>3
<1> QED
  BY <1>2, <1>3, <1>4

\* The same from all smaller ones.
LEMMA Descent ==
  ASSUME NEW T, NEW N \in Nat,
         \A n \in 0 .. N : (\A m \in 0 .. n - 1 : m \in T) => n \in T
  PROVE  \A n \in 0 .. N : n \in T
<1> SUFFICES ASSUME \E n \in 0 .. N : n \notin T
             PROVE  FALSE
  OBVIOUS
<1> DEFINE U == {n \in 0 .. N : n \notin T}
<1>1. U \subseteq Nat /\ U # {}
  OBVIOUS
<1>2. PICK n \in U : \A m \in U : n <= m
  BY <1>1, LeastNatural, Zenon
<1>3. \A m \in 0 .. n - 1 : m \in 0 .. N /\ ~ (n <= m)
  BY <1>2
<1>4. \A m \in 0 .. n - 1 : m \in T
  BY <1>2, <1>3
<1> QED
  BY <1>2, <1>4

\* f[i] is what a loop has after i of its N rounds: z at first, and each round
\* makes step[i] of it.
IsLoop(f, N, z, step) ==
  f = [i \in 0 .. N |-> IF i = 0 THEN z ELSE step[i][f[i - 1]]]

\* S[i] holds what a loop may have after i rounds.  If each round leads from there
\* to the next, the recursive definition of the loop has a solution, and it stays
\* there.
LEMMA LoopExists ==
  ASSUME NEW N \in Nat, NEW S, NEW z \in S[0], NEW step,
         \A i \in 1 .. N : \A v \in S[i - 1] : step[i][v] \in S[i]
  PROVE  \E f : IsLoop(f, N, z, step) /\ \A i \in 0 .. N : f[i] \in S[i]
<1> DEFINE P(n) == \E f : IsLoop(f, n, z, step) /\ \A i \in 0 .. n : f[i] \in S[i]
           T == {n \in Nat : P(n)}
<1>1. 0 \in T
  <2> DEFINE f == [i \in 0 .. 0 |-> z]
  <2>1. f = [i \in 0 .. 0 |-> IF i = 0 THEN z ELSE step[i][f[i - 1]]]
    OBVIOUS
  <2>2. \A i \in 0 .. 0 : f[i] \in S[i]
    OBVIOUS
  <2> HIDE DEF f
  <2>3. IsLoop(f, 0, z, step)
    BY <2>1 DEF IsLoop
  <2>4. P(0)
    BY <2>2, <2>3
  <2> QED
    BY <2>4
<1>2. ASSUME NEW n \in 1 .. N, n - 1 \in T
      PROVE  n \in T
  <2>1. PICK f : IsLoop(f, n - 1, z, step) /\ \A i \in 0 .. n - 1 : f[i] \in S[i]
    BY <1>2
  <2>2. /\ n \in Nat /\ n # 0 /\ n - 1 \in 0 .. n - 1
        /\ \A i \in 0 .. n : i # n => i \in 0 .. n - 1
        /\ \A i \in 0 .. n - 1 : i \in 0 .. n /\ i # n
        /\ \A i \in 0 .. n : i # 0 => i - 1 \in 0 .. n - 1 /\ i - 1 # n
    OBVIOUS
  <2> DEFINE x == step[n][f[n - 1]]
             g == [i \in 0 .. n |-> IF i = n THEN x ELSE f[i]]
  <2>3. x \in S[n]
    BY <2>1, <2>2
  <2> HIDE DEF x
  <2>4. \A i \in 0 .. n : g[i] \in S[i]
    BY <2>1, <2>2, <2>3
  <2>5. \A i \in 0 .. n - 1 : f[i] = IF i = 0 THEN z ELSE step[i][f[i - 1]]
    BY <2>1 DEF IsLoop
  <2>6. \A i \in 0 .. n : g[i] = IF i = 0 THEN z ELSE step[i][g[i - 1]]
    BY <2>2, <2>5 DEF x
  <2>7. g = [i \in 0 .. n |-> IF i = 0 THEN z ELSE step[i][g[i - 1]]]
    <3>1. g = [i \in 0 .. n |-> g[i]]
      OBVIOUS
    <3> HIDE DEF g
    <3> QED
      BY <3>1, <2>6
  <2>8. IsLoop(g, n, z, step)
    BY <2>7 DEF IsLoop
  <2> HIDE DEF g
  <2>9. P(n)
    BY <2>4, <2>8
  <2> QED
    BY <2>2, <2>9
<1> HIDE DEF T
<1>3. \A n \in 0 .. N : n \in T
  BY <1>1, <1>2, Induction
<1> QED
  BY <1>3 DEF T

\* Whatever satisfies the definition stays there too.
LEMMA LoopInvariant ==
  ASSUME NEW N \in Nat, NEW S, NEW f, f[0] \in S[0],
         \A n \in 1 .. N : f[n - 1] \in S[n - 1] => f[n] \in S[n]
  PROVE  \A n \in 0 .. N : f[n] \in S[n]
<1> DEFINE T == {n \in Nat : f[n] \in S[n]}
<1>1. 0 \in T
  OBVIOUS
<1>2. ASSUME NEW n \in 1 .. N, n - 1 \in T
      PROVE  n \in T
  BY <1>2
<1> HIDE DEF T
<1>3. \A n \in 0 .. N : n \in T
  BY <1>1, <1>2, Induction
<1> QED
  BY <1>3 DEF T

\* LoopInvariant for a set that is the same in every round.
LEMMA LoopTyped ==
  ASSUME NEW N \in Nat, NEW S, NEW f, f[0] \in S,
         \A n \in 1 .. N : f[n - 1] \in S => f[n] \in S
  PROVE  \A n \in 0 .. N : f[n] \in S
<1> DEFINE T == {n \in Nat : f[n] \in S}
<1>1. 0 \in T
  OBVIOUS
<1>2. ASSUME NEW n \in 1 .. N, n - 1 \in T
      PROVE  n \in T
  BY <1>2
<1> HIDE DEF T
<1>3. \A n \in 0 .. N : n \in T
  BY <1>1, <1>2, Induction
<1> QED
  BY <1>3 DEF T

\* LoopExists for a set that is the same in every round.
LEMMA TypedLoopExists ==
  ASSUME NEW N \in Nat, NEW S, NEW z \in S, NEW step \in [1 .. N -> [S -> S]]
  PROVE  \E f : IsLoop(f, N, z, step) /\ \A i \in 0 .. N : f[i] \in S
<1> DEFINE R == [i \in 0 .. N |-> S]
<1>1. \A i \in 0 .. N : R[i] = S
  OBVIOUS
<1>2. 0 \in 0 .. N /\ \A i \in 1 .. N : i \in 0 .. N /\ i - 1 \in 0 .. N
  OBVIOUS
<1> HIDE DEF R
<1>3. z \in R[0] /\ \A i \in 1 .. N : \A v \in R[i - 1] : step[i][v] \in R[i]
  BY <1>1, <1>2
<1>4. \E f : IsLoop(f, N, z, step) /\ \A i \in 0 .. N : f[i] \in R[i]
  BY <1>3, LoopExists
<1> QED
  BY <1>1, <1>4

-----------------------------------------------------------------------------
(* Integers and their bytes.                                               *)

\* The powers of the radix.
LEMMA PowerDefined ==
  /\ Power \in [0 .. 8 -> Nat]
  /\ Power[0] = 1
  /\ \A n \in 1 .. 8 : Power[n] = Radix * Power[n - 1]
<1>1. Radix \in Nat
  BY EndianAssumption DEF EndianAssumption
<1> DEFINE step == [n \in 1 .. 8 |-> [v \in Nat |-> Radix * v]]
<1>2. step \in [1 .. 8 -> [Nat -> Nat]]
  BY <1>1
<1>3. \A n \in 1 .. 8, v \in Nat : step[n][v] = Radix * v
  OBVIOUS
<1> HIDE DEF step
<1>4. PICK f : IsLoop(f, 8, 1, step) /\ \A n \in 0 .. 8 : f[n] \in Nat
  BY <1>2, TypedLoopExists
<1>5. \A n \in 0 .. 8 : n # 0 => n \in 1 .. 8 /\ n - 1 \in 0 .. 8
  OBVIOUS
<1>6. f = [n \in 0 .. 8 |-> IF n = 0 THEN 1 ELSE Radix * f[n - 1]]
  BY <1>3, <1>4, <1>5 DEF IsLoop
<1>7. Power = [n \in 0 .. 8 |-> IF n = 0 THEN 1 ELSE Radix * Power[n - 1]]
  BY <1>6 DEF Power
<1>8. \A n \in 0 .. 8 : Power[n] = IF n = 0 THEN 1 ELSE Radix * Power[n - 1]
  BY <1>7
<1>9. \A n \in 1 .. 8 : n \in 0 .. 8 /\ n # 0
  OBVIOUS
<1>10. Power[0] \in Nat
       /\ \A n \in 1 .. 8 : Power[n - 1] \in Nat => Power[n] \in Nat
  <2>1. \A x \in Nat : Radix * x \in Nat
    BY <1>1
  <2> QED
    BY <1>8, <1>9, <2>1
<1>11. \A n \in 0 .. 8 : Power[n] \in Nat
  BY <1>10, LoopTyped
<1>12. Power \in [0 .. 8 -> Nat]
  BY <1>7, <1>11
<1> QED
  BY <1>8, <1>9, <1>12

\* A byte is a digit.
Byte == 0 .. Radix - 1

\* d read as digits, the least significant one first: f[k] is the number that
\* the first k of them make.
IsSum(f, d, n) ==
  /\ f \in [0 .. n -> Nat]
  /\ f[0] = 0
  /\ \A k \in 1 .. n : f[k] = f[k - 1] + d[k] * Power[k - 1]

\* The digits of a number.
DigitsOf(v, n) == [k \in 1 .. n |-> (v \div Power[k - 1]) % Radix]

\* There is a byte, and an even number of them.
LEMMA RadixProperties ==
  /\ Radix \in Nat /\ Radix >= 2
  /\ Radix \div 2 \in Nat /\ 2 * (Radix \div 2) = Radix
<1>1. PICK m \in 1 .. 128 : Radix = 2 * m
  BY EndianAssumption DEF EndianAssumption
<1>2. (2 * m) \div 2 = m
  OBVIOUS
<1> QED
  BY <1>1, <1>2

\* Products of natural numbers.
LEMMA ProductInt ==
  ASSUME NEW a \in Nat, NEW b \in Nat
  PROVE  a * b \in Nat
OBVIOUS

\* A power is a positive number.
LEMMA PowerPositive == \A n \in 0 .. 8 : Power[n] \in Nat \ {0}
<1>1. Power[0] \in Nat \ {0}
  BY PowerDefined
<1>2. ASSUME NEW n \in 1 .. 8, Power[n - 1] \in Nat \ {0}
      PROVE  Power[n] \in Nat \ {0}
  <2>1. \A x \in Nat \ {0} : Radix * x \in Nat \ {0}
    BY RadixProperties
  <2> QED
    BY <1>2, <2>1, PowerDefined
<1> QED
  BY <1>1, <1>2, LoopTyped

\* The sum of n digits is below the n-th power.
LEMMA SumBounded ==
  ASSUME NEW n \in 0 .. 8, NEW d, \A k \in 1 .. n : d[k] \in Byte,
         NEW f, IsSum(f, d, n)
  PROVE  \A k \in 0 .. n : f[k] \in 0 .. Power[k] - 1
<1> DEFINE T == {k \in Nat : f[k] \in 0 .. Power[k] - 1}
<1>1. 0 \in T
  BY PowerDefined DEF IsSum
<1>2. ASSUME NEW k \in 1 .. n, k - 1 \in T
      PROVE  k \in T
  <2>1. k - 1 \in 0 .. 8 /\ k \in 1 .. 8 /\ k \in Nat
    OBVIOUS
  <2> DEFINE x == f[k - 1]
             p == Power[k - 1]
             c == d[k]
  <2>2. f[k] = x + c * p /\ Power[k] = Radix * p
    BY <2>1, PowerDefined DEF IsSum
  <2>3. p \in Nat \ {0} /\ c \in Byte /\ x \in 0 .. p - 1
    BY <1>2, <2>1, PowerPositive
  <2> HIDE DEF x, p, c
  <2>4. c \in Nat /\ Radix - 1 - c \in Nat
    BY <2>3, RadixProperties DEF Byte
  <2>5. (Radix - 1 - c) * p \in Nat /\ c * p \in Nat
    BY <2>3, <2>4, ProductInt
  <2>6. (Radix - 1 - c) * p = Radix * p - p - c * p
    BY <2>3, <2>4, RadixProperties
  <2>7. Radix * p \in Nat
    BY <2>3, RadixProperties, ProductInt
  <2>8. x + c * p \in 0 .. Radix * p - 1
    <3> DEFINE a == Radix * p
               b == c * p
               e == (Radix - 1 - c) * p
    <3>1. a \in Nat /\ b \in Nat /\ e \in Nat /\ e = a - p - b
      BY <2>5, <2>6, <2>7
    <3> HIDE DEF a, b, e
    <3>2. x + b \in 0 .. a - 1
      BY <2>3, <3>1
    <3> QED
      BY <3>2 DEF a, b
  <2> QED
    BY <2>1, <2>2, <2>8
<1> HIDE DEF T
<1>3. \A k \in 0 .. n : k \in T
  BY <1>1, <1>2, Induction
<1> QED
  BY <1>3 DEF T

\* A sum begins with the sums of fewer digits.
LEMMA SumContinued ==
  ASSUME NEW n \in 0 .. 8, NEW d, \A k \in 1 .. n : d[k] \in Byte,
         NEW f, IsSum(f, d, n), NEW k \in 0 .. n
  PROVE  \E q \in Nat : f[n] = f[k] + Power[k] * q
<1> DEFINE T == {i \in Nat : i \in k .. n =>
                     \E q \in Nat, s \in Nat :
                       Power[i] = Power[k] * s /\ f[i] = f[k] + Power[k] * q}
<1>1. \A i \in {k} : i \in T
  <2>1. k \in 0 .. 8 /\ k \in 0 .. n
    OBVIOUS
  <2>2. Power[k] \in Nat /\ f[k] \in Nat
    BY <2>1, PowerPositive DEF IsSum
  <2>3. Power[k] = Power[k] * 1 /\ f[k] = f[k] + Power[k] * 0
    BY <2>2
  <2> QED
    BY <2>3
<1>2. 0 \in T
  <2>1. 0 \in k .. n => k = 0
    OBVIOUS
  <2> HIDE DEF T
  <2>2. k = 0 => 0 \in T
    BY <1>1
  <2>3. 0 \notin k .. n => 0 \in T
    BY DEF T
  <2> QED
    BY <2>1, <2>2, <2>3
<1>3. ASSUME NEW i \in 1 .. n, i - 1 \in T
      PROVE  i \in T
  <2>1. CASE i < k
    BY <2>1
  <2>2. CASE i = k
    <3> HIDE DEF T
    <3> QED
      BY <1>1, <2>2
  <2>3. CASE i > k
    <3>1. i - 1 \in k .. n
      BY <2>3
    <3>2. PICK q \in Nat, s \in Nat :
             Power[i - 1] = Power[k] * s /\ f[i - 1] = f[k] + Power[k] * q
      BY <1>3, <3>1
    <3>3. i \in 1 .. 8 /\ k \in 0 .. 8
      OBVIOUS
    <3>4. /\ Power[i] = Radix * Power[i - 1]
          /\ f[i] = f[i - 1] + d[i] * Power[i - 1]
      BY <3>3, PowerDefined DEF IsSum
    <3> DEFINE p == Power[k]
               x == f[k]
               c == d[i]
    <3>5. p \in Nat /\ x \in Nat /\ c \in Nat /\ Radix \in Nat
      <4>1. k \in 0 .. n /\ d[i] \in 0 .. Radix - 1 /\ Radix \in Nat
        BY RadixProperties DEF Byte
      <4>2. p \in Nat
        BY <3>3, PowerPositive
      <4>3. f[k] \in Nat
        BY <4>1 DEF IsSum
      <4> QED
        BY <4>1, <4>2, <4>3
    <3>6. Power[i] = Radix * (p * s) /\ f[i] = (x + p * q) + c * (p * s)
      BY <3>2, <3>4
    <3> HIDE DEF p, x, c
    <3>7. /\ Radix * (p * s) = p * (Radix * s)
          /\ (x + p * q) + c * (p * s) = x + p * (q + c * s)
      BY <3>5
    <3>8. Radix * s \in Nat /\ c * s \in Nat
      BY <3>5, ProductInt
    <3>9. q + c * s \in Nat
      BY <3>8
    <3>10. Power[i] = p * (Radix * s) /\ f[i] = x + p * (q + c * s)
      BY <3>6, <3>7
    <3> QED
      BY <3>8, <3>9, <3>10 DEF p, x
  <2> QED
    BY <2>1, <2>2, <2>3
<1> HIDE DEF T
<1>4. \A i \in 0 .. n : i \in T
  BY <1>2, <1>3, Induction
<1>5. n \in T /\ n \in k .. n
  BY <1>4
<1> QED
  BY <1>5 DEF T

\* The digits of a sum are those it was made of.
LEMMA DigitsOfSum ==
  ASSUME NEW n \in 0 .. 8, NEW d, \A k \in 1 .. n : d[k] \in Byte,
         NEW f, IsSum(f, d, n), NEW k \in 1 .. n
  PROVE  (f[n] \div Power[k - 1]) % Radix = d[k]
<1>1. k \in 1 .. 8 /\ k - 1 \in 0 .. 8 /\ k \in 0 .. n /\ k - 1 \in 0 .. n
  OBVIOUS
<1>2. PICK q \in Nat : f[n] = f[k] + Power[k] * q
  BY <1>1, SumContinued
<1> DEFINE p == Power[k - 1]
           x == f[k - 1]
           c == d[k]
<1>3. f[k] = x + c * p /\ Power[k] = Radix * p
  BY <1>1, PowerDefined DEF IsSum
<1>4. p \in Nat \ {0} /\ x \in 0 .. p - 1
  BY <1>1, PowerPositive, SumBounded
<1>5. c \in 0 .. Radix - 1 /\ c \in Nat /\ Radix \in Nat \ {0}
  BY RadixProperties DEF Byte
<1>6. f[n] = (x + c * p) + (Radix * p) * q
  BY <1>2, <1>3
<1> DEFINE y == Radix * q + c
<1> HIDE DEF p, x, c
<1>7. (x + c * p) + (Radix * p) * q = p * (Radix * q + c) + x
  BY <1>4, <1>5
<1>8. Radix * q \in Nat
  BY <1>5, ProductInt
<1>9. y \in Int
  BY <1>5, <1>8
<1>10. y % Radix = c
  BY <1>5, Divided
<1>11. f[n] = p * y + x
  BY <1>6, <1>7
<1> HIDE DEF y
<1>12. (p * y + x) \div p = y
  BY <1>4, <1>9, Divided
<1> QED
  BY <1>10, <1>11, <1>12 DEF p, c

\* A number below the n-th power is the sum of its n digits.
LEMMA SumOfDigits ==
  ASSUME NEW n \in 0 .. 8, NEW v \in 0 .. Power[n] - 1,
         NEW f, IsSum(f, DigitsOf(v, n), n)
  PROVE  f[n] = v
<1> DEFINE d == DigitsOf(v, n)
<1>1. v \in Nat
  BY PowerPositive
<1>2. \A k \in 1 .. n : d[k] = (v \div Power[k - 1]) % Radix
  BY DEF DigitsOf
<1>3. \A k \in 1 .. n : d[k] \in Byte
  <2> SUFFICES ASSUME NEW k \in 1 .. n
               PROVE  d[k] \in Byte
    OBVIOUS
  <2> DEFINE p == Power[k - 1]
             w == v \div p
  <2>1. p \in Nat \ {0} /\ v \in Int
    BY <1>1, PowerPositive
  <2> HIDE DEF p
  <2>2. w \in Int
    BY <2>1, DivMod
  <2> HIDE DEF w
  <2>3. w % Radix \in 0 .. Radix - 1
    BY <2>2, RadixProperties, DivMod
  <2> QED
    BY <1>2, <2>3 DEF Byte, p, w
<1>4. IsSum(f, d, n)
  OBVIOUS
<1> HIDE DEF d
<1> DEFINE T == {k \in Nat : v = f[k] + Power[k] * (v \div Power[k])}
<1>5. 0 \in T
  <2>1. f[0] = 0 /\ Power[0] = 1
    BY <1>4, PowerDefined DEF IsSum
  <2>2. v = 0 + 1 * (v \div 1)
    BY <1>1
  <2> QED
    BY <2>1, <2>2
<1>6. ASSUME NEW k \in 1 .. n, k - 1 \in T
      PROVE  k \in T
  <2>1. k \in 1 .. 8 /\ k - 1 \in 0 .. 8 /\ k \in 0 .. n /\ k \in 0 .. 8
    OBVIOUS
  <2> DEFINE p == Power[k - 1]
             x == f[k - 1]
             w == v \div p
             u == w \div Radix
  <2>2. p \in Nat \ {0} /\ Power[k] \in Nat \ {0} /\ Power[k] = Radix * p
    BY <2>1, PowerPositive, PowerDefined
  <2>3. f[k] = x + (w % Radix) * p /\ x \in Nat
    BY <1>2, <1>4, <2>1 DEF IsSum
  <2>4. v = x + p * w
    BY <1>6
  <2>5. w \in Int
    <3> HIDE DEF p
    <3>1. p \in Nat \ {0} /\ v \in Int
      BY <1>1, <2>2
    <3> QED
      BY <3>1, DivMod
  <2> HIDE DEF p, x, w
  <2>6. u \in Int /\ (w % Radix) \in Int /\ w = Radix * u + (w % Radix)
    BY <2>5, RadixProperties, DivMod
  <2> DEFINE r == w % Radix
  <2> HIDE DEF u, r
  <2>7. u \in Int /\ r \in Int /\ w = Radix * u + r /\ f[k] = x + r * p
    BY <2>3, <2>6 DEF r
  <2>8. p * (Radix * u + r) = r * p + (Radix * p) * u
    BY <2>2, <2>7, RadixProperties
  <2>9. p * w = r * p + (Radix * p) * u
    BY <2>7, <2>8
  <2>10. v = f[k] + Power[k] * u
    <3> DEFINE a == r * p
               b == (Radix * p) * u
    <3>1. a \in Int /\ b \in Int
      BY <2>2, <2>7, RadixProperties
    <3>2. p * w = a + b /\ f[k] = x + a /\ Power[k] * u = b
      BY <2>2, <2>7, <2>9
    <3> HIDE DEF a, b
    <3> QED
      BY <2>3, <2>4, <3>1, <3>2
  <2>11. f[k] \in 0 .. Power[k] - 1
    BY <1>3, <1>4, <2>1, SumBounded
  <2>12. (Power[k] * u + f[k]) \div Power[k] = u
    BY <2>2, <2>7, <2>11, Divided
  <2>13. Power[k] * u \in Int /\ f[k] \in Int
    BY <2>2, <2>7, <2>11
  <2>14. v = Power[k] * u + f[k]
    BY <2>10, <2>13
  <2>15. v \div Power[k] = u
    BY <2>12, <2>14
  <2> QED
    BY <2>1, <2>10, <2>15
<1> HIDE DEF T
<1>7. \A k \in 0 .. n : k \in T
  BY <1>5, <1>6, Induction
<1>8. n \in 0 .. n /\ n \in 0 .. 8
  OBVIOUS
<1>9. v = f[n] + Power[n] * (v \div Power[n])
  BY <1>7, <1>8 DEF T
<1>10. Power[n] \in Nat \ {0} /\ f[n] \in Nat
  BY <1>4, <1>8, PowerPositive DEF IsSum
<1>11. (Power[n] * 0 + v) \div Power[n] = 0
  BY <1>10, Divided
<1>12. v \div Power[n] = 0
  BY <1>1, <1>10, <1>11
<1> DEFINE w == v \div Power[n]
<1>13. v = f[n] + Power[n] * w /\ w = 0
  BY <1>9, <1>12
<1> HIDE DEF w
<1>14. v = f[n] + Power[n] * 0 /\ Power[n] * 0 = 0
  BY <1>10, <1>13
<1> QED
  BY <1>10, <1>14

\* Reversing bytes twice gives them back.
LEMMA Reversed ==
  ASSUME NEW S, NEW m \in Seq(S)
  PROVE  /\ Reverse(m) \in Seq(S) /\ Len(Reverse(m)) = Len(m)
         /\ \A i \in 1 .. Len(m) : Reverse(m)[i] = m[Len(m) - i + 1]
         /\ Reverse(Reverse(m)) = m
<1>1. ASSUME NEW t \in Seq(S)
      PROVE  /\ Reverse(t) \in Seq(S) /\ Len(Reverse(t)) = Len(t)
             /\ \A i \in 1 .. Len(t) : Reverse(t)[i] = t[Len(t) - i + 1]
  <2>1. Len(t) \in Nat /\ \A i \in 1 .. Len(t) : t[i] \in S
    BY LenProperties, ElementOfSeq
  <2>2. \A i \in 1 .. Len(t) : Len(t) - i + 1 \in 1 .. Len(t)
    BY <2>1
  <2>3. Reverse(t) \in [1 .. Len(t) -> S]
    BY <2>1, <2>2 DEF Reverse
  <2> QED
    BY <2>1, <2>3 DEF Reverse
<1> DEFINE n == Len(m)
           r == Reverse(m)
           b == Reverse(r)
<1>2. r \in Seq(S) /\ Len(r) = n /\ \A i \in 1 .. n : r[i] = m[n - i + 1]
  BY <1>1
<1>3. b \in Seq(S) /\ Len(b) = n /\ \A i \in 1 .. n : b[i] = r[n - i + 1]
  <2> HIDE DEF r
  <2> QED
    BY <1>1, <1>2
<1>4. n \in Nat
  BY LenProperties
<1> HIDE DEF n, r, b
<1>5. \A i \in 1 .. n : n - i + 1 \in 1 .. n /\ n - (n - i + 1) + 1 = i
  BY <1>4
<1>6. \A i \in 1 .. n : b[i] = m[i]
  BY <1>2, <1>3, <1>5
<1>7. b = m
  BY <1>3, <1>6, SeqEqual DEF n
<1> QED
  BY <1>1, <1>7 DEF b, r

\* The digits of bytes m, on either host.
DigitsIn(m, littleEndian) == IF littleEndian THEN m ELSE Reverse(m)

\* A loop over the bytes makes their value.
LEMMA ValueDefined ==
  ASSUME NEW m \in Seq(Byte), Len(m) \in 0 .. 8, NEW le \in BOOLEAN
  PROVE  /\ DigitsIn(m, le) \in Seq(Byte)
         /\ Len(DigitsIn(m, le)) = Len(m)
         /\ \A i \in 1 .. Len(m) : DigitsIn(m, le)[i] \in Byte
         /\ \E f : IsSum(f, DigitsIn(m, le), Len(m)) /\ Value(m, le) = f[Len(m)]
<1> DEFINE d == DigitsIn(m, le)
           N == Len(m)
<1>1. d \in Seq(Byte) /\ Len(d) = N
  BY Reversed DEF DigitsIn
<1>2. \A i \in 1 .. N : d[i] \in Byte
  BY <1>1, ElementOfSeq
<1> DEFINE sum == CHOOSE g : g = [n \in 0 .. N |-> IF n = 0 THEN 0
                                    ELSE g[n - 1] + d[n] * Capacity(n - 1)]
<1>3. Value(m, le) = sum[N]
  BY DEF Value, DigitsIn
<1> HIDE DEF d
<1>4. N \in 0 .. 8
  OBVIOUS
<1> HIDE DEF N
<1>5. N \in Nat /\ \A n \in 1 .. N : n \in 0 .. N /\ n # 0 /\ n - 1 \in 0 .. 8
  BY <1>4
<1>6. 0 \in 0 .. N
  BY <1>4
<1> DEFINE step == [n \in 1 .. N |-> [v \in Nat |-> v + d[n] * Capacity(n - 1)]]
<1>7. \A n \in 1 .. N : d[n] * Capacity(n - 1) \in Nat
  <2> TAKE n \in 1 .. N
  <2>1. d[n] \in 0 .. Radix - 1 /\ Radix \in Nat
    BY <1>2, RadixProperties DEF Byte
  <2>2. n - 1 \in 0 .. 8 /\ d[n] \in Nat
    BY <1>5, <2>1
  <2>3. Capacity(n - 1) \in Nat
    BY <2>2, PowerPositive DEF Capacity
  <2> QED
    BY <2>2, <2>3, ProductInt
<1>8. step \in [1 .. N -> [Nat -> Nat]]
  BY <1>7
<1>9. \A n \in 1 .. N, v \in Nat : step[n][v] = v + d[n] * Capacity(n - 1)
  OBVIOUS
<1> HIDE DEF step
<1>10. PICK h : IsLoop(h, N, 0, step) /\ \A n \in 0 .. N : h[n] \in Nat
  BY <1>5, <1>8, TypedLoopExists
<1>11. h = [n \in 0 .. N |-> IF n = 0 THEN 0
                               ELSE h[n - 1] + d[n] * Capacity(n - 1)]
  <2>1. \A n \in 0 .. N : n # 0 => n \in 1 .. N /\ n - 1 \in 0 .. N
    BY <1>5
  <2> QED
    BY <1>9, <1>10, <2>1 DEF IsLoop
<1>12. sum = [n \in 0 .. N |-> IF n = 0 THEN 0
                                  ELSE sum[n - 1] + d[n] * Capacity(n - 1)]
  BY <1>11
<1> HIDE DEF sum
<1>13. /\ sum[0] = 0
       /\ \A n \in 1 .. N : sum[n] = sum[n - 1] + d[n] * Power[n - 1]
  BY <1>5, <1>6, <1>12 DEF Capacity
<1>14. \A n \in 0 .. N : sum[n] \in Nat
  <2>1. \A n \in 1 .. N : sum[n - 1] \in Nat => sum[n] \in Nat
    BY <1>7, <1>13 DEF Capacity
  <2>2. N \in Nat /\ sum[0] \in Nat
    BY <1>5, <1>13
  <2> QED
    BY <2>1, <2>2, LoopTyped
<1>15. sum \in [0 .. N -> Nat]
  BY <1>12, <1>14
<1>16. IsSum(sum, d, N)
  BY <1>13, <1>15 DEF IsSum
<1>17. \E f : IsSum(f, d, N) /\ Value(m, le) = f[N]
  BY <1>3, <1>16
<1> QED
  BY <1>1, <1>2, <1>17, Zenon DEF d, N

\* The memory of a number is a sequence of bytes.
LEMMA MemoryDefined ==
  ASSUME NEW w \in 0 .. 8, NEW v \in Nat, NEW le \in BOOLEAN
  PROVE  /\ DigitsOf(v, w) \in Seq(Byte) /\ Len(DigitsOf(v, w)) = w
         /\ Memory(v, w, le) = DigitsIn(DigitsOf(v, w), le)
         /\ Memory(v, w, le) \in Seq(Byte) /\ Len(Memory(v, w, le)) = w
<1> DEFINE d == DigitsOf(v, w)
<1>1. \A k \in 1 .. w : (v \div Power[k - 1]) % Radix \in Byte
  <2> TAKE k \in 1 .. w
  <2> DEFINE p == Power[k - 1]
             q == v \div p
  <2>1. p \in Nat \ {0} /\ v \in Int
    BY PowerPositive
  <2> HIDE DEF p
  <2>2. q \in Int
    BY <2>1, DivMod
  <2> HIDE DEF q
  <2>3. q % Radix \in 0 .. Radix - 1
    BY <2>2, RadixProperties, DivMod
  <2> QED
    BY <2>3 DEF Byte, p, q
<1>2. d \in [1 .. w -> Byte]
  BY <1>1 DEF DigitsOf
<1>3. w \in Nat
  OBVIOUS
<1>4. d \in Seq(Byte) /\ Len(d) = w
  <2> HIDE DEF d
  <2> QED
    BY <1>2, <1>3
<1>5. Memory(v, w, le) = DigitsIn(d, le)
  BY DEF Memory, DigitsIn, DigitsOf, Capacity
<1> HIDE DEF d
<1>6. DigitsIn(d, le) \in Seq(Byte) /\ Len(DigitsIn(d, le)) = w
  BY <1>4, Reversed DEF DigitsIn
<1> QED
  BY <1>4, <1>5, <1>6 DEF d

\* A host reads back the number that it keeps in its memory.
LEMMA ValueOfMemory ==
  ASSUME NEW w \in 0 .. 8, NEW v \in 0 .. Power[w] - 1, NEW le \in BOOLEAN
  PROVE  Value(Memory(v, w, le), le) = v
<1> DEFINE d == DigitsOf(v, w)
           m == Memory(v, w, le)
<1>1. v \in Nat
  BY PowerPositive
<1>2. d \in Seq(Byte) /\ m = DigitsIn(d, le) /\ m \in Seq(Byte) /\ Len(m) = w
  BY <1>1, MemoryDefined
<1> HIDE DEF d, m
<1>3. DigitsIn(m, le) = d
  BY <1>2, Reversed DEF DigitsIn
<1>4. Len(m) \in 0 .. 8
  BY <1>2
<1>5. PICK f : IsSum(f, DigitsIn(m, le), Len(m)) /\ Value(m, le) = f[Len(m)]
  BY <1>2, <1>4, ValueDefined
<1>6. IsSum(f, DigitsOf(v, w), w) /\ Value(m, le) = f[w]
  BY <1>2, <1>3, <1>5 DEF d
<1> QED
  BY <1>6, SumOfDigits DEF m

\* The memory of the value of some bytes is those bytes.
LEMMA MemoryOfValue ==
  ASSUME NEW m \in Seq(Byte), NEW w \in 0 .. 8, Len(m) = w, NEW le \in BOOLEAN
  PROVE  /\ Value(m, le) \in 0 .. Power[w] - 1
         /\ Memory(Value(m, le), w, le) = m
<1> DEFINE d == DigitsIn(m, le)
           v == Value(m, le)
           e == DigitsOf(v, w)
<1>1. /\ d \in Seq(Byte) /\ Len(d) = w
      /\ \A i \in 1 .. w : d[i] \in Byte
      /\ \E f : IsSum(f, d, w) /\ v = f[w]
  BY ValueDefined
<1>2. DigitsIn(d, le) = m
  BY Reversed DEF DigitsIn
<1> HIDE DEF d, v
<1>3. PICK f : IsSum(f, d, w) /\ v = f[w]
  BY <1>1
<1>4. w \in 0 .. w
  OBVIOUS
<1>5. v \in 0 .. Power[w] - 1
  BY <1>1, <1>3, <1>4, SumBounded
<1>6. v \in Nat
  BY <1>5, PowerPositive
<1>7. e \in Seq(Byte) /\ Len(e) = w /\ Memory(v, w, le) = DigitsIn(e, le)
  BY <1>6, MemoryDefined
<1>8. \A k \in 1 .. w : d[k] = (v \div Power[k - 1]) % Radix
  BY <1>1, <1>3, DigitsOfSum
<1>9. \A k \in 1 .. w : e[k] = d[k]
  BY <1>8 DEF DigitsOf
<1> HIDE DEF e
<1>10. e = d
  BY <1>1, <1>7, <1>9, SeqEqual
<1> QED
  BY <1>2, <1>5, <1>7, <1>10 DEF v

-----------------------------------------------------------------------------
(* Byte order.                                                             *)

\* The bytes of u, the most significant one first.
NetworkBytes(u, w) == [i \in 1 .. w |-> (u \div Power[w - i]) % Radix]

\* They are what a big-endian host has in its memory, and a little-endian one
\* backwards.
LEMMA NetworkBytesAre ==
  ASSUME NEW w \in 0 .. 8, NEW u \in Nat
  PROVE  /\ NetworkBytes(u, w) \in Seq(Byte) /\ Len(NetworkBytes(u, w)) = w
         /\ NetworkBytes(u, w) = Reverse(Memory(u, w, TRUE))
         /\ NetworkBytes(u, w) = Memory(u, w, FALSE)
         /\ Reverse(NetworkBytes(u, w)) = Memory(u, w, TRUE)
<1> DEFINE d == DigitsOf(u, w)
           b == NetworkBytes(u, w)
<1>1. /\ d \in Seq(Byte) /\ Len(d) = w
      /\ Memory(u, w, TRUE) = d /\ Memory(u, w, FALSE) = Reverse(d)
  BY MemoryDefined DEF DigitsIn
<1>2. \A i \in 1 .. w : w - i + 1 \in 1 .. w /\ (w - i + 1) - 1 = w - i
  OBVIOUS
<1>3. \A i \in 1 .. w : d[w - i + 1] = (u \div Power[w - i]) % Radix
  BY <1>2 DEF DigitsOf
<1>4. b = Reverse(d)
  BY <1>1, <1>3 DEF NetworkBytes, Reverse
<1> HIDE DEF d, b
<1>5. b \in Seq(Byte) /\ Len(b) = w /\ Reverse(b) = d
  BY <1>1, <1>4, Reversed
<1> QED
  BY <1>1, <1>4, <1>5 DEF b

\* hostToNetwork leaves the most significant byte first in the memory of either
\* host.
LEMMA HostToNetworkIs ==
  ASSUME NEW w \in 0 .. 8, NEW u \in 0 .. Power[w] - 1, NEW le \in BOOLEAN
  PROVE  /\ HostToNetwork(u, w, le) \in 0 .. Power[w] - 1
         /\ Memory(HostToNetwork(u, w, le), w, le) = NetworkBytes(u, w)
<1> DEFINE b == NetworkBytes(u, w)
<1>1. u \in Nat
  BY PowerPositive
<1>2. /\ b \in Seq(Byte) /\ Len(b) = w
      /\ b = Reverse(Memory(u, w, TRUE)) /\ b = Memory(u, w, FALSE)
  BY <1>1, NetworkBytesAre
<1> HIDE DEF b
<1>3. CASE le
  <2>1. HostToNetwork(u, w, le) = Value(b, TRUE)
    BY <1>2, <1>3 DEF HostToNetwork
  <2>2. Value(b, TRUE) \in 0 .. Power[w] - 1 /\ Memory(Value(b, TRUE), w, TRUE) = b
    BY <1>2, MemoryOfValue
  <2>3. le = TRUE
    BY <1>3
  <2> QED
    BY <2>1, <2>2, <2>3 DEF b
<1>4. CASE ~le
  <2>1. HostToNetwork(u, w, le) = u /\ le = FALSE
    BY <1>4 DEF HostToNetwork
  <2> QED
    BY <1>2, <2>1 DEF b
<1> QED
  BY <1>3, <1>4

\* networkToHost makes a number of such bytes.
LEMMA NetworkToHostIs ==
  ASSUME NEW w \in 0 .. 8, NEW u \in 0 .. Power[w] - 1, NEW le \in BOOLEAN,
         NEW v \in 0 .. Power[w] - 1, Memory(v, w, le) = NetworkBytes(u, w)
  PROVE  NetworkToHost(v, w, le) = u
<1> DEFINE b == NetworkBytes(u, w)
<1>1. u \in Nat
  BY PowerPositive
<1>2. b = Memory(u, w, FALSE) /\ Reverse(b) = Memory(u, w, TRUE)
  BY <1>1, NetworkBytesAre
<1>3. CASE le
  <2>1. le = TRUE
    BY <1>3
  <2>2. NetworkToHost(v, w, le) = Value(Reverse(b), TRUE)
    BY <2>1 DEF NetworkToHost
  <2> HIDE DEF b
  <2>3. Value(Memory(u, w, TRUE), TRUE) = u
    BY ValueOfMemory
  <2> QED
    BY <1>2, <2>2, <2>3
<1>4. CASE ~le
  <2>1. le = FALSE
    BY <1>4
  <2>2. Value(Memory(u, w, FALSE), FALSE) = u /\ Value(Memory(v, w, FALSE), FALSE) = v
    BY ValueOfMemory
  <2>3. u = v
    BY <1>2, <2>1, <2>2
  <2> QED
    BY <2>1, <2>3 DEF NetworkToHost
<1> QED
  BY <1>3, <1>4

\* Buffer's writeInt and readUint, for every width and value: the bytes are those
\* of the network, the most significant one first, and every host reads from them
\* what was written.
THEOREM ReadWritten ==
  ASSUME NEW w \in 0 .. 8, NEW v \in Int, NEW from \in BOOLEAN
  PROVE  /\ ToUnsigned(v, w) \in 0 .. Power[w] - 1
         /\ WriteInt(v, w, from) = NetworkBytes(ToUnsigned(v, w), w)
         /\ WriteInt(v, w, from) \in Seq(Byte) /\ Len(WriteInt(v, w, from)) = w
         /\ \A to \in BOOLEAN :
              ReadUint(WriteInt(v, w, from), to) = ToUnsigned(v, w)
<1> DEFINE u == ToUnsigned(v, w)
           b == WriteInt(v, w, from)
<1>1. u \in 0 .. Power[w] - 1
  <2> DEFINE p == Power[w]
  <2>1. p \in Nat \ {0}
    BY PowerPositive
  <2> HIDE DEF p
  <2>2. v % p \in 0 .. p - 1
    BY <2>1, DivMod
  <2> QED
    BY <2>2 DEF ToUnsigned, Capacity, p
<1>2. b = Memory(HostToNetwork(u, w, from), w, from)
  BY DEF WriteInt
<1> HIDE DEF u, b
<1>3. b = NetworkBytes(u, w)
  BY <1>1, <1>2, HostToNetworkIs
<1>4. u \in Nat
  BY <1>1, PowerPositive
<1>5. b \in Seq(Byte) /\ Len(b) = w
  BY <1>3, <1>4, NetworkBytesAre
<1>6. ASSUME NEW to \in BOOLEAN
      PROVE  ReadUint(b, to) = u
  <2>1. Value(b, to) \in 0 .. Power[w] - 1 /\ Memory(Value(b, to), w, to) = b
    BY <1>5, MemoryOfValue
  <2>2. NetworkToHost(Value(b, to), w, to) = u
    BY <1>1, <1>3, <2>1, NetworkToHostIs
  <2> QED
    BY <1>5, <2>2 DEF ReadUint
<1> QED
  BY <1>1, <1>3, <1>5, <1>6 DEF u, b

\* Retrieving an integer takes its bytes and leaves what follows.
LEMMA RetrieveIs ==
  ASSUME NEW w \in 1 .. 8, NEW b \in Seq(Byte), Len(b) = w,
         NEW c \in Seq(Byte), NEW to \in BOOLEAN
  PROVE  Retrieve(b \o c, w, to) =
           [signed |-> ReadInt(b, to), unsigned |-> ReadUint(b, to), rest |-> c]
<1> DEFINE t == b \o c
           front == SubSeq(t, 1, w)
           rest == SubSeq(t, w + 1, Len(t))
           n == Len(c)
<1>1. /\ t \in Seq(Byte) /\ Len(t) = w + n /\ n \in Nat
      /\ \A i \in 1 .. w + n : t[i] = IF i <= w THEN b[i] ELSE c[i - w]
  BY ConcatProperties, LenProperties
<1>2. \A i \in 1 .. w + n : t[i] \in Byte
  <2> HIDE DEF t, n
  <2> QED
    BY <1>1, ElementOfSeq
<1>3. Retrieve(t, w, to) = [signed |-> ReadInt(front, to),
                            unsigned |-> ReadUint(front, to), rest |-> rest]
  BY DEF Retrieve
<1> HIDE DEF t
<1>4. front = b
  <2>1. \A i \in 1 .. w : i \in 1 .. w + n /\ i <= w /\ 1 + i - 1 = i
    BY <1>1
  <2>2. \A i \in 1 .. w : t[i] \in Byte
    BY <1>2, <2>1
  <2>3. w \in Int /\ 1 \in Int /\ 1 <= w /\ w - 1 + 1 = w
    OBVIOUS
  <2>4. /\ front \in Seq(Byte) /\ Len(front) = w
        /\ \A i \in 1 .. w : front[i] = t[1 + i - 1]
    BY <2>2, <2>3, SubSeqProperties
  <2> HIDE DEF front
  <2>5. \A i \in 1 .. w : front[i] = b[i]
    BY <1>1, <2>1, <2>4
  <2> QED
    BY <2>4, <2>5, SeqEqual
<1>5. rest = c
  <2>1. Len(t) = w + n /\ n \in Nat /\ w + 1 \in Int /\ w + n \in Int
    BY <1>1
  <2>2. \A i \in w + 1 .. w + n : t[i] \in Byte
    BY <1>1, <1>2
  <2>3. /\ rest \in Seq(Byte)
        /\ Len(rest) = IF w + 1 <= w + n THEN w + n - (w + 1) + 1 ELSE 0
        /\ \A i \in 1 .. w + n - (w + 1) + 1 : rest[i] = t[(w + 1) + i - 1]
    BY <2>1, <2>2, SubSeqProperties
  <2> HIDE DEF rest
  <2>4. Len(rest) = n
    BY <2>1, <2>3
  <2>5. \A i \in 1 .. n : /\ i \in 1 .. w + n - (w + 1) + 1
                          /\ (w + 1) + i - 1 = w + i /\ w + i \in 1 .. w + n
                          /\ ~ (w + i <= w) /\ (w + i) - w = i
    BY <2>1
  <2>6. \A i \in 1 .. n : rest[i] = c[i]
    BY <1>1, <2>3, <2>5
  <2> QED
    BY <2>3, <2>4, <2>6, SeqEqual DEF n
<1> HIDE DEF front, rest
<1> QED
  BY <1>3, <1>4, <1>5 DEF t

\* An integer is read as it was written: all its values unsigned, the lower half
\* and the negative ones signed.
LEMMA SignIs ==
  ASSUME NEW w \in 1 .. 8,
         NEW v \in -(Capacity(w) \div 2) .. Capacity(w) - 1,
         NEW b \in Seq(Byte), Len(b) = w, NEW to \in BOOLEAN,
         ReadUint(b, to) = ToUnsigned(v, w)
  PROVE  /\ 2 * v < Capacity(w) => ReadInt(b, to) = v
         /\ v >= 0 => ReadUint(b, to) = v
<1> DEFINE p == Capacity(w)
           u == ToUnsigned(v, w)
<1>1. p \in Nat \ {0}
  <2>1. w \in 0 .. 8
    OBVIOUS
  <2> QED
    BY <2>1, PowerPositive DEF Capacity
<1>2. ReadInt(b, to) = IF 2 * u >= p THEN u - p ELSE u
  BY DEF ReadInt, ToSigned
<1>3. u = v % p
  BY DEF ToUnsigned
<1> HIDE DEF p, u
<1>4. v \in -(p \div 2) .. p - 1
  BY DEF p
<1>5. p \div 2 \in Int /\ 2 * (p \div 2) <= p
  BY <1>1
<1>6. v \in Int /\ 2 * v >= -p /\ v < p /\ -p <= v
  BY <1>1, <1>4, <1>5
<1>7. v >= 0 => u = v
  <2> SUFFICES ASSUME v >= 0 PROVE u = v
    OBVIOUS
  <2>1. v \in 0 .. p - 1 /\ p * 0 + v = v
    BY <1>1, <1>6
  <2> QED
    BY <1>1, <1>3, <2>1, Divided
<1>8. v < 0 => u = v + p
  <2> SUFFICES ASSUME v < 0 PROVE u = v + p
    OBVIOUS
  <2>1. v + p \in 0 .. p - 1 /\ -1 \in Int /\ p * (-1) + (v + p) = v
    BY <1>1, <1>6
  <2>2. (p * (-1) + (v + p)) % p = v + p
    BY <1>1, <2>1, Divided
  <2> QED
    BY <1>3, <2>1, <2>2
<1>9. 2 * v < p => ReadInt(b, to) = v
  BY <1>1, <1>2, <1>6, <1>7, <1>8
<1> QED
  BY <1>7, <1>9 DEF p, u

\* Both copies of an integer arrive.
LEMMA TransferIsRight ==
  ASSUME NEW width \in Widths, NEW from \in BOOLEAN, NEW to \in BOOLEAN,
         NEW v \in -(Capacity(width) \div 2) .. Capacity(width) - 1,
         Transfer(v, width, from, to)
  PROVE  IntegersArrive'
<1> DEFINE b == WriteInt(v, width, from)
           u == ToUnsigned(v, width)
           r(rest) == [signed |-> ReadInt(b, to), unsigned |-> ReadUint(b, to),
                       rest |-> rest]
<1>1. width \in 1 .. 8 /\ width \in 0 .. 8
  BY EndianAssumption DEF EndianAssumption
<1>2. v \in Int
  OBVIOUS
<1>3. /\ b = NetworkBytes(u, width) /\ b \in Seq(Byte) /\ Len(b) = width
      /\ ReadUint(b, to) = u
  BY <1>1, <1>2, ReadWritten
<1>4. b = BigEndian(v, width)
  BY <1>3 DEF NetworkBytes, BigEndian, Capacity
<1> HIDE DEF b, u
<1>5. /\ call' = [op |-> "transfer", value |-> v, width |-> width]
      /\ result' = [bytes |-> b \o b, first |-> Retrieve(b \o b, width, to),
                    second |-> Retrieve(Retrieve(b \o b, width, to).rest,
                                        width, to)]
  BY DEF Transfer, b
<1>6. Retrieve(b \o b, width, to) = r(b)
  BY <1>1, <1>3, RetrieveIs
<1>7. <<>> \in Seq(Byte) /\ b \o <<>> = b
  BY <1>3, EmptySeq, ConcatEmptySeq
<1>8. Retrieve(b, width, to) = r(<<>>)
  <2>1. Retrieve(b \o <<>>, width, to) = r(<<>>)
    BY <1>1, <1>3, <1>7, RetrieveIs
  <2> QED
    BY <1>7, <2>1
<1>9. result' = [bytes |-> b \o b, first |-> r(b), second |-> r(<<>>)]
  <2>1. r(b).rest = b
    OBVIOUS
  <2>2. Retrieve(Retrieve(b \o b, width, to).rest, width, to) = r(<<>>)
    BY <1>6, <1>8, <2>1
  <2> QED
    BY <1>5, <1>6, <2>2
<1>10. /\ 2 * v < Capacity(width) => ReadInt(b, to) = v
       /\ v >= 0 => ReadUint(b, to) = v
  BY <1>1, <1>3, SignIs DEF u
<1>11. SubSeq(b \o b, 1, width) = b
  <2>1. /\ b \o b \in Seq(Byte) /\ Len(b \o b) = width + width
        /\ \A i \in 1 .. width : (b \o b)[i] = b[i]
    BY <1>1, <1>3, ConcatProperties
  <2> DEFINE t == b \o b
             s == SubSeq(t, 1, width)
  <2>2. \A i \in 1 .. width : t[i] \in Byte
    BY <1>3, <2>1, ElementOfSeq
  <2> HIDE DEF t
  <2>3. /\ s \in Seq(Byte) /\ Len(s) = width
        /\ \A i \in 1 .. width : s[i] = t[i]
    <3>1. width \in Int /\ 1 \in Int /\ 1 <= width /\ width - 1 + 1 = width
          /\ \A i \in 1 .. width : 1 + i - 1 = i
      BY <1>1
    <3>2. /\ s \in Seq(Byte) /\ Len(s) = width
          /\ \A i \in 1 .. width - 1 + 1 : s[i] = t[1 + i - 1]
      BY <2>2, <3>1, SubSeqProperties
    <3> QED
      BY <3>1, <3>2
  <2> HIDE DEF s
  <2>4. \A i \in 1 .. width : s[i] = b[i]
    BY <2>1, <2>3 DEF t
  <2>5. s = b
    BY <1>3, <2>3, <2>4, SeqEqual
  <2> QED
    BY <2>5 DEF s, t
<1>12. call'.op = "transfer" /\ call'.value = v /\ call'.width = width
  BY <1>5
<1>13. /\ result'.first.signed = ReadInt(b, to)
       /\ result'.first.unsigned = ReadUint(b, to)
       /\ result'.second.signed = ReadInt(b, to)
       /\ result'.second.unsigned = ReadUint(b, to)
       /\ result'.second.rest = <<>> /\ result'.bytes = b \o b
  BY <1>9
<1> QED
  BY <1>4, <1>10, <1>11, <1>12, <1>13 DEF IntegersArrive

\* The bytes of a loopback address.
LEMMA LoopbackIs ==
  /\ INADDR_LOOPBACK \in 0 .. Power[4] - 1
  /\ NetworkBytes(INADDR_LOOPBACK, 4) = <<Radix \div 2 - 1, 0, 0, 1>>
<1> DEFINE h == Radix \div 2 - 1
           m == <<1, 0, 0, h>>
           v == Value(m, TRUE)
<1>1. h \in Byte /\ 1 \in Byte /\ 0 \in Byte /\ h \in Nat
  BY RadixProperties DEF Byte
<1> HIDE DEF h
<1>2. m \in Seq(Byte) /\ Len(m) = 4
  BY <1>1
<1>3. m[1] = 1 /\ m[2] = 0 /\ m[3] = 0 /\ m[4] = h
  OBVIOUS
<1> HIDE DEF m
<1>4. DigitsIn(m, TRUE) = m /\ Len(m) \in 0 .. 8 /\ 4 \in 0 .. 8
  BY <1>2 DEF DigitsIn
<1>5. PICK f : IsSum(f, m, 4) /\ v = f[4]
  <2>1. \E f : IsSum(f, DigitsIn(m, TRUE), Len(m)) /\ Value(m, TRUE) = f[Len(m)]
    BY <1>4, <1>2, ValueDefined
  <2> QED
    BY <1>4, <1>2, <2>1
<1>6. f[0] = 0 /\ f[1] = f[0] + m[1] * Power[0] /\ f[2] = f[1] + m[2] * Power[1]
      /\ f[3] = f[2] + m[3] * Power[2] /\ f[4] = f[3] + m[4] * Power[3]
  <2>1. \A k \in 1 .. 4 : f[k] = f[k - 1] + m[k] * Power[k - 1]
    BY <1>5 DEF IsSum
  <2> QED
    BY <1>5, <2>1 DEF IsSum
<1>7. /\ Power[0] = 1 /\ Power[1] \in Nat /\ Power[2] \in Nat
      /\ Power[3] \in Nat
  BY PowerDefined
<1>8. v = INADDR_LOOPBACK
  <2>1. f[3] = 1
    BY <1>3, <1>6, <1>7
  <2>2. h * Power[3] \in Nat
    BY <1>1, <1>7, ProductInt
  <2>3. f[4] = 1 + h * Power[3]
    BY <1>3, <1>6, <2>1
  <2> DEFINE a == h * Power[3]
  <2>4. INADDR_LOOPBACK = a + 1
    BY DEF INADDR_LOOPBACK, Capacity, h
  <2> HIDE DEF a
  <2> QED
    <3>1. a \in Nat /\ f[4] = 1 + a
      BY <2>2, <2>3 DEF a
    <3>2. f[4] = INADDR_LOOPBACK
      BY <2>4, <3>1
    <3> QED
      BY <1>5, <3>2
<1>9. v \in 0 .. Power[4] - 1 /\ Memory(v, 4, TRUE) = m
  BY <1>4, <1>2, MemoryOfValue
<1> HIDE DEF v
<1>10. v \in Nat
  BY <1>4, <1>9, PowerPositive
<1>11. NetworkBytes(v, 4) = Reverse(m)
  BY <1>4, <1>9, <1>10, NetworkBytesAre
<1>12. Reverse(m) = <<h, 0, 0, 1>>
  <2> DEFINE b == Reverse(m)
             c == <<h, 0, 0, 1>>
  <2>1. b \in Seq(Byte) /\ Len(b) = 4 /\ \A i \in 1 .. 4 : b[i] = m[4 - i + 1]
    <3>1. b \in Seq(Byte) /\ Len(b) = Len(m)
          /\ \A i \in 1 .. Len(m) : b[i] = m[Len(m) - i + 1]
      BY <1>2, Reversed
    <3> HIDE DEF b
    <3> QED
      BY <1>2, <3>1
  <2>2. c \in Seq(Byte) /\ Len(c) = 4
        /\ c[1] = h /\ c[2] = 0 /\ c[3] = 0 /\ c[4] = 1
    BY <1>1
  <2> HIDE DEF b, c
  <2>3. \A i \in 1 .. 4 : b[i] = c[i]
    BY <1>3, <2>1, <2>2
  <2>4. b = c
    BY <2>1, <2>2, <2>3, SeqEqual
  <2> QED
    BY <2>4 DEF b, c
<1> QED
  BY <1>8, <1>9, <1>11, <1>12 DEF h

\* Those of no address.
LEMMA AnyIs ==
  ASSUME NEW le \in BOOLEAN
  PROVE  Memory(INADDR_ANY, 4, le) = <<0, 0, 0, 0>>
<1> DEFINE m == Memory(0, 4, le)
           d == DigitsOf(0, 4)
           z == <<0, 0, 0, 0>>
<1>1. /\ d \in Seq(Byte) /\ Len(d) = 4 /\ m = DigitsIn(d, le)
  BY MemoryDefined
<1>2. \A k \in 1 .. 4 : d[k] = 0
  <2> SUFFICES ASSUME NEW k \in 1 .. 4
               PROVE  d[k] = 0
    OBVIOUS
  <2> DEFINE p == Power[k - 1]
  <2>1. p \in Nat \ {0}
    BY PowerPositive
  <2>2. d[k] = (0 \div p) % Radix
    BY DEF DigitsOf
  <2> HIDE DEF p, d
  <2>3. 0 \div p = 0
    BY <2>1
  <2>4. 0 % Radix = 0
    BY RadixProperties
  <2> QED
    BY <2>2, <2>3, <2>4
<1>3. z \in Seq(Byte) /\ Len(z) = 4 /\ \A i \in 1 .. 4 : z[i] = 0
  BY RadixProperties DEF Byte
<1> HIDE DEF d, m, z
<1>4. m \in Seq(Byte) /\ Len(m) = 4 /\ \A i \in 1 .. 4 : m[i] = 0
  <2>1. \A i \in 1 .. 4 : 4 - i + 1 \in 1 .. 4
    OBVIOUS
  <2> QED
    BY <1>1, <1>2, <2>1, Reversed DEF DigitsIn
<1>5. \A i \in 1 .. 4 : m[i] = z[i]
  BY <1>3, <1>4
<1>6. m = z
  BY <1>3, <1>4, <1>5, SeqEqual
<1> QED
  BY <1>6 DEF m, z, INADDR_ANY

\* A port and an address are what the kernel reads.
LEMMA AddressIsRight ==
  ASSUME NEW port \in 0 .. Capacity(2) - 1, NEW loopBack \in BOOLEAN,
         NEW ipv6 \in BOOLEAN, NEW host \in BOOLEAN,
         Resolve(port, loopBack, ipv6, host)
  PROVE  IntegersArrive'
<1> DEFINE net == HostToNetwork(port, 2, host)
           address == IpAddressOf(port, loopBack, ipv6, host)
<1>1. port \in 0 .. Power[2] - 1
  BY DEF Capacity
<1>2. net \in 0 .. Power[2] - 1 /\ Memory(net, 2, host) = NetworkBytes(port, 2)
  BY <1>1, HostToNetworkIs
<1> HIDE DEF net
<1>3. NetworkToHost(net, 2, host) = port
  BY <1>1, <1>2, NetworkToHostIs
<1>4. NetworkBytes(port, 2) = BigEndian(port, 2)
  <2>1. ToUnsigned(port, 2) = port
    <3> DEFINE p == Power[2]
    <3>1. p \in Nat \ {0}
      BY PowerPositive
    <3>2. ToUnsigned(port, 2) = port % p
      BY DEF ToUnsigned, Capacity
    <3> HIDE DEF p
    <3>3. port \in 0 .. p - 1
      BY <1>1 DEF p
    <3>4. p * 0 + port = port
      BY <3>1, <3>3
    <3>5. (p * 0 + port) % p = port
      BY <3>1, <3>3, Divided
    <3> QED
      BY <3>2, <3>4, <3>5
  <2> QED
    BY <2>1 DEF NetworkBytes, BigEndian, Capacity
<1>5. /\ address.port = net /\ Port(address, host) = port
      /\ Ipv6(address) = ipv6
  <2>1. /\ address.port = net
        /\ address.family = IF ipv6 THEN "AF_INET6" ELSE "AF_INET"
    BY DEF IpAddressOf, net
  <2> HIDE DEF address
  <2> QED
    BY <1>3, <2>1 DEF Port, Ipv6
<1>6. ASSUME ~ipv6
      PROVE  Memory(address.addr, 4, host) =
               IF loopBack THEN <<Radix \div 2 - 1, 0, 0, 1>> ELSE <<0, 0, 0, 0>>
  <2>1. CASE loopBack
    <3>1. address.addr = HostToNetwork(INADDR_LOOPBACK, 4, host)
      BY <1>6, <2>1 DEF IpAddressOf
    <3>2. Memory(HostToNetwork(INADDR_LOOPBACK, 4, host), 4, host)
            = NetworkBytes(INADDR_LOOPBACK, 4)
      BY LoopbackIs, HostToNetworkIs
    <3> QED
      BY <2>1, <3>1, <3>2, LoopbackIs
  <2>2. CASE ~loopBack
    <3>1. address.addr = INADDR_ANY
      BY <1>6, <2>2 DEF IpAddressOf
    <3> QED
      BY <2>2, <3>1, AnyIs
  <2> QED
    BY <2>1, <2>2
<1>7. /\ call' = [op |-> "address", port |-> port, loopBack |-> loopBack,
                  ipv6 |-> ipv6]
      /\ result' = [port |-> Port(address, host), ipv6 |-> Ipv6(address),
                    sent |-> Memory(address.port, 2, host),
                    addr |-> IF ipv6 THEN <<>>
                                     ELSE Memory(address.addr, 4, host)]
  BY DEF Resolve
<1> HIDE DEF address
<1>8. /\ call'.op = "address" /\ call'.port = port /\ call'.loopBack = loopBack
      /\ call'.ipv6 = ipv6
  BY <1>7
<1>9. /\ result'.port = port /\ result'.ipv6 = ipv6
      /\ result'.sent = BigEndian(port, 2)
      /\ ~ipv6 => result'.addr = Memory(address.addr, 4, host)
  BY <1>2, <1>4, <1>5, <1>7
<1>10. /\ result'.port = call'.port /\ result'.ipv6 = call'.ipv6
       /\ result'.sent = BigEndian(call'.port, 2)
       /\ ~call'.ipv6 =>
            result'.addr = IF call'.loopBack THEN <<Radix \div 2 - 1, 0, 0, 1>>
                                             ELSE <<0, 0, 0, 0>>
  BY <1>6, <1>8, <1>9
<1>11. call'.op # "transfer"
  BY <1>8
<1> QED
  BY <1>10, <1>11 DEF IntegersArrive

\* Every call keeps the invariant.
LEMMA IntegersStep == IntegersArrive /\ [Next]_vars => IntegersArrive'
<1> SUFFICES ASSUME IntegersArrive, [Next]_vars
             PROVE  IntegersArrive'
  OBVIOUS
<1>1. CASE UNCHANGED vars
  BY <1>1 DEF vars, IntegersArrive
<1>2. ASSUME NEW s, NEW p, Search(s, p)
      PROVE  IntegersArrive'
  BY <1>2 DEF Search, IntegersArrive
<1>3. ASSUME NEW s, NEW delim, Divide(s, delim)
      PROVE  IntegersArrive'
  BY <1>3 DEF Divide, IntegersArrive
<1>4. ASSUME NEW width \in Widths, NEW from \in BOOLEAN, NEW to \in BOOLEAN,
             NEW v \in -(Capacity(width) \div 2) .. Capacity(width) - 1,
             Transfer(v, width, from, to)
      PROVE  IntegersArrive'
  BY <1>4, TransferIsRight
<1>5. ASSUME NEW port \in 0 .. Capacity(2) - 1, NEW loopBack \in BOOLEAN,
             NEW ipv6 \in BOOLEAN, NEW host \in BOOLEAN,
             Resolve(port, loopBack, ipv6, host)
      PROVE  IntegersArrive'
  BY <1>5, AddressIsRight
<1>6. ASSUME NEW year, NEW month, NEW milli, NEW micro,
             Format(year, month, 1, milli, micro)
      PROVE  IntegersArrive'
  BY <1>6 DEF Format, IntegersArrive
<1>7. ASSUME NEW year, NEW month, NEW day, NEW n, Shift(year, month, day, n)
      PROVE  IntegersArrive'
  BY <1>7 DEF Shift, IntegersArrive
<1>8. CASE Next
  BY <1>2, <1>3, <1>4, <1>5, <1>6, <1>7, <1>8 DEF Next
<1> QED
  BY <1>1, <1>8

\* Buffer's and Endian's integers: what one host wrote with writeInt another one
\* retrieves with the value it had, for every width up to eight bytes and
\* whichever order either keeps its bytes in, and the next one follows whole; the
\* port and the address of IpAddress are in the memory of any host what the
\* kernel reads there.
THEOREM IntegersCorrect == Spec => []IntegersArrive
<1>1. Init => IntegersArrive
  BY DEF Init, IntegersArrive
<1> QED
  BY <1>1, IntegersStep, PTL DEF Spec

-----------------------------------------------------------------------------
(* The search: borders, the table of find and its scan.                    *)

\* The first j characters of p stand in t and end at its character i.
Stands(t, p, i, j) ==
  j \in 0 .. i /\ j <= Len(p) /\ \A x \in 1 .. j : t[i - j + x] = p[x]

\* No more of p does.
Longest(t, p, i, j) ==
  Stands(t, p, i, j) /\ \A k \in Nat : Stands(t, p, i, k) => k <= j

\* p without its first character: what stands here up to character k - 1 and is
\* a beginning of p is a border of the prefix of length k.
Shifted(p) == [y \in Nat |-> p[y + 1]]

\* What stands shorter is a border of what stands longer.
LEMMA Overlap ==
  ASSUME NEW t, NEW p, Len(p) \in Nat, NEW i \in Nat, NEW j \in Nat, NEW k \in Nat,
         Stands(t, p, i, j), Stands(t, p, i, k), k < j
  PROVE  Stands(Shifted(p), p, j - 1, k)
<1>1. k \in 0 .. j - 1 /\ k <= Len(p)
  BY DEF Stands
<1>2. ASSUME NEW x \in 1 .. k
      PROVE  Shifted(p)[j - 1 - k + x] = p[x]
  <2> DEFINE y == j - k + x
  <2>1. /\ j - 1 - k + x \in Nat /\ j - 1 - k + x + 1 = y
        /\ y \in 1 .. j /\ i - j + y = i - k + x
    BY <1>1
  <2>2. Shifted(p)[j - 1 - k + x] = p[y]
    BY <2>1 DEF Shifted
  <2> HIDE DEF y
  <2>3. t[i - j + y] = p[y]
    BY <2>1 DEF Stands
  <2>4. t[i - k + x] = p[x]
    BY DEF Stands
  <2> QED
    BY <2>1, <2>2, <2>3, <2>4
<1> QED
  BY <1>1, <1>2 DEF Stands

\* A border of what stands, stands.
LEMMA Transitive ==
  ASSUME NEW t, NEW p, Len(p) \in Nat,
         NEW i \in Nat, NEW j \in Nat \ {0}, NEW k \in Nat,
         Stands(t, p, i, j), Stands(Shifted(p), p, j - 1, k)
  PROVE  Stands(t, p, i, k)
<1>1. k \in 0 .. j - 1 /\ k <= Len(p) /\ k \in 0 .. i
  BY DEF Stands
<1>2. ASSUME NEW x \in 1 .. k
      PROVE  t[i - k + x] = p[x]
  <2> DEFINE y == j - k + x
  <2>1. /\ j - 1 - k + x \in Nat /\ j - 1 - k + x + 1 = y
        /\ y \in 1 .. j /\ i - j + y = i - k + x
    BY <1>1
  <2>2. Shifted(p)[j - 1 - k + x] = p[y]
    BY <2>1 DEF Shifted
  <2> HIDE DEF y
  <2>3. t[i - j + y] = p[y]
    BY <2>1 DEF Stands
  <2>4. Shifted(p)[j - 1 - k + x] = p[x]
    BY DEF Stands
  <2> QED
    BY <2>1, <2>2, <2>3, <2>4
<1> QED
  BY <1>1, <1>2 DEF Stands

\* One character more stands at the next position exactly when it is the one there.
Grows(t, p, i) ==
  \A k \in Nat : Stands(t, p, i + 1, k + 1)
                   <=> Stands(t, p, i, k) /\ k < Len(p) /\ p[k + 1] = t[i + 1]

\* So it is for any text and pattern.
LEMMA Grow ==
  ASSUME NEW t, NEW p, Len(p) \in Nat, NEW i \in Nat
  PROVE  Grows(t, p, i)
<1> SUFFICES ASSUME NEW k \in Nat
             PROVE  Stands(t, p, i + 1, k + 1)
                      <=> Stands(t, p, i, k) /\ k < Len(p) /\ p[k + 1] = t[i + 1]
  BY DEF Grows
<1>1. /\ k + 1 \in 0 .. i + 1 <=> k \in 0 .. i
      /\ k + 1 <= Len(p) <=> k < Len(p)
      /\ k + 1 \in 1 .. k + 1
      /\ i + 1 - (k + 1) + (k + 1) = i + 1
  OBVIOUS
<1>2. \A x \in 1 .. k : x \in 1 .. k + 1 /\ i + 1 - (k + 1) + x = i - k + x
  OBVIOUS
<1>3. \A x \in 1 .. k + 1 : x = k + 1 \/ x \in 1 .. k
  OBVIOUS
<1>4. (\A x \in 1 .. k + 1 : t[i + 1 - (k + 1) + x] = p[x])
        <=> t[i + 1] = p[k + 1] /\ \A x \in 1 .. k : t[i - k + x] = p[x]
  <2>1. ASSUME \A x \in 1 .. k + 1 : t[i + 1 - (k + 1) + x] = p[x]
        PROVE  t[i + 1] = p[k + 1] /\ \A x \in 1 .. k : t[i - k + x] = p[x]
    <3>1. t[i + 1 - (k + 1) + (k + 1)] = p[k + 1]
      BY <1>1, <2>1
    <3>2. \A x \in 1 .. k : t[i + 1 - (k + 1) + x] = p[x]
      BY <1>2, <2>1
    <3> QED
      BY <1>1, <1>2, <3>1, <3>2
  <2>2. ASSUME t[i + 1] = p[k + 1], \A x \in 1 .. k : t[i - k + x] = p[x],
               NEW x \in 1 .. k + 1
        PROVE  t[i + 1 - (k + 1) + x] = p[x]
    <3>1. CASE x = k + 1
      BY <1>1, <2>2, <3>1
    <3>2. CASE x \in 1 .. k
      BY <1>2, <2>2, <3>2
    <3> QED
      BY <1>3, <3>1, <3>2
  <2> QED
    BY <2>1, <2>2
<1>5. k < Len(p) => k <= Len(p)
  OBVIOUS
<1> QED
  BY <1>1, <1>4, <1>5 DEF Stands

\* The definition of Extend's loop.
IsFallBack(f, p, c, n, next) ==
  f = [k \in 0 .. n |-> IF p[k + 1] = c THEN k + 1
                         ELSE IF k = 0 THEN 0 ELSE f[next[k]]]

\* The loop of Extend ends: it falls back to a shorter prefix each time.
LEMMA FallBackDefined ==
  ASSUME NEW p, NEW c, NEW j \in Nat, NEW next,
         \A k \in 1 .. j : next[k] \in 0 .. k - 1
  PROVE  \E f : IsFallBack(f, p, c, j, next)
<1> DEFINE P(n) == \E f : IsFallBack(f, p, c, n, next)
           T == {n \in Nat : P(n)}
<1>1. 0 \in T
  <2> DEFINE f == [k \in 0 .. 0 |-> IF p[k + 1] = c THEN k + 1 ELSE 0]
  <2>1. f = [k \in 0 .. 0 |-> IF p[k + 1] = c THEN k + 1
                                      ELSE IF k = 0 THEN 0 ELSE f[next[k]]]
    OBVIOUS
  <2> HIDE DEF f
  <2>2. P(0)
    BY <2>1 DEF IsFallBack
  <2> QED
    BY <2>2
<1>2. ASSUME NEW n \in 1 .. j, n - 1 \in T
      PROVE  n \in T
  <2>1. PICK f : f = [k \in 0 .. n - 1 |-> IF p[k + 1] = c THEN k + 1
                                      ELSE IF k = 0 THEN 0 ELSE f[next[k]]]
    BY <1>2 DEF IsFallBack
  <2>2. /\ n \in Nat /\ n # 0
        /\ \A k \in 0 .. n - 1 : k \in 0 .. n /\ k # n
        /\ \A k \in 0 .. n : k # n => k \in 0 .. n - 1
        /\ \A k \in 0 .. n : k # 0 => next[k] \in 0 .. n - 1
    OBVIOUS
  <2> DEFINE x == IF p[n + 1] = c THEN n + 1 ELSE f[next[n]]
             g == [k \in 0 .. n |-> IF k = n THEN x ELSE f[k]]
  <2>3. \A k \in 0 .. n - 1 : g[k] = f[k]
    BY <2>2
  <2>4. n \in 0 .. n /\ g[n] = x
    OBVIOUS
  <2>5. \A k \in 0 .. n - 1 : f[k] = IF p[k + 1] = c THEN k + 1
                                     ELSE IF k = 0 THEN 0 ELSE f[next[k]]
    BY <2>1
  <2>6. g = [k \in 0 .. n |-> g[k]]
    OBVIOUS
  <2> HIDE DEF g
  <2>7. \A k \in 0 .. n : g[k] = IF p[k + 1] = c THEN k + 1
                                 ELSE IF k = 0 THEN 0 ELSE g[next[k]]
    <3> TAKE k \in 0 .. n
    <3>1. CASE k = n
      BY <2>2, <2>3, <2>4, <3>1
    <3>2. CASE k # n
      BY <2>2, <2>3, <2>5, <3>2
    <3> QED
      BY <3>1, <3>2
  <2>8. P(n)
    BY <2>6, <2>7 DEF IsFallBack
  <2> QED
    BY <2>2, <2>8
<1> HIDE DEF T
<1>3. \A n \in 0 .. j : n \in T
  BY <1>1, <1>2, Induction
<1>4. j \in T
  BY <1>3
<1> QED
  BY <1>4 DEF T

\* What the loop computes from each length it falls back to.
FallsBack(f, p, c, j, next) ==
  \A k \in 0 .. j : /\ p[k + 1] = c => f[k] = k + 1
                    /\ p[k + 1] # c /\ k = 0 => f[k] = 0
                    /\ p[k + 1] # c /\ k # 0 => f[k] = f[next[k]]

\* The loop leads from length j to length r.
FallsBackTo(p, c, j, next, r) ==
  \E f : FallsBack(f, p, c, j, next) /\ r = f[j]

\* Extend is what that loop has at the length it starts from.
LEMMA ExtendDefined ==
  ASSUME NEW p, NEW c, NEW j \in Nat, NEW next,
         \A k \in 1 .. j : next[k] \in 0 .. k - 1
  PROVE  FallsBackTo(p, c, j, next, Extend(p, next, j, c))
<1> DEFINE from == CHOOSE f : f = [k \in 0 .. j |-> IF p[k + 1] = c THEN k + 1
                                      ELSE IF k = 0 THEN 0 ELSE f[next[k]]]
<1>1. Extend(p, next, j, c) = from[j]
  BY DEF Extend
<1>2. PICK f : IsFallBack(f, p, c, j, next)
  BY FallBackDefined
<1>3. f = [k \in 0 .. j |-> IF p[k + 1] = c THEN k + 1
                            ELSE IF k = 0 THEN 0 ELSE f[next[k]]]
  BY <1>2 DEF IsFallBack
<1>4. from = [k \in 0 .. j |-> IF p[k + 1] = c THEN k + 1
                               ELSE IF k = 0 THEN 0 ELSE from[next[k]]]
  BY <1>3, Zenon
<1> HIDE DEF from
<1>5. \A k \in 0 .. j : from[k] = IF p[k + 1] = c THEN k + 1
                                  ELSE IF k = 0 THEN 0 ELSE from[next[k]]
  BY <1>4
<1>6. FallsBack(from, p, c, j, next)
  BY <1>5 DEF FallsBack
<1> QED
  BY <1>1, <1>6 DEF FallsBackTo

\* next holds the longest border of each prefix of p up to length n.
Borders(p, next, n) ==
  \A k \in 1 .. n : /\ next[k] \in 0 .. k - 1
                    /\ Longest(Shifted(p), p, k - 1, next[k])

\* From the longest that stands at i, Extend finds the longest at i + 1: the
\* borders it falls back to miss none.
LEMMA ExtendLongest ==
  ASSUME NEW t, NEW p, Len(p) \in Nat, NEW next, NEW i \in Nat, NEW j \in Nat,
         Longest(t, p, i, j), j < Len(p), Borders(p, next, j)
  PROVE  /\ Extend(p, next, j, t[i + 1]) \in Nat
         /\ Longest(t, p, i + 1, Extend(p, next, j, t[i + 1]))
<1>1. \A k \in 1 .. j : next[k] \in 0 .. k - 1
  BY DEF Borders
<1>2. Grows(t, p, i)
  BY Grow
<1> DEFINE c == t[i + 1]
<1>3. c = t[i + 1]
  OBVIOUS
<1> HIDE DEF c
<1>4. PICK f : FallsBack(f, p, c, j, next) /\ Extend(p, next, j, c) = f[j]
  <2>1. FallsBackTo(p, c, j, next, Extend(p, next, j, c))
    BY <1>1, ExtendDefined
  <2> QED
    BY <2>1 DEF FallsBackTo
<1> DEFINE Q(k) == /\ Stands(t, p, i, k)
                   /\ \A m \in Nat : Stands(t, p, i + 1, m) => m <= k + 1
           T == {k \in Nat : Q(k) => f[k] \in Nat /\ Longest(t, p, i + 1, f[k])}
<1>5. ASSUME NEW k \in 0 .. j, \A m \in 0 .. k - 1 : m \in T
      PROVE  k \in T
  <2> SUFFICES ASSUME Q(k)
               PROVE  f[k] \in Nat /\ Longest(t, p, i + 1, f[k])
    OBVIOUS
  <2>1. k \in Nat /\ k < Len(p)
    OBVIOUS
  <2>2. CASE p[k + 1] = t[i + 1]
    <3>1. f[k] = k + 1
      BY <1>4, <1>3, <2>2 DEF FallsBack
    <3>2. Stands(t, p, i + 1, k + 1)
      BY <2>1, <2>2, <1>2 DEF Grows
    <3> QED
      BY <2>1, <3>1, <3>2 DEF Longest
  <2>3. CASE p[k + 1] # t[i + 1] /\ k = 0
    <3>1. f[k] = 0
      BY <1>4, <1>3, <2>3 DEF FallsBack
    <3>2. Stands(t, p, i + 1, 0)
      BY DEF Stands
    <3>3. ~ Stands(t, p, i + 1, 0 + 1)
      BY <2>3, <1>2 DEF Grows
    <3>4. \A m \in Nat : Stands(t, p, i + 1, m) => m <= 0
      BY <2>3, <3>3
    <3> QED
      BY <3>1, <3>2, <3>4 DEF Longest
  <2>4. CASE p[k + 1] # t[i + 1] /\ k # 0
    <3>1. f[k] = f[next[k]]
      BY <1>4, <1>3, <2>4 DEF FallsBack
    <3>2. k \in 1 .. j
      BY <2>4
    <3>3. next[k] \in 0 .. k - 1 /\ Longest(Shifted(p), p, k - 1, next[k])
      BY <3>2 DEF Borders
    <3>4. Stands(t, p, i, next[k])
      BY <3>2, <3>3, Transitive DEF Longest
    <3>5. ASSUME NEW m \in Nat, Stands(t, p, i + 1, m)
          PROVE  m <= next[k] + 1
      <4>1. CASE m = 0
        BY <3>3, <4>1
      <4>2. CASE m # 0
        <5> DEFINE l == m - 1
        <5>1. l \in Nat /\ m = l + 1
          BY <4>2
        <5> HIDE DEF l
        <5>2. Stands(t, p, i + 1, l + 1)
          BY <3>5, <5>1
        <5>3. Stands(t, p, i, l) /\ l < Len(p) /\ p[l + 1] = t[i + 1]
          BY <5>1, <5>2, <1>2 DEF Grows
        <5>4. m <= k + 1
          BY <3>5
        <5>5. l < k
          BY <2>4, <5>1, <5>3, <5>4
        <5>6. Stands(Shifted(p), p, k - 1, l)
          BY <5>1, <5>3, <5>5, Overlap
        <5>7. l <= next[k]
          BY <3>3, <5>1, <5>6 DEF Longest
        <5> QED
          BY <3>3, <5>1, <5>7
      <4> QED
        BY <4>1, <4>2
    <3>6. next[k] \in T /\ next[k] \in Nat
      BY <1>5, <3>3
    <3>7. Q(next[k])
      BY <3>4, <3>5
    <3> HIDE DEF Q
    <3> QED
      BY <3>1, <3>6, <3>7
  <2> QED
    BY <2>2, <2>3, <2>4
<1>6. ASSUME NEW m \in Nat, Stands(t, p, i + 1, m)
      PROVE  m <= j + 1
  <2>1. CASE m = 0
    BY <2>1
  <2>2. CASE m # 0
    <3> DEFINE l == m - 1
    <3>1. l \in Nat /\ m = l + 1
      BY <2>2
    <3> HIDE DEF l
    <3>2. Stands(t, p, i, l)
      BY <1>6, <3>1, <1>2 DEF Grows
    <3> QED
      BY <3>1, <3>2 DEF Longest
  <2> QED
    BY <2>1, <2>2
<1>7. Q(j)
  BY <1>6 DEF Longest
<1> HIDE DEF T
<1>8. \A k \in 0 .. j : k \in T
  BY <1>5, Descent
<1>9. j \in T
  BY <1>8
<1> HIDE DEF Q
<1>10. f[j] \in Nat /\ Longest(t, p, i + 1, f[j])
  BY <1>7, <1>9 DEF T
<1> QED
  BY <1>4, <1>3, <1>10

\* A table for the prefixes of p up to length n.
Tables(p, n) == {next \in Seq(Nat) : Len(next) = n /\ Borders(p, next, n)}

\* The table for the first character.
LEMMA FirstTable ==
  ASSUME NEW p, Len(p) \in Nat \ {0}
  PROVE  <<0>> \in Tables(p, 1)
<1> DEFINE next == <<0>>
<1>1. next \in Seq(Nat) /\ Len(next) = 1 /\ next[1] = 0
  OBVIOUS
<1> HIDE DEF next
<1>2. Longest(Shifted(p), p, 0, 0)
  BY DEF Longest, Stands
<1>3. \A k \in 1 .. 1 : next[k] = 0 /\ k - 1 = 0
  BY <1>1
<1>4. Borders(p, next, 1)
  BY <1>2, <1>3 DEF Borders
<1>5. next \in Tables(p, 1)
  BY <1>1, <1>4 DEF Tables
<1> QED
  BY <1>5 DEF next

\* A round of the first loop of find makes the table one longer.
LEMMA NextTable ==
  ASSUME NEW p, Len(p) \in Nat, NEW n \in 1 .. Len(p) - 1, NEW next \in Tables(p, n)
  PROVE  Append(next, Extend(p, next, next[n], p[n + 1])) \in Tables(p, n + 1)
<1> DEFINE t == Shifted(p)
           i == n - 1
           j == next[n]
<1>1. next \in Seq(Nat) /\ Len(next) = n /\ Borders(p, next, n)
  BY DEF Tables
<1>2. i \in Nat /\ n \in Nat /\ i + 1 = n /\ n \in 1 .. n
  OBVIOUS
<1>3. j \in 0 .. n - 1 /\ Longest(t, p, i, j)
  BY <1>1, <1>2 DEF Borders
<1>4. Borders(p, next, j)
  <2>1. \A k \in 1 .. j : k \in 1 .. n
    BY <1>2, <1>3
  <2> QED
    BY <1>1, <2>1 DEF Borders
<1>5. t[i + 1] = p[n + 1]
  BY <1>2 DEF Shifted
<1>6. j \in Nat /\ j < Len(p)
  BY <1>3
<1> HIDE DEF t, i, j
<1> DEFINE v == Extend(p, next, j, t[i + 1])
<1>7. v \in Nat /\ Longest(t, p, i + 1, v)
  BY <1>2, <1>3, <1>4, <1>6, ExtendLongest, Zenon
<1>8. Append(next, Extend(p, next, next[n], p[n + 1])) = Append(next, v)
  BY <1>5 DEF j
<1> HIDE DEF v
<1>9. v \in 0 .. n /\ Longest(t, p, n, v)
  BY <1>2, <1>7 DEF Longest, Stands
<1> DEFINE w == Append(next, v)
<1>10. /\ w \in Seq(Nat) /\ Len(w) = n + 1
       /\ \A k \in 1 .. n : w[k] = next[k]
       /\ w[n + 1] = v
  BY <1>1, <1>7, AppendProperties
<1> HIDE DEF w
<1>11. \A k \in 1 .. n + 1 : k \in 1 .. n \/ k = n + 1
  BY <1>2
<1>12. ASSUME NEW k \in 1 .. n + 1
       PROVE  w[k] \in 0 .. k - 1 /\ Longest(t, p, k - 1, w[k])
  <2>1. CASE k \in 1 .. n
    <3>1. w[k] = next[k]
      BY <1>10, <2>1
    <3>2. next[k] \in 0 .. k - 1 /\ Longest(t, p, k - 1, next[k])
      BY <1>1, <2>1 DEF Borders, t
    <3> QED
      BY <3>1, <3>2
  <2>2. CASE k = n + 1
    <3>1. k - 1 = n /\ w[k] = v
      BY <1>2, <1>10, <2>2
    <3> QED
      BY <1>9, <3>1
  <2> QED
    BY <1>11, <2>1, <2>2
<1>13. Borders(p, w, n + 1)
  BY <1>12 DEF Borders, t
<1>14. w \in Tables(p, n + 1)
  BY <1>10, <1>13 DEF Tables
<1> QED
  BY <1>8, <1>14 DEF w

\* The table of find is that of all prefixes.
LEMMA TableDefined ==
  ASSUME NEW p, Len(p) \in Nat \ {0}
  PROVE  Table(p) \in Tables(p, Len(p))
<1> DEFINE N == Len(p) - 1
           S == [n \in 0 .. N |-> Tables(p, n + 1)]
           step == [n \in 1 .. N |-> [next \in Seq(Nat) |->
                      Append(next, Extend(p, next, next[n], p[n + 1]))]]
           table == CHOOSE f : f = [n \in 0 .. N |-> IF n = 0 THEN <<0>>
                        ELSE Append(f[n - 1],
                                    Extend(p, f[n - 1], f[n - 1][n], p[n + 1]))]
<1>1. Table(p) = table[N]
  BY DEF Table
<1>2. N \in Nat /\ N + 1 = Len(p) /\ 0 \in 0 .. N /\ N \in 0 .. N
  OBVIOUS
<1>3. \A n \in 1 .. N : n \in 0 .. N /\ n - 1 \in 0 .. N /\ n - 1 + 1 = n /\ n # 0
                        /\ n \in 1 .. Len(p) - 1
  OBVIOUS
<1> HIDE DEF N
<1>4. \A n \in 0 .. N : S[n] = Tables(p, n + 1)
  OBVIOUS
<1>5. \A n \in 1 .. N : S[n - 1] = Tables(p, n)
  BY <1>3, <1>4
<1>6. <<0>> \in S[0]
  BY <1>2, <1>4, FirstTable
<1>7. \A n \in 1 .. N : \A next \in Seq(Nat) :
        step[n][next] = Append(next, Extend(p, next, next[n], p[n + 1]))
  OBVIOUS
<1> HIDE DEF S, step
<1>8. \A n \in 1 .. N : \A next \in S[n - 1] :
        /\ next \in Seq(Nat)
        /\ Append(next, Extend(p, next, next[n], p[n + 1])) \in S[n]
  <2> TAKE n \in 1 .. N
  <2> TAKE next \in S[n - 1]
  <2>1. next \in Tables(p, n)
    BY <1>5
  <2>2. n \in 1 .. Len(p) - 1
    BY <1>3
  <2>3. Append(next, Extend(p, next, next[n], p[n + 1])) \in Tables(p, n + 1)
    BY <2>1, <2>2, NextTable
  <2> QED
    BY <1>3, <1>4, <2>1, <2>3 DEF Tables
<1>9. \A n \in 1 .. N : \A next \in S[n - 1] : step[n][next] \in S[n]
  BY <1>7, <1>8
<1>10. PICK h : IsLoop(h, N, <<0>>, step) /\ \A n \in 0 .. N : h[n] \in S[n]
  BY <1>2, <1>6, <1>9, LoopExists
<1>11. h = [n \in 0 .. N |-> IF n = 0 THEN <<0>>
                        ELSE Append(h[n - 1],
                                    Extend(p, h[n - 1], h[n - 1][n], p[n + 1]))]
  <2>1. h = [n \in 0 .. N |-> IF n = 0 THEN <<0>> ELSE step[n][h[n - 1]]]
    BY <1>10 DEF IsLoop
  <2>2. \A n \in 0 .. N : n # 0 => n \in 1 .. N
    BY <1>2
  <2>3. \A n \in 1 .. N : step[n][h[n - 1]]
          = Append(h[n - 1], Extend(p, h[n - 1], h[n - 1][n], p[n + 1]))
    <3> TAKE n \in 1 .. N
    <3>1. h[n - 1] \in S[n - 1]
      BY <1>3, <1>10
    <3>2. h[n - 1] \in Seq(Nat)
      BY <1>8, <3>1
    <3> QED
      BY <1>7, <3>2
  <2> QED
    BY <2>1, <2>2, <2>3
<1>12. table = [n \in 0 .. N |-> IF n = 0 THEN <<0>>
                  ELSE Append(table[n - 1],
                              Extend(p, table[n - 1], table[n - 1][n], p[n + 1]))]
  BY <1>11, Zenon
<1> HIDE DEF table
<1>13. table[0] = <<0>>
  BY <1>2, <1>12
<1>14. \A n \in 1 .. N : table[n] = Append(table[n - 1],
                              Extend(p, table[n - 1], table[n - 1][n], p[n + 1]))
  BY <1>3, <1>12
<1>15. \A n \in 1 .. N : table[n - 1] \in S[n - 1] => table[n] \in S[n]
  BY <1>8, <1>14
<1>16. \A n \in 0 .. N : table[n] \in S[n]
  BY <1>2, <1>6, <1>13, <1>15, LoopInvariant
<1> QED
  BY <1>1, <1>2, <1>4, <1>16

\* All of p stands in s and ends at e, and did not end before.
FirstEnd(s, p, e) ==
  Stands(s, p, e, Len(p)) /\ \A d \in 0 .. e - 1 : ~ Stands(s, p, d, Len(p))

\* What find has after i characters of s: no match and the longest beginning of
\* p that could still become one, or the first match.
Found(s, p, i) ==
  {a \in [j : Nat, found : Int] :
     \/ /\ a.found = npos /\ Longest(s, p, i, a.j) /\ a.j < Len(p)
        /\ \A d \in 0 .. i : ~ Stands(s, p, d, Len(p))
     \/ a.found # npos /\ \E e \in 0 .. i : a.found = e - Len(p) /\ FirstEnd(s, p, e)}

\* What the second loop of find starts with.
LEMMA NothingFound ==
  ASSUME NEW s, NEW p, Len(p) \in Nat \ {0}
  PROVE  [j |-> 0, found |-> npos] \in Found(s, p, 0)
<1>1. Longest(s, p, 0, 0)
  BY DEF Longest, Stands
<1>2. \A d \in 0 .. 0 : ~ Stands(s, p, d, Len(p))
  BY DEF Stands
<1> QED
  BY <1>1, <1>2 DEF Found, npos

\* A round of find.
Round(s, p, next, i, a) ==
  IF a.found # npos THEN a
  ELSE LET j == Extend(p, next, a.j, s[i]) IN
       [j |-> j, found |-> IF j = Len(p) THEN i - j ELSE npos]

\* A round skips no match.
LEMMA RoundFinds ==
  ASSUME NEW s, NEW p, Len(p) \in Nat \ {0}, NEW next \in Tables(p, Len(p)),
         NEW i \in Nat \ {0}, NEW a \in Found(s, p, i - 1)
  PROVE  Round(s, p, next, i, a) \in Found(s, p, i)
<1> DEFINE h == i - 1
<1>1. h \in Nat /\ h + 1 = i /\ i \in Nat
  OBVIOUS
<1>2. a \in Found(s, p, h)
  OBVIOUS
<1> HIDE DEF h
<1>3. a \in [j : Nat, found : Int]
  BY <1>2 DEF Found
<1>4. CASE a.found # npos
  <2>1. PICK e \in 0 .. h : a.found = e - Len(p) /\ FirstEnd(s, p, e)
    BY <1>2, <1>4 DEF Found
  <2>2. e \in 0 .. i
    BY <1>1, <2>1
  <2>3. a \in Found(s, p, i)
    BY <1>3, <1>4, <2>1, <2>2 DEF Found
  <2> QED
    BY <1>4, <2>3 DEF Round
<1>5. CASE a.found = npos
  <2>1. /\ Longest(s, p, h, a.j) /\ a.j < Len(p) /\ a.j \in Nat
        /\ \A d \in 0 .. h : ~ Stands(s, p, d, Len(p))
    BY <1>2, <1>3, <1>5 DEF Found
  <2>2. Borders(p, next, a.j)
    <3>1. \A k \in 1 .. a.j : k \in 1 .. Len(p)
      BY <2>1
    <3> QED
      BY <3>1 DEF Tables, Borders
  <2> DEFINE j == Extend(p, next, a.j, s[h + 1])
  <2>3. j \in Nat /\ Longest(s, p, h + 1, j)
    BY <1>1, <2>1, <2>2, ExtendLongest, Zenon
  <2>4. Round(s, p, next, i, a)
          = [j |-> j, found |-> IF j = Len(p) THEN i - j ELSE npos]
    BY <1>1, <1>5 DEF Round
  <2> HIDE DEF j
  <2>5. Longest(s, p, i, j)
    BY <1>1, <2>3, Zenon
  <2>6. j \in Nat /\ Longest(s, p, i, j) /\ j <= Len(p) /\ j <= i
    BY <2>3, <2>5 DEF Longest, Stands
  <2>7. CASE j = Len(p)
    <3>1. Stands(s, p, i, Len(p))
      BY <2>6, <2>7 DEF Longest
    <3>2. \A d \in 0 .. i - 1 : d \in 0 .. h
      BY <1>1
    <3>3. FirstEnd(s, p, i)
      BY <2>1, <3>1, <3>2 DEF FirstEnd
    <3>4. i \in 0 .. i /\ i - j = i - Len(p) /\ i - j \in Int /\ i - j # npos
      BY <1>1, <2>6, <2>7 DEF npos
    <3> DEFINE b == [j |-> j, found |-> i - j]
    <3>5. b \in [j : Nat, found : Int] /\ b.found = i - j
      BY <2>6, <3>4
    <3>6. Round(s, p, next, i, a) = b
      BY <2>4, <2>7
    <3> HIDE DEF b
    <3>7. b \in Found(s, p, i)
      BY <3>3, <3>4, <3>5 DEF Found
    <3> QED
      BY <3>6, <3>7
  <2>8. CASE j # Len(p)
    <3>1. j < Len(p)
      BY <2>6, <2>8
    <3>2. ~ Stands(s, p, i, Len(p))
      BY <2>6, <3>1 DEF Longest
    <3>3. \A d \in 0 .. i : d = i \/ d \in 0 .. h
      BY <1>1
    <3>4. \A d \in 0 .. i : ~ Stands(s, p, d, Len(p))
      BY <2>1, <3>2, <3>3
    <3> DEFINE b == [j |-> j, found |-> npos]
    <3>5. b \in [j : Nat, found : Int] /\ b.found = npos /\ b.j = j
      BY <2>6 DEF npos
    <3>6. Round(s, p, next, i, a) = b
      BY <2>4, <2>8
    <3> HIDE DEF b
    <3>7. b \in Found(s, p, i)
      BY <2>6, <3>1, <3>4, <3>5 DEF Found
    <3> QED
      BY <3>6, <3>7
  <2> QED
    BY <2>7, <2>8
<1> QED
  BY <1>4, <1>5

\* find has the first match of all, or there is none.
LEMMA FindDefined ==
  ASSUME NEW s, NEW p, Len(p) \in Nat \ {0}, Len(s) \in Nat, s # <<>>, p # <<>>
  PROVE  \E a \in Found(s, p, Len(s)) : Find(s, p) = a.found
<1> DEFINE N == Len(s)
           next == Table(p)
           z == [j |-> 0, found |-> npos]
           S == [n \in 0 .. N |-> Found(s, p, n)]
           R == UNION {Found(s, p, n) : n \in 0 .. N}
           step == [n \in 1 .. N |-> [a \in R |-> Round(s, p, next, n, a)]]
           scan == CHOOSE f : f = [n \in 0 .. N |-> IF n = 0 THEN z
                        ELSE IF f[n - 1].found # npos THEN f[n - 1]
                        ELSE [j |-> Extend(p, next, f[n - 1].j, s[n]),
                              found |-> IF Extend(p, next, f[n - 1].j, s[n]) = Len(p)
                                        THEN n - Extend(p, next, f[n - 1].j, s[n])
                                        ELSE npos]]
<1>1. Find(s, p) = scan[N].found
  BY DEF Find
<1>2. N \in Nat /\ 0 \in 0 .. N /\ N \in 0 .. N
  OBVIOUS
<1>3. \A n \in 1 .. N : n \in 0 .. N /\ n - 1 \in 0 .. N /\ n # 0 /\ n \in Nat \ {0}
  OBVIOUS
<1>4. next \in Tables(p, Len(p))
  BY TableDefined
<1> HIDE DEF N, next
<1>5. \A n \in 0 .. N : S[n] = Found(s, p, n)
  OBVIOUS
<1>6. \A n \in 0 .. N : \A a \in S[n] : a \in R
  BY <1>5
<1>7. z \in S[0]
  BY <1>2, <1>5, NothingFound
<1>8. \A n \in 1 .. N : \A a \in R : step[n][a] = Round(s, p, next, n, a)
  OBVIOUS
<1> HIDE DEF S, R, step, z
<1>9. \A n \in 1 .. N : \A a \in S[n - 1] : Round(s, p, next, n, a) \in S[n]
  <2> TAKE n \in 1 .. N
  <2> TAKE a \in S[n - 1]
  <2>1. a \in Found(s, p, n - 1)
    BY <1>3, <1>5
  <2>2. Round(s, p, next, n, a) \in Found(s, p, n)
    BY <1>3, <1>4, <2>1, RoundFinds
  <2> QED
    BY <1>3, <1>5, <2>2
<1>10. \A n \in 1 .. N : \A a \in S[n - 1] : step[n][a] = Round(s, p, next, n, a)
  BY <1>3, <1>6, <1>8
<1>11. \A n \in 1 .. N : \A a \in S[n - 1] : step[n][a] \in S[n]
  BY <1>9, <1>10
<1>12. PICK f : IsLoop(f, N, z, step) /\ \A n \in 0 .. N : f[n] \in S[n]
  BY <1>2, <1>7, <1>11, LoopExists
<1>13. f = [n \in 0 .. N |-> IF n = 0 THEN z ELSE Round(s, p, next, n, f[n - 1])]
  <2>1. f = [n \in 0 .. N |-> IF n = 0 THEN z ELSE step[n][f[n - 1]]]
    BY <1>12 DEF IsLoop
  <2>2. \A n \in 0 .. N : n # 0 => n \in 1 .. N
    BY <1>2
  <2>3. \A n \in 1 .. N : step[n][f[n - 1]] = Round(s, p, next, n, f[n - 1])
    BY <1>3, <1>10, <1>12
  <2> QED
    BY <2>1, <2>2, <2>3
<1>14. scan = [n \in 0 .. N |-> IF n = 0 THEN z ELSE Round(s, p, next, n, scan[n - 1])]
  BY <1>13, Zenon DEF Round
<1> HIDE DEF scan
<1>15. scan[0] = z
  BY <1>2, <1>14
<1>16. \A n \in 1 .. N : scan[n] = Round(s, p, next, n, scan[n - 1])
  BY <1>3, <1>14
<1>17. \A n \in 1 .. N : scan[n - 1] \in S[n - 1] => scan[n] \in S[n]
  BY <1>9, <1>16
<1>18. \A n \in 0 .. N : scan[n] \in S[n]
  BY <1>2, <1>7, <1>15, <1>17, LoopInvariant
<1>19. scan[N] \in Found(s, p, N)
  BY <1>2, <1>5, <1>18
<1> QED
  BY <1>1, <1>19 DEF N

\* Where FindIsFirst expects the pattern.
First(s, p) ==
  LET at == {i \in 0 .. Len(s) - 1 : StandsAt(s, p, i)}
  IN  IF p = <<>> \/ at = {} THEN npos ELSE CHOOSE i \in at : \A j \in at : i <= j

\* A pattern that stands at a position ends by its length later.
LEMMA StandsEnds ==
  ASSUME NEW s \in Seq(Char), NEW p \in Seq(Char), NEW i \in Nat, p # <<>>
  PROVE  StandsAt(s, p, i) <=> i + Len(p) <= Len(s) /\ Stands(s, p, i + Len(p), Len(p))
<1> DEFINE n == Len(p)
           e == i + n
<1>1. n \in Nat \ {0} /\ Len(s) \in Nat /\ e \in Nat /\ n \in 0 .. e /\ n <= n
  BY EmptySeq, LenProperties
<1>2. e - n = i /\ i + 1 \in Int /\ e \in Int /\ i + 1 <= e /\ e - (i + 1) + 1 = n
  BY <1>1
<1> SUFFICES ASSUME e <= Len(s)
             PROVE  SubSeq(s, i + 1, e) = p <=> \A x \in 1 .. n : s[e - n + x] = p[x]
  BY <1>1 DEF StandsAt, Stands
<1>3. \A x \in i + 1 .. e : s[x] \in Char
  <2>1. \A x \in i + 1 .. e : x \in 1 .. Len(s)
    BY <1>1
  <2> QED
    BY <2>1, ElementOfSeq
<1> DEFINE q == SubSeq(s, i + 1, e)
<1> HIDE DEF n, e
<1>4. q \in Seq(Char) /\ Len(q) = n /\ \A x \in 1 .. n : q[x] = s[i + 1 + x - 1]
  BY <1>2, <1>3, SubSeqProperties
<1>5. \A x \in 1 .. n : i + 1 + x - 1 = e - n + x
  BY <1>1, <1>2
<1> HIDE DEF q
<1>6. \A x \in 1 .. n : q[x] = s[e - n + x]
  BY <1>4, <1>5
<1>7. (\A x \in 1 .. n : q[x] = p[x]) => q = p
  BY <1>4, SeqEqual DEF n
<1> QED
  BY <1>6, <1>7 DEF q

\* find(slice) of any text and any pattern: what FindIsFirst asks of it, whose texts
\* are bounded.
THEOREM FindIs ==
  ASSUME NEW s \in Seq(Char), NEW p \in Seq(Char)
  PROVE  Find(s, p) = First(s, p)
<1> DEFINE at == {i \in 0 .. Len(s) - 1 : StandsAt(s, p, i)}
<1>1. Len(s) \in Nat /\ Len(p) \in Nat
  BY LenProperties
<1>2. CASE p = <<>>
  BY <1>2 DEF First, Find
<1>3. CASE s = <<>>
  <2>1. at = {}
    BY <1>3
  <2> QED
    BY <1>3, <2>1, Zenon DEF First, Find
<1>4. CASE p # <<>> /\ s # <<>>
  <2>1. Len(p) \in Nat \ {0}
    BY <1>4, EmptySeq
  <2>2. PICK a \in Found(s, p, Len(s)) : Find(s, p) = a.found
    BY <1>1, <1>4, <2>1, FindDefined
  <2>3. \A i \in at : /\ i \in Nat /\ i + Len(p) \in 0 .. Len(s)
                      /\ Stands(s, p, i + Len(p), Len(p))
    <3> TAKE i \in at
    <3>1. i \in Nat
      BY <1>1
    <3>2. i + Len(p) <= Len(s) /\ Stands(s, p, i + Len(p), Len(p))
      BY <1>4, <3>1, StandsEnds
    <3> QED
      BY <1>1, <3>1, <3>2
  <2>4. ASSUME NEW e \in 0 .. Len(s), Stands(s, p, e, Len(p))
        PROVE  e - Len(p) \in at
    <3> DEFINE i == e - Len(p)
    <3>1. Len(p) \in 0 .. e
      BY <2>4 DEF Stands
    <3>2. i \in Nat /\ i + Len(p) = e /\ i \in 0 .. Len(s) - 1 /\ e <= Len(s)
      BY <1>1, <2>1, <3>1
    <3> HIDE DEF i
    <3>3. StandsAt(s, p, i)
      BY <1>4, <2>4, <3>2, StandsEnds
    <3>4. i \in at
      BY <3>2, <3>3
    <3> QED
      BY <3>4 DEF i
  <2>5. CASE a.found = npos
    <3>1. \A d \in 0 .. Len(s) : ~ Stands(s, p, d, Len(p))
      BY <2>2, <2>5 DEF Found
    <3>2. at = {}
      BY <2>3, <3>1
    <3> QED
      BY <2>2, <2>5, <3>2 DEF First
  <2>6. CASE a.found # npos
    <3>1. PICK e \in 0 .. Len(s) : a.found = e - Len(p) /\ FirstEnd(s, p, e)
      BY <2>6 DEF Found
    <3>2. Stands(s, p, e, Len(p)) /\ \A d \in 0 .. e - 1 : ~ Stands(s, p, d, Len(p))
      BY <3>1 DEF FirstEnd
    <3>3. a.found \in at /\ a.found \in Nat
      BY <2>3, <2>4, <3>1, <3>2
    <3>4. \A i \in at : a.found <= i
      <4> TAKE i \in at
      <4>1. i + Len(p) \notin 0 .. e - 1
        BY <2>3, <3>2
      <4>2. i \in Nat /\ i + Len(p) \in Nat /\ e \in Nat
        BY <1>1, <2>3
      <4> QED
        BY <1>1, <3>1, <4>1, <4>2
    <3>5. \A i \in at : i \in Nat
      BY <2>3
    <3> HIDE DEF at
    <3>6. \A i \in at : (\A j \in at : i <= j) => i = a.found
      BY <3>3, <3>4, <3>5
    <3>7. at # {}
      BY <3>3
    <3>8. (CHOOSE i \in at : \A j \in at : i <= j) = a.found
      BY <3>3, <3>4, <3>6
    <3> QED
      BY <1>4, <2>2, <3>7, <3>8 DEF First, at
  <2> QED
    BY <2>5, <2>6
<1> QED
  BY <1>2, <1>3, <1>4

\* find(char).
LEMMA FindCharIs ==
  ASSUME NEW s \in Seq(Char), NEW p \in Seq(Char), Len(p) = 1
  PROVE  FindChar(s, p[1]) = First(s, p)
<1> DEFINE at == {i \in 0 .. Len(s) - 1 : StandsAt(s, p, i)}
           I == {i \in 1 .. Len(s) : s[i] = p[1]}
<1>1. Len(s) \in Nat /\ p # <<>>
  BY EmptySeq, LenProperties
<1>2. FindChar(s, p[1])
        = (IF I # {} THEN CHOOSE x \in I : \A y \in I : x <= y ELSE 0) - 1
  BY DEF FindChar, SelectInSeq, Min
<1>3. \A i \in 0 .. Len(s) - 1 : StandsAt(s, p, i) <=> s[i + 1] = p[1]
  <2> TAKE i \in 0 .. Len(s) - 1
  <2>1. i \in Nat /\ i + 1 <= Len(s)
    BY <1>1
  <2>2. StandsAt(s, p, i) <=> Stands(s, p, i + 1, 1)
    BY <1>1, <2>1, StandsEnds
  <2>3. /\ 1 \in 0 .. i + 1 /\ 1 <= Len(p) /\ i + 1 - 1 + 1 = i + 1
        /\ \A x \in 1 .. 1 : x = 1
    BY <2>1
  <2>4. 1 \in 1 .. 1
    OBVIOUS
  <2>5. Stands(s, p, i + 1, 1) <=> s[i + 1] = p[1]
    BY <2>3, <2>4 DEF Stands
  <2> QED
    BY <2>2, <2>5
<1>4. CASE I = {}
  <2>1. \A i \in 0 .. Len(s) - 1 : i + 1 \in 1 .. Len(s)
    BY <1>1
  <2>2. at = {}
    BY <1>3, <1>4, <2>1
  <2>3. FindChar(s, p[1]) = npos
    BY <1>2, <1>4 DEF npos
  <2> QED
    BY <2>2, <2>3 DEF First
<1>5. CASE I # {}
  <2>1. I \subseteq Nat
    BY <1>1
  <2>2. PICK l \in I : \A y \in I : l <= y
    BY <1>5, <2>1, LeastNatural
  <2>3. l \in 1 .. Len(s) /\ l - 1 \in 0 .. Len(s) - 1 /\ l - 1 + 1 = l /\ s[l] = p[1]
    BY <1>1, <2>2
  <2>4. l - 1 \in at
    BY <1>3, <2>3
  <2>5. \A i \in at : i \in Nat /\ i + 1 \in I
    BY <1>1, <1>3
  <2> HIDE DEF at, I
  <2>6. \A i \in at : l - 1 <= i
    BY <2>2, <2>3, <2>5
  <2>7. \A i \in at : (\A j \in at : i <= j) => i = l - 1
    BY <2>3, <2>4, <2>5, <2>6
  <2>8. (CHOOSE i \in at : \A j \in at : i <= j) = l - 1
    BY <2>4, <2>6, <2>7
  <2>9. \A x \in I : (\A y \in I : x <= y) => x = l
    BY <2>1, <2>2
  <2>10. (CHOOSE x \in I : \A y \in I : x <= y) = l
    BY <2>2, <2>9
  <2>11. at # {}
    BY <2>4
  <2> QED
    BY <1>1, <1>2, <1>5, <2>8, <2>10, <2>11 DEF First, at
<1> QED
  BY <1>4, <1>5

\* The texts that are searched are sequences.
LEMMA TextIsSeq ==
  ASSUME NEW n, NEW s \in BoundedSeq(Char, n)
  PROVE  s \in Seq(Char)
<1>1. PICK m \in 0 .. n : s \in [1 .. m -> Char]
  BY DEF BoundedSeq, SeqOf
<1>2. CASE m \in Nat
  BY <1>1, <1>2
<1> QED
  BY <1>1, <1>2

\* A call of find returns what FindIsFirst asks.
LEMMA SearchIsRight ==
  ASSUME NEW s \in BoundedSeq(Char, MaxText), NEW p \in BoundedSeq(Char, MaxPattern),
         Search(s, p)
  PROVE  FindIsFirst'
<1>1. s \in Seq(Char) /\ p \in Seq(Char)
  BY TextIsSeq
<1>2. Find(s, p) = First(s, p) /\ (Len(p) = 1 => FindChar(s, p[1]) = First(s, p))
  BY <1>1, FindIs, FindCharIs
<1>3. /\ call'.text = s /\ call'.pattern = p
      /\ result'.slice = First(s, p)
      /\ Len(p) = 1 => result'.char = First(s, p)
  BY <1>2 DEF Search
<1> QED
  BY <1>3 DEF FindIsFirst, First

\* Every call keeps the invariant.
LEMMA SearchStep == FindIsFirst /\ [Next]_vars => FindIsFirst'
<1> SUFFICES ASSUME FindIsFirst, [Next]_vars
             PROVE  FindIsFirst'
  OBVIOUS
<1>1. CASE UNCHANGED vars
  BY <1>1 DEF vars, FindIsFirst
<1>2. ASSUME NEW s \in BoundedSeq(Char, MaxText),
             NEW p \in BoundedSeq(Char, MaxPattern), Search(s, p)
      PROVE  FindIsFirst'
  BY <1>2, SearchIsRight
<1>3. ASSUME NEW s, NEW delim, Divide(s, delim)
      PROVE  FindIsFirst'
  BY <1>3 DEF Divide, FindIsFirst
<1>4. ASSUME NEW v, NEW width, NEW from, NEW to, Transfer(v, width, from, to)
      PROVE  FindIsFirst'
  BY <1>4 DEF Transfer, FindIsFirst
<1>5. ASSUME NEW port, NEW loopBack, NEW ipv6, NEW host,
             Resolve(port, loopBack, ipv6, host)
      PROVE  FindIsFirst'
  BY <1>5 DEF Resolve, FindIsFirst
<1>6. ASSUME NEW year, NEW month, NEW milli, NEW micro,
             Format(year, month, 1, milli, micro)
      PROVE  FindIsFirst'
  BY <1>6 DEF Format, FindIsFirst
<1>7. ASSUME NEW year, NEW month, NEW day, NEW n, Shift(year, month, day, n)
      PROVE  FindIsFirst'
  BY <1>7 DEF Shift, FindIsFirst
<1>8. CASE Next
  BY <1>2, <1>3, <1>4, <1>5, <1>6, <1>7, <1>8 DEF Next
<1> QED
  BY <1>1, <1>8

\* StringSlice::find, over any characters and lengths: the table of borders and
\* the falling back lead to the first place at which the pattern stands, and to
\* npos exactly when it stands nowhere or is empty.
THEOREM SearchCorrect == Spec => []FindIsFirst
<1>1. Init => FindIsFirst
  BY DEF Init, FindIsFirst
<1> QED
  BY <1>1, SearchStep, PTL DEF Spec

-----------------------------------------------------------------------------
(* The division of a text, and what is trimmed off it.                     *)

\* pieces, each with delim after it, make t.
Joins(pieces, delim, t) ==
  \A f : f = [k \in 0 .. Len(pieces) |->
                IF k = 0 THEN <<>> ELSE f[k - 1] \o pieces[k] \o <<delim>>]
           => f[Len(pieces)] = t

\* No pieces make an empty text.
LEMMA JoinsNothing ==
  ASSUME NEW delim
  PROVE  Joins(<<>>, delim, <<>>)
<1>1. Len(<<>>) = 0 /\ 0 \in 0 .. 0
  OBVIOUS
<1> QED
  BY <1>1 DEF Joins

\* A piece more.
LEMMA JoinsAppended ==
  ASSUME NEW pieces \in Seq(Seq(Char)), NEW q \in Seq(Char), NEW delim, NEW t,
         Joins(pieces, delim, t)
  PROVE  Joins(Append(pieces, q), delim, t \o q \o <<delim>>)
<1> DEFINE n == Len(pieces)
           w == Append(pieces, q)
<1>1. /\ Len(w) = n + 1 /\ n \in Nat
      /\ \A k \in 1 .. n : w[k] = pieces[k]
      /\ w[n + 1] = q
  BY AppendProperties, LenProperties
<1> HIDE DEF w
<1> SUFFICES ASSUME NEW f, f = [k \in 0 .. n + 1 |->
                      IF k = 0 THEN <<>> ELSE f[k - 1] \o w[k] \o <<delim>>]
             PROVE  f[n + 1] = t \o q \o <<delim>>
  BY <1>1 DEF Joins, w
<1> HIDE DEF n
<1>2. /\ n + 1 \in 0 .. n + 1 /\ n + 1 # 0 /\ n + 1 - 1 = n /\ n \in 0 .. n
      /\ \A k \in 0 .. n : k \in 0 .. n + 1
      /\ \A k \in 0 .. n : k # 0 => k \in 1 .. n /\ k - 1 \in 0 .. n
  BY <1>1
<1>3. \A k \in 0 .. n + 1 : f[k] = IF k = 0 THEN <<>> ELSE f[k - 1] \o w[k] \o <<delim>>
  OBVIOUS
<1>4. f[n + 1] = f[n] \o q \o <<delim>>
  BY <1>1, <1>2, <1>3
<1> DEFINE g == [k \in 0 .. n |-> f[k]]
<1>5. \A k \in 0 .. n : g[k] = f[k]
  OBVIOUS
<1>6. g = [k \in 0 .. n |-> g[k]]
  OBVIOUS
<1> HIDE DEF g
<1>7. \A k \in 0 .. n : g[k] = IF k = 0 THEN <<>> ELSE g[k - 1] \o pieces[k] \o <<delim>>
  BY <1>1, <1>2, <1>3, <1>5
<1>8. g = [k \in 0 .. n |-> IF k = 0 THEN <<>> ELSE g[k - 1] \o pieces[k] \o <<delim>>]
  BY <1>6, <1>7
<1>9. g[n] = t
  BY <1>8 DEF Joins, n
<1> QED
  BY <1>2, <1>4, <1>5, <1>9

\* The function that joins pieces is defined.
LEMMA JoinDefined ==
  ASSUME NEW pieces \in Seq(Seq(Char)), NEW delim \in Char
  PROVE  \E f : f = [k \in 0 .. Len(pieces) |->
                       IF k = 0 THEN <<>> ELSE f[k - 1] \o pieces[k] \o <<delim>>]
<1> DEFINE N == Len(pieces)
           step == [k \in 1 .. N |-> [v \in Seq(Char) |-> v \o pieces[k] \o <<delim>>]]
<1>1. N \in Nat /\ \A k \in 1 .. N : pieces[k] \in Seq(Char)
  BY LenProperties, ElementOfSeq
<1> HIDE DEF N
<1>2. \A k \in 1 .. N : \A v \in Seq(Char) : v \o pieces[k] \o <<delim>> \in Seq(Char)
  <2> TAKE k \in 1 .. N
  <2> TAKE v \in Seq(Char)
  <2>1. v \o pieces[k] \in Seq(Char)
    BY <1>1, ConcatProperties
  <2>2. <<delim>> \in Seq(Char)
    OBVIOUS
  <2> QED
    BY <2>1, <2>2, ConcatProperties
<1>3. step \in [1 .. N -> [Seq(Char) -> Seq(Char)]]
  BY <1>2
<1>4. \A k \in 1 .. N : \A v \in Seq(Char) : step[k][v] = v \o pieces[k] \o <<delim>>
  OBVIOUS
<1> HIDE DEF step
<1>5. <<>> \in Seq(Char)
  OBVIOUS
<1>6. PICK f : IsLoop(f, N, <<>>, step) /\ \A k \in 0 .. N : f[k] \in Seq(Char)
  BY <1>1, <1>3, <1>5, TypedLoopExists
<1>7. \A k \in 0 .. N : k # 0 => k \in 1 .. N /\ k - 1 \in 0 .. N
  BY <1>1
<1>8. f = [k \in 0 .. N |-> IF k = 0 THEN <<>> ELSE f[k - 1] \o pieces[k] \o <<delim>>]
  BY <1>4, <1>6, <1>7 DEF IsLoop
<1> QED
  BY <1>8 DEF N

\* What split has after i characters: pieces of the text up to begin, and no
\* delimiter since.
Pieces(s, delim, i) ==
  {a \in [begin : Nat, ret : Seq(Seq(Char))] :
     /\ a.begin <= i
     /\ \A k \in 1 .. Len(a.ret) : \A x \in 1 .. Len(a.ret[k]) : a.ret[k][x] # delim
     /\ \A x \in a.begin + 1 .. i : s[x] # delim
     /\ Joins(a.ret, delim, SubSeq(s, 1, a.begin))}

\* What split starts with.
LEMMA NoPieces ==
  ASSUME NEW s, NEW delim
  PROVE  [begin |-> 0, ret |-> <<>>] \in Pieces(s, delim, 0)
<1> DEFINE a == [begin |-> 0, ret |-> <<>>]
<1>1. a \in [begin : Nat, ret : Seq(Seq(Char))] /\ a.begin = 0 /\ a.ret = <<>>
  OBVIOUS
<1> HIDE DEF a
<1>2. SubSeq(s, 1, 0) = <<>>
  BY SubSeqEmpty
<1>3. Joins(a.ret, delim, SubSeq(s, 1, a.begin))
  BY <1>1, <1>2, JoinsNothing
<1>4. Len(a.ret) = 0
  BY <1>1
<1>5. a \in Pieces(s, delim, 0)
  BY <1>1, <1>3, <1>4 DEF Pieces
<1> QED
  BY <1>5 DEF a

\* The piece from a position to a later one.
LEMMA SliceIs ==
  ASSUME NEW s \in Seq(Char), NEW b \in Nat, NEW e \in Nat, b <= e, e <= Len(s)
  PROVE  /\ Slice(s, b, e - b) = SubSeq(s, b + 1, e)
         /\ SubSeq(s, b + 1, e) \in Seq(Char)
         /\ Len(SubSeq(s, b + 1, e)) = e - b
         /\ \A x \in 1 .. e - b : SubSeq(s, b + 1, e)[x] = s[b + x]
<1>1. Len(s) \in Nat
  BY LenProperties
<1>2. ~ (Len(s) - b < e - b) /\ b + (e - b) = e
  BY <1>1
<1>3. Slice(s, b, e - b) = SubSeq(s, b + 1, e)
  BY <1>2 DEF Slice
<1>4. \A x \in b + 1 .. e : s[x] \in Char
  <2>1. \A x \in b + 1 .. e : x \in 1 .. Len(s)
    BY <1>1
  <2> QED
    BY <2>1, ElementOfSeq
<1>5. b + 1 \in Int /\ e \in Int
  OBVIOUS
<1>6. /\ SubSeq(s, b + 1, e) \in Seq(Char)
      /\ Len(SubSeq(s, b + 1, e)) = IF b + 1 <= e THEN e - (b + 1) + 1 ELSE 0
      /\ \A x \in 1 .. e - (b + 1) + 1 : SubSeq(s, b + 1, e)[x] = s[b + 1 + x - 1]
  BY <1>4, <1>5, SubSeqProperties
<1>7. e - (b + 1) + 1 = e - b /\ (~ (b + 1 <= e) => e - b = 0)
  OBVIOUS
<1>8. \A x \in 1 .. e - b : b + 1 + x - 1 = b + x
  OBVIOUS
<1>9. \A x \in 1 .. e - b : SubSeq(s, b + 1, e)[x] = s[b + x]
  BY <1>6, <1>7, <1>8
<1>10. Len(SubSeq(s, b + 1, e)) = e - b
  BY <1>6, <1>7
<1> QED
  BY <1>3, <1>6, <1>9, <1>10

\* The piece that is cut off next, or the rest: it holds no delimiter.
LEMMA PieceAppended ==
  ASSUME NEW s \in Seq(Char), NEW delim, NEW i \in Nat, i <= Len(s),
         NEW a \in Pieces(s, delim, i)
  PROVE  LET ret == Append(a.ret, Slice(s, a.begin, i - a.begin))
         IN  /\ ret \in Seq(Seq(Char))
             /\ \A k \in 1 .. Len(ret) : \A x \in 1 .. Len(ret[k]) : ret[k][x] # delim
             /\ Joins(ret, delim, SubSeq(s, 1, i) \o <<delim>>)
<1> DEFINE b == a.begin
           q == Slice(s, b, i - b)
           ret == Append(a.ret, q)
<1>1. /\ b \in Nat /\ a.ret \in Seq(Seq(Char)) /\ b <= i
      /\ \A k \in 1 .. Len(a.ret) : \A x \in 1 .. Len(a.ret[k]) : a.ret[k][x] # delim
      /\ \A x \in b + 1 .. i : s[x] # delim
      /\ Joins(a.ret, delim, SubSeq(s, 1, b))
  BY DEF Pieces
<1> HIDE DEF b
<1>2. /\ q = SubSeq(s, b + 1, i) /\ q \in Seq(Char) /\ Len(q) = i - b
      /\ \A x \in 1 .. i - b : q[x] = s[b + x]
  <2>1. /\ Slice(s, b, i - b) = SubSeq(s, b + 1, i)
        /\ SubSeq(s, b + 1, i) \in Seq(Char)
        /\ Len(SubSeq(s, b + 1, i)) = i - b
        /\ \A x \in 1 .. i - b : SubSeq(s, b + 1, i)[x] = s[b + x]
    BY <1>1, SliceIs, Zenon
  <2> QED
    BY <2>1
<1> HIDE DEF q
<1>3. \A x \in 1 .. Len(q) : q[x] # delim
  <2> TAKE x \in 1 .. Len(q)
  <2>1. x \in 1 .. i - b /\ b + x \in b + 1 .. i
    BY <1>1, <1>2
  <2> QED
    BY <1>1, <1>2, <2>1
<1>4. /\ ret \in Seq(Seq(Char)) /\ Len(ret) = Len(a.ret) + 1
      /\ \A k \in 1 .. Len(a.ret) : ret[k] = a.ret[k]
      /\ ret[Len(a.ret) + 1] = q
  BY <1>1, <1>2, AppendProperties
<1>5. Joins(ret, delim, SubSeq(s, 1, b) \o q \o <<delim>>)
  BY <1>1, <1>2, JoinsAppended
<1> HIDE DEF ret
<1>6. \A k \in 1 .. Len(ret) : \A x \in 1 .. Len(ret[k]) : ret[k][x] # delim
  <2>1. Len(a.ret) \in Nat
    BY <1>1, LenProperties
  <2>2. \A k \in 1 .. Len(ret) : k = Len(a.ret) + 1 \/ k \in 1 .. Len(a.ret)
    BY <1>4, <2>1
  <2> QED
    BY <1>1, <1>3, <1>4, <2>2
<1>7. SubSeq(s, 1, b) \o q = SubSeq(s, 1, i)
  <2>1. Len(s) \in Nat
    BY LenProperties
  <2>2. 1 \in 1 .. Len(s) + 1 /\ b \in 1 - 1 .. Len(s) /\ i \in b .. Len(s)
    BY <1>1, <2>1
  <2> QED
    BY <1>2, <2>2, ConcatAdjacentSubSeq
<1> QED
  BY <1>4, <1>5, <1>6, <1>7 DEF ret, q, b

\* A round of split.
Cut(s, delim, i, a) ==
  IF s[i] # delim THEN a
  ELSE [begin |-> i, ret |-> Append(a.ret, Slice(s, a.begin, i - 1 - a.begin))]

\* A round of split keeps to the pieces.
LEMMA CutKeeps ==
  ASSUME NEW s \in Seq(Char), NEW delim, NEW i \in 1 .. Len(s),
         NEW a \in Pieces(s, delim, i - 1)
  PROVE  Cut(s, delim, i, a) \in Pieces(s, delim, i)
<1> DEFINE h == i - 1
<1>1. h \in Nat /\ h <= Len(s) /\ i \in Nat /\ h <= i
  BY LenProperties
<1>2. /\ a \in Pieces(s, delim, h)
      /\ Cut(s, delim, i, a) =
           IF s[i] # delim THEN a
           ELSE [begin |-> i, ret |-> Append(a.ret, Slice(s, a.begin, h - a.begin))]
  BY DEF Cut, Pieces
<1>3. \A x \in Nat : \A y \in x + 1 .. i : y = i \/ y \in x + 1 .. h
  BY <1>1
<1> HIDE DEF h
<1>4. /\ a \in [begin : Nat, ret : Seq(Seq(Char))] /\ a.begin \in Nat /\ a.begin <= h
      /\ \A k \in 1 .. Len(a.ret) : \A x \in 1 .. Len(a.ret[k]) : a.ret[k][x] # delim
      /\ \A x \in a.begin + 1 .. h : s[x] # delim
      /\ Joins(a.ret, delim, SubSeq(s, 1, a.begin))
  BY <1>2 DEF Pieces
<1>5. CASE s[i] # delim
  <2>1. \A x \in a.begin + 1 .. i : s[x] # delim
    BY <1>3, <1>4, <1>5
  <2>2. a.begin <= i
    BY <1>1, <1>4
  <2>3. a \in Pieces(s, delim, i)
    BY <1>4, <2>1, <2>2 DEF Pieces
  <2> QED
    BY <1>2, <1>5, <2>3
<1>6. CASE s[i] = delim
  <2> DEFINE ret == Append(a.ret, Slice(s, a.begin, h - a.begin))
             c == [begin |-> i, ret |-> ret]
  <2>1. /\ ret \in Seq(Seq(Char))
        /\ \A k \in 1 .. Len(ret) : \A x \in 1 .. Len(ret[k]) : ret[k][x] # delim
        /\ Joins(ret, delim, SubSeq(s, 1, h) \o <<delim>>)
    BY <1>1, <1>2, PieceAppended
  <2> HIDE DEF ret
  <2>2. SubSeq(s, 1, h) \o <<delim>> = SubSeq(s, 1, i)
    <3>1. 1 \in 1 .. Len(s) /\ i \in 1 .. Len(s)
      BY <1>1
    <3>2. SubSeq(s, 1, i) = SubSeq(s, 1, i - 1) \o <<s[i]>>
      BY <3>1, SubSeqRecursiveSecond, Zenon
    <3> QED
      BY <1>6, <3>2 DEF h
  <2>3. c \in [begin : Nat, ret : Seq(Seq(Char))] /\ c.begin = i /\ c.ret = ret
    BY <1>1, <2>1
  <2>4. Cut(s, delim, i, a) = c
    BY <1>2, <1>6 DEF ret
  <2> HIDE DEF c
  <2>5. \A x \in c.begin + 1 .. i : s[x] # delim
    BY <1>1, <2>3
  <2>6. c.begin <= i
    BY <1>1, <2>3
  <2>7. c \in Pieces(s, delim, i)
    BY <2>1, <2>2, <2>3, <2>5, <2>6 DEF Pieces
  <2> QED
    BY <2>4, <2>7
<1> QED
  BY <1>5, <1>6

\* split of any text: pieces without delimiters, which make the text again and a
\* delimiter.
THEOREM SplitIs ==
  ASSUME NEW s \in Seq(Char), NEW delim \in Char
  PROVE  /\ Split(s, delim) \in Seq(Seq(Char))
         /\ \A k \in 1 .. Len(Split(s, delim)) :
              \A x \in 1 .. Len(Split(s, delim)[k]) : Split(s, delim)[k][x] # delim
         /\ Joins(Split(s, delim), delim, IF s = <<>> THEN <<>> ELSE s \o <<delim>>)
<1>1. CASE s = <<>>
  <2>1. Split(s, delim) = <<>>
    BY <1>1 DEF Split
  <2>2. Len(<<>>) = 0 /\ <<>> \in Seq(Seq(Char))
    OBVIOUS
  <2>3. Joins(Split(s, delim), delim, <<>>)
    BY <2>1, JoinsNothing
  <2>4. 1 .. Len(Split(s, delim)) = {}
    BY <2>1
  <2> QED
    BY <1>1, <2>1, <2>2, <2>3, <2>4
<1>2. CASE s # <<>>
  <2> DEFINE N == Len(s)
             z == [begin |-> 0, ret |-> <<>>]
             S == [n \in 0 .. N |-> Pieces(s, delim, n)]
             R == UNION {Pieces(s, delim, n) : n \in 0 .. N}
             step == [n \in 1 .. N |-> [a \in R |-> Cut(s, delim, n, a)]]
             done == CHOOSE f : f = [n \in 0 .. N |-> IF n = 0 THEN z
                        ELSE IF s[n] # delim THEN f[n - 1]
                        ELSE [begin |-> n,
                              ret |-> Append(f[n - 1].ret,
                                             Slice(s, f[n - 1].begin,
                                                   n - 1 - f[n - 1].begin))]]
  <2>1. Split(s, delim)
          = Append(done[N].ret, Slice(s, done[N].begin, N - done[N].begin))
    BY <1>2 DEF Split
  <2>2. N \in Nat /\ 0 \in 0 .. N /\ N \in 0 .. N
    BY LenProperties
  <2>3. \A n \in 1 .. N : n \in 0 .. N /\ n - 1 \in 0 .. N /\ n # 0
    BY <2>2
  <2>4. \A n \in 0 .. N : S[n] = Pieces(s, delim, n)
    OBVIOUS
  <2>5. \A n \in 0 .. N : \A a \in S[n] : a \in R
    BY <2>4
  <2>6. z \in S[0]
    BY <2>2, <2>4, NoPieces
  <2>7. \A n \in 1 .. N : \A a \in R : step[n][a] = Cut(s, delim, n, a)
    OBVIOUS
  <2>8. \A n \in 1 .. N : \A a \in Pieces(s, delim, n - 1) :
          Cut(s, delim, n, a) \in Pieces(s, delim, n)
    BY CutKeeps
  <2> HIDE DEF N, S, R, step, z
  <2>9. \A n \in 1 .. N : \A a \in S[n - 1] : Cut(s, delim, n, a) \in S[n]
    BY <2>3, <2>4, <2>8
  <2>10. \A n \in 1 .. N : \A a \in S[n - 1] : step[n][a] = Cut(s, delim, n, a)
    BY <2>3, <2>5, <2>7
  <2>11. \A n \in 1 .. N : \A a \in S[n - 1] : step[n][a] \in S[n]
    BY <2>9, <2>10
  <2>12. PICK f : IsLoop(f, N, z, step) /\ \A n \in 0 .. N : f[n] \in S[n]
    BY <2>2, <2>6, <2>11, LoopExists
  <2>13. f = [n \in 0 .. N |-> IF n = 0 THEN z ELSE Cut(s, delim, n, f[n - 1])]
    <3>1. f = [n \in 0 .. N |-> IF n = 0 THEN z ELSE step[n][f[n - 1]]]
      BY <2>12 DEF IsLoop
    <3>2. \A n \in 0 .. N : n # 0 => n \in 1 .. N
      BY <2>2
    <3>3. \A n \in 1 .. N : step[n][f[n - 1]] = Cut(s, delim, n, f[n - 1])
      BY <2>3, <2>10, <2>12
    <3> QED
      BY <3>1, <3>2, <3>3
  <2>14. done = [n \in 0 .. N |-> IF n = 0 THEN z ELSE Cut(s, delim, n, done[n - 1])]
    BY <2>13, Zenon DEF Cut
  <2> HIDE DEF done
  <2>15. done[0] = z
    BY <2>2, <2>14
  <2>16. \A n \in 1 .. N : done[n] = Cut(s, delim, n, done[n - 1])
    BY <2>3, <2>14
  <2>17. \A n \in 1 .. N : done[n - 1] \in S[n - 1] => done[n] \in S[n]
    BY <2>9, <2>16
  <2>18. \A n \in 0 .. N : done[n] \in S[n]
    BY <2>2, <2>6, <2>15, <2>17, LoopInvariant
  <2>19. done[N] \in Pieces(s, delim, N)
    BY <2>2, <2>4, <2>18
  <2> DEFINE ret == Append(done[N].ret, Slice(s, done[N].begin, N - done[N].begin))
  <2>20. N \in Nat /\ N <= Len(s)
    BY <2>2 DEF N
  <2>21. /\ ret \in Seq(Seq(Char))
         /\ \A k \in 1 .. Len(ret) : \A x \in 1 .. Len(ret[k]) : ret[k][x] # delim
         /\ Joins(ret, delim, SubSeq(s, 1, N) \o <<delim>>)
    BY <2>19, <2>20, PieceAppended
  <2>22. SubSeq(s, 1, N) = s
    BY SubSeqFull DEF N
  <2>23. Split(s, delim) = ret
    BY <2>1
  <2> HIDE DEF ret
  <2> QED
    BY <1>2, <2>21, <2>22, <2>23
<1> QED
  BY <1>1, <1>2

\* A set of natural numbers up to a bound has a greatest one.
LEMMA GreatestNatural ==
  ASSUME NEW N \in Nat, NEW T, T \subseteq 0 .. N, T # {}
  PROVE  \E n \in T : \A m \in T : n >= m
<1> DEFINE U == {N - n : n \in T}
<1>1. U \subseteq Nat /\ U # {}
  <2>1. \A n \in T : N - n \in Nat
    OBVIOUS
  <2>2. \E n \in T : N - n \in U
    OBVIOUS
  <2> QED
    BY <2>1, <2>2
<1>2. PICK u \in U : \A v \in U : u <= v
  BY <1>1, LeastNatural
<1>3. PICK n \in T : u = N - n
  OBVIOUS
<1>4. ASSUME NEW m \in T
      PROVE  n >= m
  <2>1. N - m \in U
    OBVIOUS
  <2>2. N - n <= N - m
    BY <1>2, <1>3, <2>1
  <2> QED
    BY <2>2
<1> QED
  BY <1>4

\* trim takes away delimiters at the ends, and all of them.
TrimmedOf(s, delim, t) ==
  /\ t # <<>> => Head(t) # delim /\ t[Len(t)] # delim
  /\ \E k \in 0 .. Len(s), l \in 0 .. Len(s) :
       s = [i \in 1 .. k |-> delim] \o t \o [i \in 1 .. l |-> delim]

\* That is what trim does.
LEMMA TrimIs ==
  ASSUME NEW s \in Seq(Char), NEW delim \in Char
  PROVE  TrimmedOf(s, delim, Trim(s, delim))
<1> DEFINE I == {i \in 1 .. Len(s) : s[i] # delim}
           front == CHOOSE x \in I : \A y \in I : x <= y
           back == CHOOSE x \in I : \A y \in I : x >= y
           delims(k) == [i \in 1 .. k |-> delim]
<1>1. Len(s) \in Nat
  BY LenProperties
<1>2. \A k \in Nat : /\ delims(k) \in Seq(Char) /\ Len(delims(k)) = k
                     /\ \A i \in 1 .. k : delims(k)[i] = delim
  OBVIOUS
<1>3. CASE I = {}
  <2>1. Trim(s, delim) = <<>>
    BY <1>3 DEF Trim, SelectInSeq
  <2>2. \A i \in 1 .. Len(s) : s[i] = delim
    BY <1>3
  <2>3. s = delims(Len(s))
    BY <1>1, <1>2, <2>2, SeqEqual
  <2>4. delims(0) = <<>>
    OBVIOUS
  <2> HIDE DEF delims
  <2>5. delims(Len(s)) \o <<>> \o <<>> = delims(Len(s))
    BY <1>1, <1>2, ConcatEmptySeq
  <2>6. Len(s) \in 0 .. Len(s) /\ 0 \in 0 .. Len(s)
    BY <1>1
  <2>7. s = delims(Len(s)) \o <<>> \o delims(0)
    BY <2>3, <2>4, <2>5
  <2> QED
    BY <2>1, <2>6, <2>7 DEF TrimmedOf, delims
<1>4. CASE I # {}
  <2>1. front \in I /\ \A y \in I : front <= y
    <3>1. I \subseteq Nat
      BY <1>1
    <3>2. \E x \in I : \A y \in I : x <= y
      BY <1>4, <3>1, LeastNatural
    <3> HIDE DEF I
    <3> QED
      BY <3>2
  <2>2. back \in I /\ \A y \in I : back >= y
    <3>1. I \subseteq 0 .. Len(s)
      BY <1>1
    <3>2. \E x \in I : \A y \in I : x >= y
      BY <1>1, <1>4, <3>1, GreatestNatural
    <3> HIDE DEF I
    <3> QED
      BY <3>2
  <2> DEFINE f == front - 1
             l == Len(s) - back
             t == SubSeq(s, f + 1, back)
  <2>3. Trim(s, delim) = Slice(s, f, back - f)
    <3>1. Trim(s, delim) = IF front = 0 THEN <<>>
                           ELSE Slice(s, front - 1, back - front + 1)
      BY <1>4 DEF Trim, SelectInSeq, SelectLastInSeq, Min, Max
    <3> HIDE DEF front, back
    <3>2. front # 0 /\ back - front + 1 = back - f
      BY <1>1, <2>1, <2>2
    <3> QED
      BY <3>1, <3>2
  <2> HIDE DEF front, back
  <2>4. /\ f \in 0 .. Len(s) /\ l \in 0 .. Len(s) /\ f \in Nat /\ back \in Nat
        /\ f < back /\ back <= Len(s) /\ l \in Nat
        /\ f + (back - f) + l = Len(s) /\ f + 1 = front /\ f + (back - f) = back
    BY <1>1, <2>1, <2>2
  <2>5. /\ Slice(s, f, back - f) = t /\ t \in Seq(Char) /\ Len(t) = back - f
        /\ \A x \in 1 .. back - f : t[x] = s[f + x]
    <3> HIDE DEF f
    <3>1. /\ Slice(s, f, back - f) = SubSeq(s, f + 1, back)
          /\ SubSeq(s, f + 1, back) \in Seq(Char)
          /\ Len(SubSeq(s, f + 1, back)) = back - f
          /\ \A x \in 1 .. back - f : SubSeq(s, f + 1, back)[x] = s[f + x]
      <4>1. f <= back
        BY <2>4
      <4> QED
        BY <2>4, <4>1, SliceIs, Zenon
    <3> QED
      BY <3>1
  <2>6. \A i \in 1 .. f : s[i] = delim
    BY <1>1, <2>1, <2>4
  <2>7. \A i \in back + 1 .. Len(s) : s[i] = delim
    BY <1>1, <2>2, <2>4
  <2>8. s[f + 1] # delim /\ s[back] # delim
    BY <2>1, <2>2, <2>4
  <2> HIDE DEF f, l, t
  <2>9. t[1] # delim /\ t[Len(t)] # delim /\ Head(t) = t[1]
    <3>1. 1 \in 1 .. back - f /\ back - f \in 1 .. back - f
      BY <2>4
    <3>2. t[1] = s[f + 1] /\ t[back - f] = s[back]
      BY <2>4, <2>5, <3>1
    <3> QED
      BY <2>5, <2>8, <3>2
  <2> DEFINE u == delims(f) \o t
             v == u \o delims(l)
  <2> HIDE DEF delims
  <2>10. /\ u \in Seq(Char) /\ Len(u) = back
         /\ \A i \in 1 .. back : u[i] = IF i <= f THEN delims(f)[i] ELSE t[i - f]
    BY <1>2, <2>4, <2>5, ConcatProperties
  <2> HIDE DEF u
  <2>11. delims(l) \in Seq(Char) /\ Len(delims(l)) = l
    BY <1>2, <2>4
  <2>12. /\ v \in Seq(Char) /\ Len(v) = back + l
         /\ \A i \in 1 .. back + l :
              v[i] = IF i <= back THEN u[i] ELSE delims(l)[i - back]
    <3> DEFINE d == delims(l)
    <3> HIDE DEF d
    <3>1. d \in Seq(Char) /\ Len(d) = l
      BY <2>11 DEF d
    <3>2. /\ u \o d \in Seq(Char) /\ Len(u \o d) = back + l
          /\ \A i \in 1 .. back + l :
               (u \o d)[i] = IF i <= back THEN u[i] ELSE d[i - back]
      BY <2>10, <3>1, ConcatProperties
    <3> QED
      BY <3>2 DEF d
  <2>13. back + l = Len(s)
    BY <1>1, <2>4
  <2> HIDE DEF v
  <2>14. ASSUME NEW i \in 1 .. Len(s)
         PROVE  s[i] = v[i]
    <3>1. CASE i <= f
      <4>1. i \in 1 .. f /\ i \in 1 .. back /\ i <= back
        BY <1>1, <2>4, <3>1
      <4>2. v[i] = u[i] /\ u[i] = delims(f)[i]
        BY <2>10, <2>12, <2>13, <3>1, <4>1
      <4> QED
        BY <1>2, <2>4, <2>6, <4>1, <4>2
    <3>2. CASE f < i /\ i <= back
      <4>1. ~ (i <= f) /\ i \in 1 .. back /\ i - f \in 1 .. back - f /\ f + (i - f) = i
        BY <1>1, <2>4, <3>2
      <4>2. v[i] = u[i] /\ u[i] = t[i - f]
        BY <2>10, <2>12, <2>13, <3>2, <4>1
      <4> QED
        BY <2>5, <4>1, <4>2
    <3>3. CASE back < i
      <4>1. ~ (i <= back) /\ i \in back + 1 .. Len(s) /\ i - back \in 1 .. l
        BY <1>1, <2>4, <2>13, <3>3
      <4>2. v[i] = delims(l)[i - back]
        BY <2>12, <2>13, <4>1
      <4> QED
        BY <1>2, <2>4, <2>7, <4>1, <4>2
    <3> QED
      BY <1>1, <2>4, <3>1, <3>2, <3>3
  <2>15. s = v
    BY <2>12, <2>13, <2>14, SeqEqual
  <2>16. Trim(s, delim) = t
    BY <2>3, <2>5
  <2> QED
    BY <2>4, <2>9, <2>15, <2>16 DEF TrimmedOf, u, v, delims
<1> QED
  BY <1>3, <1>4

\* A call of split and trim loses delimiters only.
LEMMA DivideIsRight ==
  ASSUME NEW s \in BoundedSeq(Char, MaxText), NEW delim \in Char, Divide(s, delim)
  PROVE  OnlyDelimitersLost'
<1> DEFINE pieces == Split(s, delim)
           t == Trim(s, delim)
           joined == CHOOSE f : f = [k \in 0 .. Len(pieces) |->
                       IF k = 0 THEN <<>> ELSE f[k - 1] \o pieces[k] \o <<delim>>]
<1>1. s \in Seq(Char)
  BY TextIsSeq
<1>2. /\ pieces \in Seq(Seq(Char))
      /\ \A k \in 1 .. Len(pieces) : \A x \in 1 .. Len(pieces[k]) : pieces[k][x] # delim
      /\ Joins(pieces, delim, IF s = <<>> THEN <<>> ELSE s \o <<delim>>)
  BY <1>1, SplitIs
<1>3. TrimmedOf(s, delim, t)
  BY <1>1, TrimIs
<1>4. /\ call'.op = "split" /\ call'.text = s /\ call'.delim = delim
      /\ result'.trim = t /\ result'.split = pieces
  BY DEF Divide
<1> HIDE DEF pieces, t
<1>5. joined[Len(pieces)] = IF s = <<>> THEN <<>> ELSE s \o <<delim>>
  <2>1. \E f : f = [k \in 0 .. Len(pieces) |->
                      IF k = 0 THEN <<>> ELSE f[k - 1] \o pieces[k] \o <<delim>>]
    BY <1>2, JoinDefined
  <2>2. joined = [k \in 0 .. Len(pieces) |->
                    IF k = 0 THEN <<>> ELSE joined[k - 1] \o pieces[k] \o <<delim>>]
    BY <2>1, Zenon
  <2> HIDE DEF joined
  <2> QED
    BY <1>2, <2>2 DEF Joins
<1>6. \A k \in DOMAIN pieces : delim \notin ToSet(pieces[k])
  <2> TAKE k \in DOMAIN pieces
  <2>1. k \in 1 .. Len(pieces)
    BY <1>2, LenProperties
  <2>2. pieces[k] \in Seq(Char)
    BY <1>2, <2>1, ElementOfSeq
  <2>3. DOMAIN pieces[k] = 1 .. Len(pieces[k])
    BY <2>2, LenProperties
  <2> QED
    BY <1>2, <2>1, <2>3 DEF ToSet
<1>7. /\ t # <<>> => Head(t) # delim /\ Last(t) # delim
      /\ \E k \in 0 .. Len(s), l \in 0 .. Len(s) :
           s = [i \in 1 .. k |-> delim] \o t \o [i \in 1 .. l |-> delim]
  BY <1>3 DEF TrimmedOf, Last
<1> HIDE DEF joined
<1>8. /\ \A k \in DOMAIN result'.split : call'.delim \notin ToSet(result'.split[k])
      /\ result'.trim # <<>> =>
           Head(result'.trim) # call'.delim /\ Last(result'.trim) # call'.delim
  BY <1>4, <1>6, <1>7, Zenon
<1>9. \E k \in 0 .. Len(call'.text), l \in 0 .. Len(call'.text) :
        call'.text = [i \in 1 .. k |-> call'.delim] \o result'.trim
                       \o [i \in 1 .. l |-> call'.delim]
  BY <1>4, <1>7, Zenon
<1>10. (CHOOSE f : f = [k \in 0 .. Len(result'.split) |->
                       IF k = 0 THEN <<>>
                       ELSE f[k - 1] \o result'.split[k] \o <<call'.delim>>])
          [Len(result'.split)]
         = IF call'.text = <<>> THEN <<>> ELSE call'.text \o <<call'.delim>>
  BY <1>4, <1>5, Zenon DEF joined
<1> QED
  BY <1>8, <1>9, <1>10, Zenon DEF OnlyDelimitersLost

\* Every call keeps the invariant.
LEMMA DivisionStep == OnlyDelimitersLost /\ [Next]_vars => OnlyDelimitersLost'
<1> SUFFICES ASSUME OnlyDelimitersLost, [Next]_vars
             PROVE  OnlyDelimitersLost'
  OBVIOUS
<1>1. CASE UNCHANGED vars
  BY <1>1 DEF vars, OnlyDelimitersLost
<1>2. ASSUME NEW s, NEW p, Search(s, p)
      PROVE  OnlyDelimitersLost'
  BY <1>2 DEF Search, OnlyDelimitersLost
<1>3. ASSUME NEW s \in BoundedSeq(Char, MaxText), NEW delim \in Char,
             Divide(s, delim)
      PROVE  OnlyDelimitersLost'
  BY <1>3, DivideIsRight
<1>4. ASSUME NEW v, NEW width, NEW from, NEW to, Transfer(v, width, from, to)
      PROVE  OnlyDelimitersLost'
  BY <1>4 DEF Transfer, OnlyDelimitersLost
<1>5. ASSUME NEW port, NEW loopBack, NEW ipv6, NEW host,
             Resolve(port, loopBack, ipv6, host)
      PROVE  OnlyDelimitersLost'
  BY <1>5 DEF Resolve, OnlyDelimitersLost
<1>6. ASSUME NEW year, NEW month, NEW milli, NEW micro,
             Format(year, month, 1, milli, micro)
      PROVE  OnlyDelimitersLost'
  BY <1>6 DEF Format, OnlyDelimitersLost
<1>7. ASSUME NEW year, NEW month, NEW day, NEW n, Shift(year, month, day, n)
      PROVE  OnlyDelimitersLost'
  BY <1>7 DEF Shift, OnlyDelimitersLost
<1>8. CASE Next
  BY <1>2, <1>3, <1>4, <1>5, <1>6, <1>7, <1>8 DEF Next
<1> QED
  BY <1>1, <1>8

\* StringSlice::split and trim, over any characters and lengths: the pieces hold no
\* delimiter and with one after each they make the text again, and trim cuts
\* exactly the delimiters at both ends.
THEOREM DivisionCorrect == Spec => []OnlyDelimitersLost
<1>1. Init => OnlyDelimitersLost
  BY DEF Init, OnlyDelimitersLost
<1> QED
  BY <1>1, DivisionStep, PTL DEF Spec
=============================================================================
