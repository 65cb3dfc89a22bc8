--------------------------------- MODULE Date ---------------------------------
(***************************************************************************)
(* potato/time/Timestamp.{h,cpp} and Date.{h,cpp}.  A time stamp is a       *)
(* number of microseconds since 1970; a Date is a record of its seconds and *)
(* of the fields of its struct tm.  mktime and localtime_r are the C        *)
(* library's, in a time zone without a change of clocks.                    *)
(***************************************************************************)
EXTENDS Integers

CONSTANTS Thousand,                \* 1000: microseconds, and milliseconds
          Sixty,                   \* 60: seconds, and minutes
          Years                    \* the years the calendar is asked for

ASSUME DateAssumption ==
  /\ Thousand \in Nat \ {0}
  /\ Sixty \in Nat \ {0}
  /\ Years \subseteq Nat

kMicroSecondsPerSecond == Thousand * Thousand
SecondsPerHour == Sixty * Sixty
SecondsPerDay == 24 * SecondsPerHour

-----------------------------------------------------------------------------
(* The C library.                                                           *)

\* Days from the first of March of the year 0 to that of year y, and within a
\* year that begins in March to the first of its month m, 0 for March.
YearStart(y) == 365 * y + y \div 4 - y \div 100 + y \div 400
MonthStart(m) == (153 * m + 2) \div 5

\* Days from 1970, for a month below 1 or above 12 and a day beyond its month.
DayNumber(year, month, day) ==
  LET m == 12 * year + month - 3
  IN  YearStart(m \div 12) + MonthStart(m % 12) + day - 1
        - (YearStart(1969) + MonthStart(10))

\* The broken-down time of a number of seconds.
LocalTime(seconds) ==
  LET d == seconds \div SecondsPerDay
      rest == seconds % SecondsPerDay
      year == CHOOSE y \in Years :
                DayNumber(y, 1, 1) <= d /\ d < DayNumber(y + 1, 1, 1)
      month == CHOOSE m \in 1 .. 12 :
                 DayNumber(year, m, 1) <= d /\ d < DayNumber(year, m + 1, 1)
  IN  [seconds |-> seconds, year |-> year, month |-> month,
       day |-> d - DayNumber(year, month, 1) + 1,
       hour |-> rest \div SecondsPerHour,
       minute |-> (rest % SecondsPerHour) \div Sixty,
       second |-> rest % Sixty,
       wday |-> (d + 4) % 7,  \* 1970 began on a Thursday, and 0 is Sunday
       yday |-> d - DayNumber(year, 1, 1)]

MkTime(year, month, day, hour, minute, second) ==
  SecondsPerDay * DayNumber(year, month, day)
    + SecondsPerHour * hour + Sixty * minute + second

-----------------------------------------------------------------------------
(* Timestamp.                                                               *)

ParseFromSeconds(seconds) == seconds * kMicroSecondsPerSecond

\* valid: the default is -1.
Valid(t) == t >= 0

\* The division of the code rounds to zero.
Quotient(a, b) == IF a >= 0 THEN a \div b ELSE -((-a) \div b)

ToSeconds(t) == Quotient(t, kMicroSecondsPerSecond)

\* What formatTo writes: the fields of the second, and milliseconds.
FormatTo(t) ==
  LET rest == t - ToSeconds(t) * kMicroSecondsPerSecond
  IN  [time |-> LocalTime(ToSeconds(t)),
       milliSeconds |-> Quotient(rest, Thousand)]

TimestampAddMicroSeconds(t, n) == t + n
TimestampAddMilliSeconds(t, n) == t + n * Thousand
TimestampAddSeconds(t, n) == t + n * kMicroSecondsPerSecond
TimestampAddMinutes(t, n) == t + n * kMicroSecondsPerSecond * Sixty
TimestampAddHour(t, n) == t + n * kMicroSecondsPerSecond * Sixty * Sixty
TimestampAddDay(t, n) == t + n * kMicroSecondsPerSecond * Sixty * Sixty * 24

-----------------------------------------------------------------------------
(* Date.                                                                    *)

\* Variant: every fourth year, centuries too.
IsLeapYearJulian(year) == year % 4 = 0

\* isLeapYear.
IsLeapYear(year) ==
  (year % 4 = 0 /\ year % 100 # 0) \/ year % 400 = 0

\* getYearDays.
GetYearDays(year) == IF IsLeapYear(year) THEN 366 ELSE 365

\* getDaysInMonth.
GetDaysInMonth(year, month) ==
  IF month = 2 /\ IsLeapYear(year) THEN 29
  ELSE <<31, 28, 31, 30, 31, 30, 31, 31, 30, 31, 30, 31>>[month]

\* Date(Timestamp) and Date(time_t).
DateOf(t) == LocalTime(ToSeconds(t))

\* Date(year, month, day, hour, minute, second): mktime normalises the fields.
DateFromFields(year, month, day, hour, minute, second) ==
  LocalTime(MkTime(year, month, day, hour, minute, second))

ToTimestamp(d) == ParseFromSeconds(d.seconds)

\* weekday, of which Sunday is the seventh.
Weekday(d) == IF d.wday = 0 THEN 7 ELSE d.wday

\* dayInYear, daysInMonth and daysInYear.
DayInYear(d) == d.yday + 1
DaysInMonth(d) == GetDaysInMonth(d.year, d.month)
DaysInYear(d) == GetYearDays(d.year)

\* operator== and operator<, from which the other comparisons are made.
Equal(d, e) == ToTimestamp(d) = ToTimestamp(e)
Before(d, e) == ToTimestamp(d) < ToTimestamp(e)

AddSeconds(d, n) == DateOf(TimestampAddSeconds(ToTimestamp(d), n))
AddMinutes(d, n) == DateOf(TimestampAddMinutes(ToTimestamp(d), n))
AddHours(d, n) == DateOf(TimestampAddHour(ToTimestamp(d), n))
AddDays(d, n) == DateOf(TimestampAddDay(ToTimestamp(d), n))

\* addMonths and addYears hand the sum to the constructor.
AddMonths(d, n) ==
  DateFromFields(d.year, d.month + n, d.day, d.hour, d.minute, d.second)

AddYears(d, n) ==
  DateFromFields(d.year + n, d.month, d.day, d.hour, d.minute, d.second)

\* dayDistance.
DayDistance(d, e) ==
  LET s == d.seconds - e.seconds
  IN  (IF s < 0 THEN -s ELSE s) \div SecondsPerDay
=============================================================================
