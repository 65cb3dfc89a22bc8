-------------------------------- MODULE Values --------------------------------
(***************************************************************************)
(* The classes of libpotato that are values: a caller uses one of them, and *)
(* what it gets is compared with what the class promises.                   *)
(***************************************************************************)
EXTENDS StringSlice, IpAddress, Date

CONSTANTS Char,      \* characters
          MaxText,   \* bound: length of a text
          MaxPattern,\* bound: length of a pattern
          Days,      \* days of a month that are added to
          MaxMonths  \* bound: months added

ASSUME ValuesAssumption ==
  /\ Days \subseteq Nat \ {0}
  /\ MaxMonths \in Nat

VARIABLES call,  \* what was called, with its arguments
          result

vars == <<call, result>>

Init == call = [op |-> "none"] /\ result = <<>>

\* find(slice) and find(char).
Search(s, p) ==
  /\ call' = [op |-> "find", text |-> s, pattern |-> p]
  /\ result' = [slice |-> Find(s, p),
                char |-> IF Len(p) = 1 THEN FindChar(s, p[1]) ELSE npos]

\* split and trim.
Divide(s, delim) ==
  /\ call' = [op |-> "split", text |-> s, delim |-> delim]
  /\ result' = [split |-> Split(s, delim), trim |-> Trim(s, delim)]

\* An integer written twice by one host and retrieved twice by another.
Transfer(v, width, from, to) ==
  LET bytes == WriteInt(v, width, from) \o WriteInt(v, width, from)
      first == Retrieve(bytes, width, to)
      second == Retrieve(first.rest, width, to)
  IN  /\ call' = [op |-> "transfer", value |-> v, width |-> width]
      /\ result' = [bytes |-> bytes, first |-> first, second |-> second]

\* The address of a port, made and asked on one host.
Resolve(port, loopBack, ipv6, host) ==
  LET address == IpAddressOf(port, loopBack, ipv6, host)
  IN  /\ call' = [op |-> "address", port |-> port, loopBack |-> loopBack,
                  ipv6 |-> ipv6]
      /\ result' = [port |-> Port(address, host), ipv6 |-> Ipv6(address),
                    sent |-> Memory(address.port, 2, host),
                    addr |-> IF ipv6 THEN <<>>
                                     ELSE Memory(address.addr, 4, host)]

\* Micro- and milliseconds added to the first moment of a day, and the text of
\* the sum.
Format(year, month, day, milli, micro) ==
  LET midnight == ToTimestamp(DateFromFields(year, month, day, 0, 0, 0))
      t == TimestampAddMicroSeconds(
             TimestampAddMilliSeconds(midnight, milli), micro)
  IN  /\ Valid(t)
      /\ call' = [op |-> "format", time |-> t]
      /\ result' = FormatTo(t)

\* addMonths, addDays and dayDistance for a day at a late hour.
Shift(year, month, day, n) ==
  LET d == DateFromFields(year, month, day, 23, Sixty - 1, Sixty - 1)
      e == AddMonths(d, n)
  IN  /\ call' = [op |-> "shift", date |-> d, months |-> n]
      /\ result' = [date |-> e, distance |-> DayDistance(e, d),
                    back |-> AddDays(e, -DayDistance(e, d)),
                    year |-> AddYears(d, 1),
                    clock |-> AddSeconds(AddMinutes(AddHours(d, -23),
                                                    -(Sixty - 1)), 1 - Sixty)]

Next ==
  /\ call.op = "none"
  /\ \/ \E s \in BoundedSeq(Char, MaxText), p \in BoundedSeq(Char, MaxPattern) :
          Search(s, p)
     \/ \E s \in BoundedSeq(Char, MaxText), delim \in Char : Divide(s, delim)
     \/ \E width \in Widths, from \in BOOLEAN, to \in BOOLEAN :
          \E v \in -(Capacity(width) \div 2) .. Capacity(width) - 1 :
            Transfer(v, width, from, to)
     \/ \E port \in 0 .. Capacity(2) - 1, loopBack \in BOOLEAN,
           ipv6 \in BOOLEAN, host \in BOOLEAN :
          Resolve(port, loopBack, ipv6, host)
     \/ \E year \in Years, month \in {1, 3}, milli \in -1 .. Thousand,
           micro \in -1 .. Thousand :
          /\ year + 1 \in Years
          /\ year - 1 \in Years \/ milli * Thousand + micro >= 0
          /\ Format(year, month, 1, milli, micro)
     \/ \E year \in Years, month \in 1 .. 12, day \in Days,
           n \in 0 .. MaxMonths :
          /\ {year + 1, (12 * year + month - 1 + n) \div 12} \subseteq Years
          /\ day <= GetDaysInMonth(year, month)
          /\ Shift(year, month, day, n)

Spec == Init /\ [][Next]_vars

-----------------------------------------------------------------------------
\* p stands in s at position i.
StandsAt(s, p, i) ==
  i + Len(p) <= Len(s) /\ SubSeq(s, i + 1, i + Len(p)) = p

\* find returns the first position at which the pattern stands, and npos if
\* there is none or the pattern is empty: falling back to a border after a
\* mismatch skips no occurrence, however the pattern overlaps itself.
FindIsFirst ==
  call.op = "find" =>
    LET at == {i \in 0 .. Len(call.text) - 1 :
                 StandsAt(call.text, call.pattern, i)}
        first == IF call.pattern = <<>> \/ at = {} THEN npos
                 ELSE CHOOSE i \in at : \A j \in at : i <= j
    IN  /\ result.slice = first
        /\ Len(call.pattern) = 1 => result.char = first

\* split cuts at every delimiter and loses nothing else, pieces of no
\* characters included: joined, the pieces with a delimiter after each, is the
\* text with one more; trim takes away delimiters at the ends, and all.
OnlyDelimitersLost ==
  call.op = "split" =>
    LET s == call.text
        delim == call.delim
        t == result.trim
        pieces == result.split
        joined[k \in 0 .. Len(pieces)] ==
          IF k = 0 THEN <<>> ELSE joined[k - 1] \o pieces[k] \o <<delim>>
        ends(k, l) == [i \in 1 .. k |-> delim] \o t \o [i \in 1 .. l |-> delim]
    IN  /\ \A i \in DOMAIN pieces : delim \notin ToSet(pieces[i])
        /\ joined[Len(pieces)] = IF s = <<>> THEN <<>> ELSE s \o <<delim>>
        /\ t # <<>> => Head(t) # delim /\ Last(t) # delim
        /\ \E k \in 0 .. Len(s), l \in 0 .. Len(s) : s = ends(k, l)

\* The bytes of v, the most significant one first.
BigEndian(v, width) ==
  [i \in 1 .. width |-> (ToUnsigned(v, width) \div Capacity(width - i)) % Radix]

\* An integer arrives as it was sent, whichever order the two hosts keep their
\* bytes in, and leaves the next one whole; the most significant byte goes
\* first, as it does in the port and the address that the kernel reads: a
\* loopback address is 127.0.0.1 on every host.
IntegersArrive ==
  /\ call.op = "transfer" =>
       LET v == call.value
           width == call.width
       IN  /\ \A read \in {result.first, result.second} :
                /\ 2 * v < Capacity(width) => read.signed = v
                /\ v >= 0 => read.unsigned = v
           /\ result.second.rest = <<>>
           /\ SubSeq(result.bytes, 1, width) = BigEndian(v, width)
  /\ call.op = "address" =>
       /\ result.port = call.port /\ result.ipv6 = call.ipv6
       /\ result.sent = BigEndian(call.port, 2)
       /\ ~call.ipv6 =>
            result.addr = IF call.loopBack THEN <<Radix \div 2 - 1, 0, 0, 1>>
                                           ELSE <<0, 0, 0, 0>>

\* addYears(1) leads from d to f: the same day and time of the next year, and
\* from February 29, which that year lacks, to March 1.
YearLater(d, f) ==
  /\ f.year = d.year + 1
  /\ IF d.month = 2 /\ d.day = 29
       THEN f.month = 3 /\ f.day = 1
       ELSE f.month = d.month /\ f.day = d.day
  /\ f.hour = d.hour /\ f.minute = d.minute /\ f.second = d.second

\* The code's own lengths of months and years are those of the C library's
\* calendar, on which addMonths and dayDistance rest: adding months leads to the
\* same day of the month if the month reached has it, otherwise past that
\* month's end by as many days as it lacks, and as many days back to the start;
\* adding a year likewise.
\* Weekdays go round with the days, the days of the year are counted by the
\* lengths of its months, and dates are ordered as their fields are.
ShiftAgrees(d, n, r) ==
  LET e == r.date
      m == 12 * d.year + d.month - 1 + n
      days == GetDaysInMonth(m \div 12, (m % 12) + 1)
      first(k) == DateFromFields(e.year, k, 1, 0, 0, 0)
  IN  /\ IF d.day <= days
           THEN e.day = d.day /\ 12 * e.year + e.month - 1 = m
           ELSE e.day = d.day - days /\ 12 * e.year + e.month - 1 = m + 1
      /\ Equal(r.back, d) /\ r.back = d
      /\ (n = 1 /\ d.day = 1) => r.distance = DaysInMonth(d)
      /\ (d.month = 1 /\ d.day = 1) => DayDistance(r.year, d) = DaysInYear(d)
      /\ YearLater(d, r.year)
      /\ r.clock = DateFromFields(d.year, d.month, d.day, 0, 0, 0)
      /\ Weekday(e) = ((Weekday(d) + r.distance - 1) % 7) + 1
      /\ DayInYear(e) = DayInYear(first(e.month)) + e.day - 1
      /\ \A k \in 1 .. e.month :
           DayInYear(first(k)) =
             IF k = 1 THEN 1
             ELSE DayInYear(first(k - 1)) + GetDaysInMonth(e.year, k - 1)
      /\ Before(r.clock, d) /\ (Before(d, e) <=> n > 0)

\* A text with milliseconds stands for the latest millisecond that is not
\* after the time stamp.
FormatAgrees(t, r) ==
  LET f == r.time
      shown == ParseFromSeconds(MkTime(f.year, f.month, f.day, f.hour,
                                       f.minute, f.second))
                 + r.milliSeconds * Thousand
  IN  /\ shown <= t /\ t < shown + Thousand
      /\ r.milliSeconds \in 0 .. Thousand - 1

\* Dates, time stamps and what is written of them agree with the calendar.
CalendarAgrees ==
  /\ call.op = "shift" => ShiftAgrees(call.date, call.months, result)
  /\ call.op = "format" => FormatAgrees(call.time, result)
=============================================================================
