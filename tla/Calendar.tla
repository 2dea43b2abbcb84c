------------------------------ MODULE Calendar ------------------------------
(***************************************************************************)
(* How dates, times of day and timestamps are read from a field's value    *)
(* and printed into it, as parts or as points of time.  A point of time is *)
(* the day since 1970-01-01, the second of the day and the nanosecond of   *)
(* the second; the code has one count of its clock's units.                *)
(***************************************************************************)
EXTENDS Numbers, SequencesExt

Dash  == 45   \* '-'
Colon == 58   \* ':'

MinSupportedYear == 1970
MaxSupportedYear == 2200

----------------------------------------------------------------------------
(* Reading parts: lengths are checked, bytes are not *)

AtoDate(s) ==
  LET n == ParseEight(s, 0)
  IN  IF Len(s) # 8 THEN Refused
      ELSE Result(TRUE, [year |-> n \div 10000, month |-> (n \div 100) % 100, day |-> n % 100])

\* Of six bytes no number reaches this modulus, nor the code's 2^32.
IntModulus == 1048576
AtoMonthYear(s) ==
  IF Len(s) # 6 THEN Refused
  ELSE Result(TRUE, [year  |-> Atoi(Slice(s, 0, 4), IntModulus),
                     month |-> Atoi(Slice(s, 4, 6), IntModulus)])

HourMinuteSecond(s) ==
  [hour |-> ParseTwo(s, 0), minute |-> ParseTwo(s, 3), second |-> ParseTwo(s, 6)]

\* Three, six and nine digits behind the seconds.
Fraction3(s) == ParseTwo(s, 9) * 10 + (Char(At(s, 11)) - Zero)
Fraction6(s) == ParseFour(s, 9) * 100 + ParseTwo(s, 13)
Fraction9(s) == ParseEight(s, 9) * 10 + (Char(At(s, 17)) - Zero)

AtoTime(s) ==
  IF Len(s) \notin {8, 12} THEN Refused
  ELSE Result(TRUE, HourMinuteSecond(s) @@
                    [fraction |-> IF Len(s) = 12 THEN Fraction3(s) ELSE 0])

\* Hour, minute and second are set before the fraction's length is looked at;
\* without a fraction the time is refused.
AtoTimeNano(s) ==
  IF Len(s) < 8 THEN Refused
  ELSE IF Len(s) \notin {12, 15, 18} THEN Result(FALSE, HourMinuteSecond(s))
  ELSE Result(TRUE, HourMinuteSecond(s) @@
         [fraction |-> IF Len(s) = 12 THEN Fraction3(s) * 1000000
                       ELSE IF Len(s) = 15 THEN Fraction6(s) * 1000
                       ELSE Fraction9(s)])

\* The time behind the ninth byte, then the date: of eight bytes, always one.
\* Faulty: the date is read first, and stays when the time is refused.
DatePart(s) == AtoDate(Slice(s, 0, 8))
TimePart(s) == Slice(s, 9, Len(s))
DateFirst(s, time) ==
  IF Len(s) < 8 THEN time ELSE Result(time.ok, time.out @@ DatePart(s).out)
AtoTimestamp(s, time) == IF ~time.ok THEN time ELSE Result(TRUE, time.out @@ DatePart(s).out)

----------------------------------------------------------------------------
(* Points of time: Howard Hinnant's algorithms *)

\* The year begins in March.
YearFromMarch(year, month) == IF month <= 2 THEN year - 1 ELSE year

DaysFromCivil(year, month, day) ==
  LET y   == YearFromMarch(year, month)
      era == y \div 400
      yoe == y - era * 400
      doy == (153 * (month + (IF month > 2 THEN -3 ELSE 9)) + 2) \div 5 + day - 1
      doe == yoe * 365 + yoe \div 4 - yoe \div 100 + doy
  IN  era * 146097 + doe - 719468

\* The inverse, for days from the year 0 on.  Faulty: the leap day of the
\* fourth century is forgotten.
YearOfEraShort(doe) == (doe - doe \div 1460 + doe \div 36524) \div 365
YearOfEra(doe)      == (doe - doe \div 1460 + doe \div 36524 - doe \div 146096) \div 365

CivilFromDays(day) ==
  LET shifted == day + 719468
      era     == shifted \div 146097
      doe     == shifted - era * 146097
      yoe     == YearOfEra(doe)
      doy     == doe - (365 * yoe + yoe \div 4 - yoe \div 100)
      mp      == (5 * doy + 2) \div 153
      month   == mp + (IF mp < 10 THEN 3 ELSE -9)
  IN  [year  |-> yoe + era * 400 + (IF month <= 2 THEN 1 ELSE 0),
       month |-> month,
       day   |-> doy - (153 * mp + 2) \div 5 + 1]

\* Faulty: only the first year is looked at.
InRangeBelow(date) == date.year >= MinSupportedYear
InRange(date) ==
  /\ date.year \in MinSupportedYear .. MaxSupportedYear
  /\ date.month \in 1 .. 12
  /\ date.day \in 1 .. 31

\* days * 86400 + hour * 3600 + minute * 60 + second, and the fraction.
PointOf(day, seconds, nano) ==
  [day |-> day + seconds \div 86400, second |-> seconds % 86400, nano |-> nano]
SecondsOf(time) == time.hour * 3600 + time.minute * 60 + time.second

AtoTimePoint(s, time, unit) ==
  LET date == DatePart(s)
  IN  IF Len(s) < 9 \/ ~time.ok \/ ~InRange(date.out) THEN Refused
      ELSE Result(TRUE, [timepoint |->
             PointOf(DaysFromCivil(date.out.year, date.out.month, date.out.day),
                     SecondsOf(time.out), time.out.fraction * unit)])

\* as_timeonly and as_timeonly_nano into a duration.
AtoDuration(time, unit) ==
  IF ~time.ok THEN Refused
  ELSE Result(TRUE, [timepoint |-> PointOf(0, SecondsOf(time.out), time.out.fraction * unit)])

\* epoch_sec and its remainder round towards zero: a point before 1970 belongs
\* to the day that begins after it, and what is left of it is negative.
MidnightOf(tp) == tp.second = 0 /\ tp.nano = 0
DayOf(tp)      == IF tp.day < 0 /\ ~MidnightOf(tp) THEN tp.day + 1 ELSE tp.day

\* The rest of the day in units of the fraction, each part with its sign.
TimePointToParts(tp, unit) ==
  LET sign   == IF DayOf(tp) = tp.day THEN 1 ELSE -1
      second == IF sign = 1 THEN tp.second
                ELSE 86400 - tp.second - (IF tp.nano > 0 THEN 1 ELSE 0)
      nano   == IF sign = 1 \/ tp.nano = 0 THEN tp.nano ELSE 1000000000 - tp.nano
  IN  CivilFromDays(DayOf(tp)) @@
      [hour     |-> sign * (second \div 3600),
       minute   |-> sign * ((second % 3600) \div 60),
       second   |-> sign * (second % 60),
       fraction |-> sign * (nano \div unit)]

----------------------------------------------------------------------------
(* Printing *)

DateText(p)      == Padded(p.year, 4) \o Padded(p.month, 2) \o Padded(p.day, 2)
MonthYearText(p) == Padded(p.year, 4) \o Padded(p.month, 2)

\* Without a fraction its width is 0.
TimeText(p, width) ==
  Padded(p.hour, 2) \o <<Colon>> \o Padded(p.minute, 2) \o <<Colon>> \o Padded(p.second, 2)
    \o (IF width = 0 THEN <<>> ELSE <<Dot>> \o Padded(p.fraction, width))
TimestampText(p, width) == DateText(p) \o <<Dash>> \o TimeText(p, width)

\* The parts of a duration: hours, and what remains of each unit.
DurationParts(d, unit) ==
  [hour |-> d.second \div 3600, minute |-> (d.second % 3600) \div 60,
   second |-> d.second % 60, fraction |-> d.nano \div unit]
=============================================================================
