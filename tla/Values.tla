------------------------------- MODULE Values -------------------------------
(***************************************************************************)
(* A field's value: printed by message_writer's push_back functions, or    *)
(* whatever came over the wire, and read by an accessor of field_value.    *)
(* The accessor returns a verdict and sets variables of the caller.        *)
(***************************************************************************)
EXTENDS Calendar

CONSTANTS
  Texts,       \* values that come over the wire
  Moduli,      \* integer types, by their moduli
  Integers,    \* integers a program pushes
  Mantissas,   \* decimals a program pushes, of the smallest type
  Exponents,
  TimePoints,  \* points of time it pushes
  Times,       \* times of day, as points of the first day
  Untouched    \* what no call has set

VARIABLES
  text,        \* the bytes from begin() to end()
  pushed,      \* history: what was printed, or Untouched
  called,      \* history: the accessor that was called, or Untouched
  ok,          \* what it returned
  params       \* the caller's variables

valueVars == <<text, pushed, called, ok, params>>

Outs == {"number", "mantissa", "exponent", "year", "month", "day",
         "hour", "minute", "second", "fraction", "timepoint"}
Fresh == [v \in Outs |-> Untouched]

ValueInit ==
  /\ text \in Texts
  /\ pushed = Untouched
  /\ called = Untouched
  /\ ok = FALSE
  /\ params = Fresh

----------------------------------------------------------------------------
(* Printing: the width of a fraction is 0, 3 or 9 digits *)

Millis == 1000000
Nanos  == 1
Widths == {0, 3, 9}
UnitOf(width) == CASE width = 0 -> 1000000000 [] width = 3 -> Millis [] width = 9 -> Nanos

NothingYet == text = <<>> /\ pushed = Untouched /\ called = Untouched

Push(what, bytes) ==
  /\ NothingYet
  /\ pushed' = what
  /\ text' = bytes
  /\ UNCHANGED <<called, ok, params>>

PushInt(n) == Push([as |-> "int", number |-> n], Itoa(n))
PushDecimal(n, e) == Push([as |-> "decimal", mantissa |-> n, exponent |-> e], Dtoa(n, e))

\* The overloads without a fraction take parts, of a point since 1970 here.
Civil == {tp \in TimePoints : tp.day >= 0}
Takes(width) == IF width = 0 THEN Civil ELSE TimePoints

PushDate(tp) ==
  Push([as |-> "date", timepoint |-> tp], DateText(TimePointToParts(tp, UnitOf(0))))
PushMonthYear(tp) ==
  Push([as |-> "monthyear", timepoint |-> tp], MonthYearText(TimePointToParts(tp, UnitOf(0))))
PushTimeOnly(t, width) ==
  Push([as |-> "time", timepoint |-> t, width |-> width],
       TimeText(DurationParts(t, UnitOf(width)), width))
PushTimestamp(tp, width) ==
  Push([as |-> "timestamp", timepoint |-> tp, width |-> width],
       TimestampText(TimePointToParts(tp, UnitOf(width)), width))

----------------------------------------------------------------------------
(* Reading *)

Call(accessor, result) ==
  /\ called = Untouched
  /\ called' = accessor
  /\ ok' = result.ok
  /\ params' = IF result.out = <<>> THEN Fresh ELSE result.out @@ Fresh
  /\ UNCHANGED <<text, pushed>>

TryAsInt ==
  \E modulus \in Moduli : Call([as |-> "int", modulus |-> modulus], TryAtoi(text, modulus))
TryAsUint ==
  \E modulus \in Moduli : Call([as |-> "uint", modulus |-> modulus], TryAtou(text, modulus))
TryAsDecimal ==
  \E modulus \in Moduli : Call([as |-> "decimal", modulus |-> modulus], TryAtod(text, modulus))

AsDate          == Call([as |-> "date"], AtoDate(text))
AsMonthYear     == Call([as |-> "monthyear"], AtoMonthYear(text))
AsTimeOnly      == Call([as |-> "time", unit |-> Millis], AtoTime(text))
AsTimeOnlyNano  == Call([as |-> "time", unit |-> Nanos], AtoTimeNano(text))
AsTimestamp     == Call([as |-> "timestamp", unit |-> Millis],
                        AtoTimestamp(text, AtoTime(TimePart(text))))
AsTimestampNano == Call([as |-> "timestamp", unit |-> Nanos],
                        AtoTimestamp(text, AtoTimeNano(TimePart(text))))
AsDuration      == Call([as |-> "duration", unit |-> Millis], AtoDuration(AtoTime(text), Millis))
AsDurationNano  == Call([as |-> "duration", unit |-> Nanos], AtoDuration(AtoTimeNano(text), Nanos))
AsTimePoint     == Call([as |-> "timepoint", unit |-> Millis],
                        AtoTimePoint(text, AtoTime(TimePart(text)), Millis))
AsTimePointNano == Call([as |-> "timepoint", unit |-> Nanos],
                        AtoTimePoint(text, AtoTimeNano(TimePart(text)), Nanos))

PushAny ==
  \/ \E n \in Integers : PushInt(n)
  \/ \E n \in Mantissas, e \in Exponents : PushDecimal(n, e)
  \/ \E tp \in Civil : PushDate(tp) \/ PushMonthYear(tp)
  \/ \E t \in Times, width \in Widths : PushTimeOnly(t, width)
  \/ \E width \in Widths : \E tp \in Takes(width) : PushTimestamp(tp, width)

ReadAny ==
  \/ TryAsInt \/ TryAsUint \/ TryAsDecimal
  \/ AsDate \/ AsMonthYear \/ AsTimeOnly \/ AsTimeOnlyNano
  \/ AsTimestamp \/ AsTimestampNano
  \/ AsDuration \/ AsDurationNano \/ AsTimePoint \/ AsTimePointNano

ValueNext == PushAny \/ ReadAny
ValueSpec == ValueInit /\ [][ValueNext]_valueVars

----------------------------------------------------------------------------
(* What the conversions are held against: sums of digits by their places,  *)
(* and a calendar counted year by year and month by month                  *)

AllDigits(s) == \A i \in 1 .. Len(s) : s[i] \in Digits
ByPlace(s)   == MapThenSumSet(LAMBDA i : (s[i] - Zero) * 10 ^ (Len(s) - i),
                              {i \in 1 .. Len(s) : s[i] # Zero})
Number(s)    == IF HasSign(s) THEN -ByPlace(Tail(s)) ELSE ByPlace(s)
Unpointed(s) == SelectSeq(s, LAMBDA c : c # Dot)
InType(n, modulus) == n \in -(modulus \div 2) .. modulus \div 2 - 1

LeapYear(y) == y % 4 = 0 /\ (y % 100 # 0 \/ y % 400 = 0)
MonthLength(y, m) ==
  CASE m = 2 -> IF LeapYear(y) THEN 29 ELSE 28 [] m \in {4, 6, 9, 11} -> 30 [] OTHER -> 31
DaysBeforeYear(y) ==
  365 * (y - 1970) + Cardinality({z \in 1970 .. y - 1 : LeapYear(z)})
DaysBeforeMonth(y, m) == MapThenSumSet(LAMBDA k : MonthLength(y, k), 1 .. m - 1)
DaysBefore(y, m)      == DaysBeforeYear(y) + DaysBeforeMonth(y, m)

\* The parts of a text, read by place: a time of eight bytes or more, whose
\* fraction is counted in units, and a date of eight.
Part(s, i, j) == ByPlace(Slice(s, i, j))
TimeDigits(s) == Slice(s, 0, 2) \o Slice(s, 3, 5) \o Slice(s, 6, 8) \o Slice(s, 9, Len(s))
NanoOf(s)     == IF Len(s) = 8 THEN 0 ELSE Part(s, 9, Len(s)) * 10 ^ (18 - Len(s))
DatesParts(s) == [year |-> Part(s, 0, 4), month |-> Part(s, 4, 6), day |-> Part(s, 6, 8)]
TimesParts(s, unit) ==
  [hour |-> Part(s, 0, 2), minute |-> Part(s, 3, 5), second |-> Part(s, 6, 8),
   fraction |-> NanoOf(s) \div unit]
TimeLengths(unit) == IF unit = Millis THEN {8, 12} ELSE {12, 15, 18}
Stamp(s) == Len(s) >= 17 /\ AllDigits(Slice(s, 0, 8)) /\ AllDigits(TimeDigits(TimePart(s)))

Agrees(parts) == \A v \in DOMAIN parts : params[v] = parts[v]
Asked(as)    == called # Untouched /\ called.as = as

----------------------------------------------------------------------------
(* Properties *)

\* try_as_int: exactly the texts that spell a number of the type are accepted,
\* up to its last value on both sides, and read as that number.
Spelled(digits, number, fits) ==
  /\ ok = (digits # <<>> /\ AllDigits(digits) /\ fits)
  /\ ok => params.number = number
IntsAreRead ==
  /\ Asked("int") =>
       Spelled(Magnitude(text), Number(text), InType(Number(text), called.modulus))
  /\ Asked("uint") => Spelled(text, ByPlace(text), ByPlace(text) < called.modulus)

\* try_as_decimal: at most one point, a digit, and a mantissa of the type; the
\* exponent is the number of digits behind the point, for as many as the
\* exponent's type can count.
DecimalsAreRead ==
  Asked("decimal") /\ Len(text) <= 128 =>
    LET digits == Unpointed(Magnitude(text))
        spells == /\ Cardinality(Points(text)) <= 1
                  /\ digits # <<>> /\ AllDigits(digits)
                  /\ InType(Number(Unpointed(text)), called.modulus)
    IN  /\ ok = spells
        /\ ok => /\ params.mantissa = Number(Unpointed(text))
                 /\ \A i \in Points(text) : params.exponent = i + 1 - Len(text)
                 /\ Points(text) = {} => params.exponent = 0

\* The checked conversions accept exactly the numbers of their types; and what
\* they accept, as_int_unchecked and as_decimal_unchecked read alike.
NumbersExact ==
  /\ IntsAreRead /\ DecimalsAreRead
  /\ Asked("int") /\ ok => Atoi(text, called.modulus) = params.number
  /\ Asked("uint") /\ ok => Unsigned(text, 0, Len(text), called.modulus) = params.number
  /\ Asked("decimal") /\ ok => Agrees(Atod(text, called.modulus))

\* The parallel digit parsers read dates, times and fractions digit by digit.
PartsAreRead ==
  /\ Asked("date") /\ ok /\ AllDigits(text) => Agrees(DatesParts(text))
  /\ Asked("monthyear") /\ ok /\ AllDigits(text) =>
       Agrees([year |-> Part(text, 0, 4), month |-> Part(text, 4, 6)])
  /\ Asked("time") /\ ok /\ AllDigits(TimeDigits(text)) => Agrees(TimesParts(text, called.unit))
  /\ Asked("timestamp") /\ ok /\ Stamp(text) =>
       Agrees(TimesParts(TimePart(text), called.unit) @@ DatesParts(text))

\* as_timestamp into a time point, as_epoch_millis, as_epoch_nanos: exactly the
\* supported years and plausible months and days are accepted, and mean the day
\* that counting months and years gives; a day that its month does not have
\* means one of the next month.
PointsAreRead ==
  /\ Asked("timepoint") /\ ok => Len(text) - 9 \in TimeLengths(called.unit)
  /\ Asked("timepoint") /\ Stamp(text) =>
    LET date == DatesParts(text)
        time == TimesParts(TimePart(text), Nanos)
        day  == DaysBefore(date.year, date.month) + date.day - 1
    IN  /\ ok <=> /\ Len(text) - 9 \in TimeLengths(called.unit)
                  /\ date.year \in MinSupportedYear .. MaxSupportedYear
                  /\ date.month \in 1 .. 12 /\ date.day \in 1 .. 31
        /\ ok => params.timepoint = PointOf(day, SecondsOf(time), time.fraction)

\* What is refused sets none of the caller's variables; of as_timeonly_nano and
\* as_timestamp_nano see SetOnlyOnSuccess.
NanoParts == (Asked("time") \/ Asked("timestamp")) /\ called.unit = Nanos
RefusedSetsNothing == called # Untouched /\ ~ok /\ ~NanoParts => params = Fresh

\* Dates and times mean what their digits say, part by part and as points of
\* time; only plausible ones are accepted as points of time, and nothing is set
\* for the others.
DatesExact == PartsAreRead /\ PointsAreRead /\ RefusedSetsNothing

\* A pushed number is read back by try_as_int and try_as_decimal of a type that
\* holds it; of a decimal, also how many digits it was given behind the point.
NumbersComeBack ==
  pushed # Untouched =>
    /\ pushed.as = "int" /\ Asked("int") /\ InType(pushed.number, called.modulus) =>
         ok /\ params.number = pushed.number
    /\ pushed.as = "decimal" /\ Asked("decimal") /\ pushed.exponent <= 0 =>
         ok /\ params.mantissa = pushed.mantissa /\ params.exponent = pushed.exponent

\* A pushed time point or duration is read back, less what the printed digits
\* of the fraction do not say.
Cut(tp, width) == [tp EXCEPT !.nano = @ - (@ % UnitOf(width))]
TimesComeBack ==
  pushed # Untouched /\ called # Untouched /\ pushed.as \in {"time", "timestamp"} =>
    LET tp     == pushed.timepoint
        length == 8 + (IF pushed.width = 0 THEN 0 ELSE pushed.width + 1)
        asked  == \/ pushed.as = "time" /\ Asked("duration")
                  \/ /\ pushed.as = "timestamp" /\ Asked("timepoint")
                     /\ tp.day \in 0 .. DaysBeforeYear(MaxSupportedYear + 1) - 1
    IN  asked /\ length \in TimeLengths(called.unit) =>
          ok /\ params.timepoint = Cut(tp, pushed.width)

\* What one of the push_back functions prints, the accessor of the same kind
\* reads back.
ReadBack == NumbersComeBack /\ TimesComeBack

\* as_timeonly_nano and as_timestamp_nano: "Out-params set only on success".
SetOnlyOnSuccess == NanoParts /\ ~ok => params = Fresh

\* The timestamp of a signed epoch count is made of digits ("UTCTimestamp from
\* raw signed epoch milliseconds").
SignedEpochs ==
  pushed # Untouched /\ pushed.as = "timestamp" => Stamp(text)
=============================================================================
