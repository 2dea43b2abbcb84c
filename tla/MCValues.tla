------------------------------ MODULE MCValues ------------------------------
(***************************************************************************)
(* Values for TLC: every text of up to four bytes and texts at the limits  *)
(* of the integer types; dates around the limits of years, months and days *)
(* with times of every length; the points a program pushes at the borders  *)
(* of months.                                                              *)
(***************************************************************************)
EXTENDS Values

CONSTANTS Years, PushedYears, OddBytes, Before1970

Text(n, width) == [i \in 1 .. width |-> Zero + ((n \div 10 ^ (width - i)) % 10)]
Signs == {<<>>, <<Minus>>}

\* All texts of few bytes.
ShortTexts == BoundedSeq({Minus, Dot} \cup {Zero + d : d \in {0, 1, 2, 8}} \cup OddBytes, 4)

\* The numbers next to the limits, with a point at every place, and a fraction
\* that counts the exponent through its type.
LimitTexts ==
  LET plain == {sign \o Numeral[n + k] : sign \in Signs, n \in {127, 255, 32767, 65535}, k \in -2 .. 12}
               \cup {sign \o Numeral[n] : sign \in Signs, n \in {990, 9999, 10000, 99990, 100000}}
  IN  plain \cup UNION {{InsertAt(s, i, Dot) : i \in 2 .. Len(s)} : s \in plain}
        \cup {<<Zero, Dot>> \o [i \in 1 .. n |-> Zero] : n \in {126, 128, 129}}

Clock(h, m, s) == Text(h, 2) \o <<Colon>> \o Text(m, 2) \o <<Colon>> \o Text(s, 2)
Clocks    == {Clock(0, 0, 0), Clock(23, 59, 59), Clock(99, 60, 61), Clock(12, 34, 56)}
Fractions == {<<>>} \cup UNION {{<<Dot>> \o Text(n, w) : n \in {1, 10 ^ (w - 1), 10 ^ w - 1}} : w \in 2 .. 9}
TimeTexts == {c \o f : c \in Clocks, f \in Fractions}
DateTexts ==
  {Text(y, 4) \o Text(m, 2) \o Text(d, 2) : y \in Years, m \in 0 .. 13, d \in {0, 1, 28, 29, 30, 31, 32}}
    \cup {Text(y, 4) \o Text(m, 2) : y \in Years, m \in 0 .. 13}

\* Timestamps: every date at one time, some dates at every time, and texts that
\* are cut short or hold other bytes.
StampTexts ==
  {d \o <<Dash>> \o Clock(12, 34, 56) : d \in DateTexts}
    \cup {Text(y, 4) \o Text(1231, 4) \o <<Dash>> \o t : y \in {1969, 1970, 2024, 2200, 2201}, t \in TimeTexts}
    \cup {SubSeq(Text(20240229, 8) \o <<Dash>> \o Clock(12, 34, 56), 1, n) : n \in 0 .. 17}
    \cup {ReplaceAt(Text(20240229, 8) \o <<Dash>> \o Clock(12, 34, 56), i, c) : i \in 1 .. 17, c \in OddBytes}

MCTexts == ShortTexts \cup LimitTexts \cup TimeTexts \cup DateTexts \cup StampTexts

MCIntegers == (-130 .. 130) \cup {-32769, -32768, 32767, 32768, 65535, 65536, 1000000}
MCMantissas == {-128, -127, -100, -10, -9, -1, 0, 1, 9, 10, 99, 100, 127}
MCExponents == -6 .. 2

\* The first, the last but one and the last day of every month, each at three
\* times; two days before 1970 at their ends, for the run that asks for these.
Borders ==
  UNION {{DaysBefore(y, m), DaysBefore(y, m) + MonthLength(y, m) - 2, DaysBefore(y, m) + MonthLength(y, m) - 1} :
           y \in PushedYears, m \in 1 .. 12}
MCTimes ==
  {[day |-> 0, second |-> s, nano |-> n] :
     s \in {0, 59, 3599, 3600, 45296, 86399}, n \in {0, 1, 999999, 1000000, 123456789, 999999999}}
MCTimePoints ==
  {[day |-> d, second |-> t[1], nano |-> t[2]] : d \in Borders, t \in {<<0, 0>>, <<45296, 7654321>>, <<86399, 999999999>>}}
    \cup (IF Before1970 THEN {[t EXCEPT !.day = d] : t \in MCTimes, d \in {-1, -2}} ELSE {})
=============================================================================
