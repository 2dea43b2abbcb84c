------------------------------ MODULE Numbers ------------------------------
(***************************************************************************)
(* How numbers are read from the bytes of a field's value and printed into *)
(* it: the conversions of hffix::details.  An integer type is given by its *)
(* modulus, 2^8 for int8_t and uint8_t.                                    *)
(***************************************************************************)
EXTENDS Bytes

Minus == 45   \* '-'
Dot   == 46   \* '.'

\* What a conversion returns, and which of the caller's variables it has set.
Result(ok, out) == [ok |-> ok, out |-> out]
Refused         == Result(FALSE, <<>>)

----------------------------------------------------------------------------
(* Integers and decimals *)

\* A value of the unsigned type seen as signed.
MaxPos(modulus)    == modulus \div 2 - 1
Signed(u, modulus) == IF u > MaxPos(modulus) THEN u - modulus ELSE u
HasSign(s)         == At(s, 0) = Minus
Magnitude(s)       == IF HasSign(s) THEN Tail(s) ELSE s

\* static_cast<Int_type>(neg ? U{0} - u : u)
WithSign(s, u, modulus) == Signed(IF HasSign(s) THEN (modulus - u) % modulus ELSE u, modulus)

\* The largest magnitude: one more below zero.
Limit(s, modulus) == MaxPos(modulus) + (IF HasSign(s) THEN 1 ELSE 0)

\* val > (limit - d) / 10: one more digit does not fit.  Faulty: whatever the
\* digit is.
OverflowsBarely(val, d, limit) == val > limit \div 10
Overflows(val, d, limit)       == val > (limit - d) \div 10

Stopped == -1
CheckedByte(val, c, limit) ==
  IF val = Stopped \/ c \notin Digits \/ Overflows(val, c - Zero, limit)
  THEN Stopped ELSE val * 10 + (c - Zero)
CheckedNumber(s, limit) ==
  LET val[k \in 0 .. Len(s)] == IF k = 0 THEN 0 ELSE CheckedByte(val[k - 1], s[k], limit)
  IN  val[Len(s)]

TryAtoi(s, modulus) ==
  LET val == CheckedNumber(Magnitude(s), Limit(s, modulus))
  IN  IF Magnitude(s) = <<>> \/ val = Stopped THEN Refused
      ELSE Result(TRUE, [number |-> WithSign(s, val, modulus)])

TryAtou(s, modulus) ==
  LET val == CheckedNumber(s, modulus - 1)
  IN  IF s = <<>> \/ val = Stopped THEN Refused ELSE Result(TRUE, [number |-> val])

\* The unchecked forms see unsigned chars, where atou sees signed ones.
Wrapped(s, modulus) ==
  LET val[k \in 0 .. Len(s)] == IF k = 0 THEN 0 ELSE (val[k - 1] * 10 + (s[k] - Zero)) % modulus
  IN  val[Len(s)]
Atoi(s, modulus) == WithSign(s, Wrapped(Magnitude(s), modulus), modulus)

\* The exponent counts the digits behind the point.
Counted(d, c) == d.dot /\ c # Dot

\* One byte of a decimal; a second point, any other byte and a mantissa beyond
\* the limit stop the conversion.  --e wraps around.
DecimalByte(d, c, limit, modulus) ==
  IF ~d.ok \/ (c = Dot /\ d.dot)
     \/ (c # Dot /\ (c \notin Digits \/ Overflows(d.mantissa, c - Zero, limit)))
  THEN [d EXCEPT !.ok = FALSE]
  ELSE [ok       |-> TRUE,
        dot      |-> d.dot \/ c = Dot,
        digit    |-> d.digit \/ c # Dot,
        mantissa |-> IF c = Dot THEN d.mantissa ELSE d.mantissa * 10 + (c - Zero),
        exponent |-> IF Counted(d, c) THEN Signed((d.exponent - 1) % modulus, modulus)
                     ELSE d.exponent]

TryAtod(s, modulus) ==
  LET begin == [ok |-> TRUE, dot |-> FALSE, digit |-> FALSE, mantissa |-> 0, exponent |-> 0]
      after[k \in 0 .. Len(Magnitude(s))] ==
        IF k = 0 THEN begin ELSE DecimalByte(after[k - 1], Magnitude(s)[k], Limit(s, modulus), modulus)
      read == after[Len(Magnitude(s))]
  IN  IF ~read.ok \/ ~read.digit THEN Refused
      ELSE Result(TRUE, [mantissa |-> WithSign(s, read.mantissa, modulus),
                         exponent |-> read.exponent])

\* The unchecked form: every other byte is taken for a digit, points are
\* skipped, mantissa and exponent wrap around.
NoPoints(s) == SelectSeq(s, LAMBDA c : c # Dot)
Points(s)   == {i \in 0 .. Len(s) - 1 : At(s, i) = Dot}
Behind(s) == NoPoints(Slice(s, FirstIn(Points(s), 0, Len(s)), Len(s)))
Atod(s, modulus) ==
  [mantissa |-> WithSign(s, Wrapped(NoPoints(Magnitude(s)), modulus), modulus),
   exponent |-> Signed((-Len(Behind(s))) % modulus, modulus)]

----------------------------------------------------------------------------
(* Digits in parallel *)

ParseTwo(s, i) == (Char(At(s, i)) - Zero) * 10 + (Char(At(s, i + 1)) - Zero)

\* Four bytes as a little-endian word, less '0' in each of them.  The masks keep
\* the low half of each byte; then neighbours are added, and neighbours of these.
Word(s, i) == At(s, i) + 256 * At(s, i + 1) + 65536 * At(s, i + 2) + 16777216 * (At(s, i + 3) % 16)
LowHalf(v, byte) == (v \div 256 ^ byte) % 16
\* Faulty: the neighbours change places.
PairsSwapped(v) == (LowHalf(v, 1) + 65536 * LowHalf(v, 3)) * 10 + LowHalf(v, 0) + 65536 * LowHalf(v, 2)
Pairs(v)        == (LowHalf(v, 0) + 65536 * LowHalf(v, 2)) * 10 + LowHalf(v, 1) + 65536 * LowHalf(v, 3)
Four(s, i, borrow) ==
  LET v == Pairs((Word(s, i) - 808464432 - borrow) % 268435456)    \* 0x30303030, 2^28
  IN  (v % 256) * 100 + ((v \div 65536) % 256)
ParseFour(s, i) == Four(s, i, 0)

\* The same in both halves of 64 bits, and once more; the lower half borrows
\* from the upper one when its bytes are below '0'.
Borrow(s, i) ==
  IF \E k \in 0 .. 3 : At(s, i + k) < Zero /\ \A j \in k + 1 .. 3 : At(s, i + j) = Zero
  THEN 1 ELSE 0
ParseEight(s, i) == Four(s, i, 0) * 10000 + Four(s, i + 4, Borrow(s, i))

----------------------------------------------------------------------------
(* Printing *)

\* Division and remainder of C++ round towards zero.
Quotient(x, n)  == IF x >= 0 THEN x \div n ELSE -((-x) \div n)
Remainder(x, n) == x - n * Quotient(x, n)

Numeral[n \in Nat] ==
  (IF n >= 10 THEN Numeral[n \div 10] ELSE <<>>) \o <<Zero + (n % 10)>>

Sign(n) == IF n < 0 THEN <<Minus>> ELSE <<>>
Size(n) == IF n < 0 THEN -n ELSE n
Itoa(n) == Sign(n) \o Numeral[Size(n)]

\* Digits until the mantissa is used up and one stands before the point, which
\* comes when ++exponent reaches 0.  Faulty: the zeros are forgotten.
MoreUntilUsed(m, e) == m > 0
More(m, e)          == m > 0 \/ e < 1
Scaled[m \in Nat, e \in Int] ==
  (IF More(m \div 10, e + 1) THEN Scaled[m \div 10, e + 1] ELSE <<>>)
    \o (IF e + 1 = 0 THEN <<Dot>> ELSE <<>>) \o <<Zero + (m % 10)>>
Dtoa(mantissa, exponent) == Sign(mantissa) \o Scaled[Size(mantissa), exponent]

\* itoa_padded_unchecked: as many digits as there is room for, from the last.
Padded(x, width) ==
  [i \in 1 .. width |-> Zero + Remainder(Quotient(x, 10 ^ (width - i)), 10)]
=============================================================================
