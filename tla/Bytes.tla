------------------------------- MODULE Bytes -------------------------------
(***************************************************************************)
(* Buffers of ASCII bytes, addressed from 0 as the code's pointers do.     *)
(***************************************************************************)
EXTENDS Integers, Sequences

SOH    == 1       \* the field separator, '\x01'
Equals == 61      \* '='
Zero   == 48      \* '0'
Digits == 48 .. 57
Byte   == 0 .. 255

\* Byte i of buffer s; what lies outside of it is none of the bytes the code
\* looks for.  The bytes from i up to j.
Outside        == -1
At(s, i)       == IF i + 1 \in 1 .. Len(s) THEN s[i + 1] ELSE Outside
Slice(s, i, j) == SubSeq(s, i + 1, j)

\* The first position from i on, before end, that is in S; else end.
FirstIn(S, i, end) ==
  LET hits == S \cap (i .. end - 1)
  IN  IF hits = {} THEN end ELSE CHOOSE j \in hits : \A k \in hits : j <= k

\* details::find_soh: the first SOH from i on; a range that starts at or
\* beyond its end is empty and its start is returned.
FindSOH(s, i, end) ==
  IF i >= end THEN i ELSE FirstIn({j \in i .. end - 1 : At(s, j) = SOH}, i, end)

\* A byte seen as a char, which is signed on x86.
Char(c) == IF c >= 128 THEN c - 256 ELSE c

\* The number that decimal digits spell in an unsigned type of the given
\* modulus: val = val * 10 + (c - '0') for each byte, wrapping around.
Unsigned(s, i, j, modulus) ==
  LET val[k \in i .. j] ==
        IF k = i THEN 0 ELSE (val[k - 1] * 10 + (Char(At(s, k - 1)) - Zero)) % modulus
  IN  val[j]
=============================================================================
