------------------------------ MODULE MCWriter ------------------------------
(* Small instances of Writer for TLC. *)
EXTENDS Writer

\* The shortest and the longest printed form of a 16-bit and a 64-bit int.
MCIntShapes ==
  {[digits10 |-> 4,  digits |-> 5, neg |-> TRUE],
   [digits10 |-> 18, digits |-> 1, neg |-> FALSE]}

\* The same for decimals, down to the smallest exponent the worst case of a
\* 16-bit decimal allows for.
MCDecimalShapes ==
  {[digits10 |-> 4, digits |-> 5, neg |-> TRUE,  exponent |-> -4],
   [digits10 |-> 4, digits |-> 1, neg |-> TRUE,  exponent |-> -4],
   [digits10 |-> 4, digits |-> 1, neg |-> FALSE, exponent |-> 2]}

\* One digit of mantissa under an exponent of -18: twenty characters, where
\* the worst case of a 16-bit decimal is seven.
MCWideExponents ==
  {[digits10 |-> 4, digits |-> 1, neg |-> FALSE, exponent |-> -18]}
=============================================================================
