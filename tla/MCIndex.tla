------------------------------ MODULE MCIndex ------------------------------
(* Messages and group entries for FieldIndex, some too large for a half of  *)
(* four bits, some with more fields than a buffer has slots.                *)
EXTENDS FieldIndex, FiniteSets

CONSTANTS v1, v2, b1

\* The views share a buffer.
MCBufferOf == [v \in {v1, v2} |-> b1]

\* A field takes two bytes for its tag, as many as len for its value, and an SOH.
Source(isEntry, start, parts, trailer) ==
  LET n == Len(parts)
      at[i \in 1 .. n + 1] == IF i = 1 THEN start ELSE at[i - 1] + 3 + parts[i - 1].len
  IN  [isEntry |-> isEntry, size |-> at[n + 1] + trailer,
       fields |-> [i \in 1 .. n |->
         [at |-> at[i], len |-> parts[i].len, tag |-> parts[i].tag, pos |-> at[i] + 2]]]

P(tag, len) == [len |-> len, tag |-> tag]
UpTo(m, n, S) == UNION {[1 .. k -> S] : k \in m .. n}

\* Two tags, empty values among them; the third field of a message does not fit
\* the buffer.  The last four sources need all of a half or more.
Parts == {P(1, 0), P(2, 1)}
MCSources ==
  {Source(FALSE, 2, p, 1) : p \in [1 .. 2 -> Parts]} \cup
  {Source(FALSE, 2, Append(p, P(2, 1)), 1) : p \in [1 .. 2 -> Parts]} \cup
  {Source(TRUE, 9, p, 1) : p \in UpTo(1, 2, Parts)} \cup
  {Source(FALSE, 2, <<P(1, 6), P(2, 0)>>, 2), Source(FALSE, 2, <<P(1, 6), P(2, 1)>>, 2),
   Source(TRUE, 20, <<P(2, 1), P(1, 9), P(2, 1)>>, 1),
   Source(TRUE, 20, <<P(2, 1), P(1, 16), P(2, 1)>>, 1)}
=============================================================================
