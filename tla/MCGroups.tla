------------------------------ MODULE MCGroups ------------------------------
(* Messages for Groups: every short sequence of the fields of two groups,   *)
(* one nested in the other or not, and messages that keep the rules.        *)
EXTENDS Groups, FiniteSets

F(tag, count) == [tag |-> tag, count |-> count]

\* The outer group has count tag 1 and delimiter 2, the inner one 3 and 4.
MCFirstTag == [t \in {1, 3} |-> t + 1]
D  == F(2, NoNumber)
d  == F(4, NoNumber)
x  == F(5, NoNumber)
Any == {F(1, 0), F(1, 1), F(1, 2), F(1, NoNumber), F(3, 1), F(3, 3), D, d, x}

UpTo(n, S) == UNION {[1 .. k -> S] : k \in 0 .. n}
AnyMessages == {[fields |-> f, sent |-> <<>>] : f \in UpTo(5, Any)}

\* What an entry may hold behind its delimiter, and what may follow the group.
Rests == {<<>>, <<x>>, <<F(3, 1), d>>, <<F(3, 2), d, x, d>>}
Tails == {<<>>, <<x>>, <<x, x>>}

Sent(heads, tail) ==
  LET n == Len(heads)
      body[i \in 0 .. n] ==
        IF i = 0 THEN <<x, F(1, n)>> ELSE body[i - 1] \o <<D>> \o heads[i]
  IN  [fields |-> body[n] \o tail,
       sent |-> [i \in 1 .. n |-> [from |-> Len(body[i - 1]) + 1, to |-> Len(body[i]) + 1]]]
SentMessages == {Sent(heads, tail) : heads \in UpTo(3, Rests), tail \in Tails}

MCMessages == AnyMessages \cup SentMessages
=============================================================================
