------------------------------ MODULE MCFields ------------------------------
(* Messages received, put together from fields that keep the rules and      *)
(* fields that break them, and what a program writes.                       *)
EXTENDS WriteRead

\* tag and value as bytes, and whether a field of the value's tag results
Part(tag, head, value) == [tag |-> tag, head |-> head, value |-> value]

Text    == Part(58, <<53,56,61>>, <<97>>)                          \* 58=a
Empty   == Part(58, <<53,56,61>>, <<>>)                            \* 58=
\* 95=5|96=|=1|x and 100=2|2=|=, a length beyond the bitmap
Raw     == Part(96, <<57,53,61,53,1, 57,54,61>>, <<1,61,49,1,120>>)
Encoded == Part(2, <<49,48,48,61,50,1, 50,61>>, <<1,61>>)
WellFormed == {Text, Empty, Raw, Encoded}

\* 58, x, ==, 65538=a (2 in sixteen bits), 95=9|96=a, 95=18|96=a, 95=|96=a,
\* 95=1, 95=99999999|96=a, 95=11|96=a
Broken == {Part(0, <<>>, v) : v \in {
  <<53,56>>, <<120>>, <<61,61>>, <<54,53,53,51,56,61,97>>,
  <<57,53,61,57,1,57,54,61,97>>, <<57,53,61,49,56,1,57,54,61,97>>,
  <<57,53,61,1,57,54,61,97>>, <<57,53,61,49>>,
  <<57,53,61,57,57,57,57,57,57,57,57,1,57,54,61,97>>,
  <<57,53,61,49,49,1,57,54,61,97>>}}

Prefix == <<56,61,70,73,88,46,52,46,50,1,57,61>>     \* 8=FIX.4.2|9=
Type   == <<51,53,61,48,1>>                          \* 35=0|
CheckSum == <<49,48,61,49,54,49,1>>                  \* 10=161|
Trailers == {CheckSum, <<49,1,50,61,51,120,1>>}

Bytes(parts) ==
  LET b[i \in 0 .. Len(parts)] ==
        IF i = 0 THEN Type ELSE b[i - 1] \o parts[i].head \o parts[i].value \o <<1>>
  IN  b
TwoDigits(n) == <<48 + n \div 10, 48 + (n % 10)>>

Message(parts, trailer) ==
  LET body   == Bytes(parts)
      n      == Len(parts)
      origin == Len(Prefix) + 3
      valueAt(i) == origin + Len(body[i - 1]) + Len(parts[i].head)
  IN  [bytes |-> Prefix \o TwoDigits(Len(body[n])) \o <<1>> \o body[n] \o trailer,
       written |->
         IF trailer = CheckSum /\ \A i \in 1 .. n : parts[i] \in WellFormed
         THEN <<[tag |-> 35, from |-> origin + 3, to |-> origin + 4]>> \o
              [i \in 1 .. n |-> [tag |-> parts[i].tag, from |-> valueAt(i),
                                 to |-> valueAt(i) + Len(parts[i].value)]]
         ELSE <<>>]

UpTo(n, S) == UNION {[1 .. k -> S] : k \in 0 .. n}

MCMessages ==
  {Message(parts, trailer) : parts \in UpTo(3, WellFormed) \cup UpTo(2, WellFormed \cup Broken),
                             trailer \in Trailers}

\* 8=FIX.4.2, 8=F
MCBeginStrings == {<<70,73,88,46,52,46,50>>, <<70>>}

\* 35=0, 58=, 58=a|, and 95=1, which announces data; 34=-7; 95=2|96=<=|>, and
\* 58=1|96=<|>, whose length is none to the reader.
MCStrings == {[tag |-> 35, value |-> <<48>>], [tag |-> 58, value |-> <<>>],
              [tag |-> 58, value |-> <<97,1>>], [tag |-> 95, value |-> <<49>>]}
MCInts    == {[tag |-> 34, value |-> -7]}
MCData    == {[tag |-> 96, value |-> <<61,1>>, lengthTag |-> 95],
              [tag |-> 96, value |-> <<1>>, lengthTag |-> 58]}
=============================================================================
