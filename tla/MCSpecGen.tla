----------------------------- MODULE MCSpecGen -----------------------------
(* Specifications that declare things again: under another name or type, *)
(* with another first child, or in a circle.                             *)
EXTENDS SpecGen

CONSTANTS A, B, C,              \* names of fields and messages
          C1, C2, C3, F, G,     \* components, and fields groups start with
          M1, M2, N1, N2        \* contexts, and count fields

UpTo(n, S) == UNION {[1 .. k -> S] : k \in 0 .. n}

SpecOf(f, m, c, g, args) ==
  [fields |-> f, messages |-> m, components |-> c, groups |-> g, args |-> args]

\* Tags that are none, are excepted, and lie on both sides of the bitmap's end.
FieldEntries ==
  [tag : {0, 9, 95, 212}, name : {A, B}, type : {"LENGTH", "INT"}] \cup
  {[tag |-> 383, name |-> A, type |-> "LENGTH"], [tag |-> 90, name |-> C, type |-> "Length"],
   [tag |-> 95, name |-> None, type |-> "INT"], [tag |-> 95, name |-> C, type |-> None]}
FieldSpecs ==
  {SpecOf(f, <<>>, <<>>, <<>>, {}) : f \in UpTo(3, FieldEntries)} \cup
  {SpecOf(f, <<>>, <<>>, <<>>, {"-o"}) : f \in UpTo(2, FieldEntries)}

MessageEntries == [name : {A, B, C}, value : {"8", "D"}] \cup {[name |-> A, value |-> None]}
MessageSpecs ==
  {SpecOf(<<>>, m, <<>>, <<>>, {}) : m \in UpTo(3, MessageEntries)}

\* Every way three components may begin; a component declared twice.
NamesComponent(first) == first \in {C1, C2, C3}
Component(name, first) ==
  [name |-> name, first |-> first, isComponent |-> NamesComponent(first)]
Group(count, first, context) ==
  [count |-> count, first |-> first, isComponent |-> NamesComponent(first), context |-> context]
ComponentSpecs ==
  {<<Component(C1, a), Component(C2, b), Component(C3, c)>> :
     a \in {C1, C2, F, G}, b \in {C1, C3, F, None}, c \in {C1, F, G}} \cup
  {<<Component(C1, a), Component(C1, b)>> : a, b \in {C1, C2, F, G, None}}

GroupEntries == {Group(N1, first, context) : first \in {C1, C2, F}, context \in {M1, M2}}
OddEntries ==
  {Group(N1, G, None), Group(N1, None, M1), Group(N2, C2, M1), Group(N2, F, M2)}
GroupSpecs ==
  {SpecOf(<<>>, <<>>, c, g, {"-go"}) :
     c \in ComponentSpecs, g \in UpTo(2, GroupEntries \cup OddEntries) \cup [1 .. 3 -> GroupEntries]}

\* Component C1 begins with group N1, which begins with a field or group: in
\* FIX50SP2.xml, RateSource with NoRateSources, which begins with RateSource.
BeginsWith(count, first, context) ==
  [count |-> count, first |-> first, isComponent |-> FALSE, context |-> context]
C1WithN1 == [name |-> C1, first |-> N1, isComponent |-> FALSE]
SharedNames ==
  {SpecOf(<<>>, <<>>, <<C1WithN1>>, <<BeginsWith(N1, first, C1)>>, {"-go"}) : first \in {F, N2, C1}}

\* Beside that group N1, a group N2 that comes by the component, by the field of
\* its name, or by neither.
MixedNames ==
  {SpecOf(<<>>, <<>>, <<C1WithN1, Component(C2, a)>>, <<BeginsWith(N1, C1, C1)>> \o g, {"-go"}) :
     a \in {C1, C2, F},
     g \in UpTo(2, {Group(N2, C1, M1), Group(N2, C2, M1), Group(N2, F, M2), BeginsWith(N2, C1, M2)})}

MCSpecs == FieldSpecs \cup MessageSpecs \cup GroupSpecs \cup MixedNames \cup
  {SpecOf(<<[tag |-> 95, name |-> A, type |-> "LENGTH"]>>, <<>>, <<Component(C1, F)>>,
          <<Group(N1, C1, M1)>>, {"-o", "-go"})}
=============================================================================
