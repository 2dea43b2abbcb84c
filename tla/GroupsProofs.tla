---------------------------- MODULE GroupsProofs ----------------------------
(***************************************************************************)
(* Whatever a message holds and its counts say, the entries of a repeating *)
(* group tile it and those of a nested group stay in their entry; of a     *)
(* group its sender wrote by the rules they are the sender's.              *)
(***************************************************************************)
EXTENDS Groups, ReadingProofs, SequenceTheorems

Delimiter == {FirstTag[t] : t \in DOMAIN FirstTag}
Entry     == [from : Nat, to : Nat]
LoopType  ==
  [from : Nat, to : Nat, count : Nat, delimiter : Delimiter,
   begin : Nat, end : Nat, remaining : Nat, entries : Seq(Entry)]

HasDelimiter(loop, i) == msg.fields[i].tag = loop.delimiter
Given(loop)           == Len(loop.entries)

\* The positions of a loop lie in its view.
Bounded(loop) ==
  /\ loop.from \in 1 .. End /\ loop.to \in loop.from .. End
  /\ loop.begin \in loop.from .. loop.to /\ loop.end \in loop.begin .. loop.to
  /\ loop.remaining \in 0 .. loop.count

\* Until it is finished, the current entry is the last one given, it ends at a
\* delimiter or with the view, and what remains counts it and those to come.
Counted(loop) ==
  /\ loop.begin = loop.to =>
       loop.remaining = 0 /\ loop.end = loop.to /\ Given(loop) <= loop.count
  /\ loop.begin # loop.to =>
       /\ Given(loop) >= 1 /\ loop.remaining >= 1 /\ loop.begin < loop.end
       /\ Given(loop) + loop.remaining = loop.count + 1
       /\ loop.entries[Given(loop)].from = loop.begin
       /\ loop.entries[Given(loop)].to = loop.end
       /\ loop.end < loop.to => HasDelimiter(loop, loop.end)

\* Each entry given begins with the delimiter and holds no other, and the next
\* begins where it ends.
Tiled(loop) ==
  /\ \A i \in 1 .. Given(loop) :
       /\ loop.from <= loop.entries[i].from
       /\ loop.entries[i].from < loop.entries[i].to
       /\ loop.entries[i].to <= loop.to
       /\ HasDelimiter(loop, loop.entries[i].from)
       /\ \A j \in loop.entries[i].from + 1 .. loop.entries[i].to - 1 : ~HasDelimiter(loop, j)
  /\ \A i \in 1 .. Given(loop) - 1 : loop.entries[i].to = loop.entries[i + 1].from

\* How far the entries given reach.  No delimiter before it was passed over,
\* and a loop that stops short of its count leaves none behind.
Reach(loop) == IF Given(loop) = 0 THEN loop.from ELSE loop.entries[Given(loop)].to
Begun(loop) ==
  /\ \A j \in loop.from .. Reach(loop) - 1 :
       HasDelimiter(loop, j) => \E i \in 1 .. Given(loop) : loop.entries[i].from = j
  /\ loop.begin = loop.to /\ Given(loop) < loop.count =>
       \A j \in Reach(loop) .. loop.to - 1 : ~HasDelimiter(loop, j)

Sound(loop) == Bounded(loop) /\ Counted(loop) /\ Tiled(loop) /\ Begun(loop)

\* A loop opened in an entry stays in it.
Inside(outer, inner) == outer.begin < inner.from /\ inner.to <= outer.end

\* A loop over the group that the sender wrote by the rules.
OverSent(loop) == msg.sent # <<>> /\ loop.from = msg.sent[1].from
AsSent(loop) ==
  OverSent(loop) =>
    /\ loop.to = End /\ loop.count = Len(msg.sent)
    /\ loop.delimiter = FirstTag[msg.fields[loop.from - 1].tag]
    /\ Given(loop) <= Len(msg.sent)
    /\ \A i \in 1 .. Given(loop) :
         /\ loop.entries[i].from = msg.sent[i].from
         /\ i < Len(msg.sent) => loop.entries[i].to = msg.sent[i].to
    /\ loop.begin = loop.to => Given(loop) = Len(msg.sent)

IInv ==
  /\ msg \in Messages
  /\ open \in Seq(LoopType)
  /\ \A k \in 1 .. Len(open) : Sound(open[k])
  /\ \A k \in 1 .. Len(open) - 1 : Inside(open[k], open[k + 1])
  /\ open # <<>> => AsSent(open[1])

----------------------------------------------------------------------------
(* Lemmas *)

LEMMA EndType == msg \in Messages => End \in Nat \ {0}
  BY MessagesAssumption DEF End

LEMMA LoopFields ==
  ASSUME NEW loop \in LoopType
  PROVE  /\ loop.from \in Nat /\ loop.to \in Nat /\ loop.count \in Nat
         /\ loop.delimiter \in Delimiter /\ loop.begin \in Nat /\ loop.end \in Nat
         /\ loop.remaining \in Nat /\ loop.entries \in Seq(Entry)
         /\ Given(loop) \in Nat
         /\ \A i \in 1 .. Given(loop) :
              loop.entries[i].from \in Nat /\ loop.entries[i].to \in Nat
<1>1. loop.entries \in Seq(Entry)
  BY DEF LoopType
<1>2. \A i \in 1 .. Len(loop.entries) : loop.entries[i] \in Entry
  BY <1>1
<1>3. \A i \in 1 .. Len(loop.entries) : loop.entries[i].from \in Nat /\ loop.entries[i].to \in Nat
  BY <1>2 DEF Entry
<1> QED
  BY <1>1, <1>3 DEF LoopType, Given

LEMMA PrefixResult ==
  ASSUME NEW S, NEW s \in Seq(S), NEW m \in Nat, m <= Len(s)
  PROVE  /\ SubSeq(s, 1, m) \in Seq(S) /\ Len(SubSeq(s, 1, m)) = m
         /\ \A k \in 1 .. m : SubSeq(s, 1, m)[k] = s[k]
<1>1. 1 \in Int /\ m \in Int /\ \A k \in 1 .. m : s[k] \in S
  OBVIOUS
<1>2. SubSeq(s, 1, m) \in Seq(S)
  BY <1>1, SubSeqProperties
<1>3. Len(SubSeq(s, 1, m)) = m
  <2>1. Len(SubSeq(s, 1, m)) = IF 1 <= m THEN m - 1 + 1 ELSE 0
    BY <1>1, SubSeqProperties
  <2> QED
    BY <2>1
<1>4. \A k \in 1 .. m : SubSeq(s, 1, m)[k] = s[k]
  <2>1. \A k \in 1 .. m - 1 + 1 : SubSeq(s, 1, m)[k] = s[1 + k - 1]
    BY <1>1, SubSeqProperties
  <2> QED
    BY <2>1
<1> QED
  BY <1>2, <1>3, <1>4

\* The entry that begins at a delimiter ends behind it, at the next delimiter
\* or with the view.
LEMMA EntryEndResult ==
  ASSUME NEW begin \in Nat, NEW to \in Nat, begin < to, NEW delimiter
  PROVE  /\ EntryEnd(begin, to, delimiter) \in begin + 1 .. to
         /\ EntryEnd(begin, to, delimiter) < to =>
              msg.fields[EntryEnd(begin, to, delimiter)].tag = delimiter
         /\ \A j \in begin + 1 .. EntryEnd(begin, to, delimiter) - 1 :
              msg.fields[j].tag # delimiter
<1> DEFINE end == EntryEnd(begin, to, delimiter)
<1>1. begin + 1 \in Nat /\ begin + 1 <= to
  OBVIOUS
<1>2. /\ end \in begin + 1 .. to
      /\ end < to => msg.fields[end].tag = delimiter
                     /\ \A k \in begin + 1 .. end - 1 : msg.fields[k].tag # delimiter
      /\ end = to => \A k \in begin + 1 .. to - 1 : msg.fields[k].tag # delimiter
  BY <1>1, FindIfResult DEF EntryEnd
<1> HIDE DEF end
<1>3. \A j \in begin + 1 .. end - 1 : msg.fields[j].tag # delimiter
  BY <1>2
<1> QED
  BY <1>2, <1>3 DEF end

\* A new loop: finished, or at the first entry.
LEMMA ViewLoopSound ==
  ASSUME msg \in Messages, NEW from \in 1 .. End, NEW to \in from .. End,
         NEW count \in Nat, NEW delimiter \in Delimiter
  PROVE  LET loop == ViewLoop(from, to, count, delimiter)
         IN  /\ loop \in LoopType /\ Sound(loop)
             /\ loop.from = from /\ loop.to = to /\ loop.count = count
             /\ loop.delimiter = delimiter
             /\ \/ loop.begin = loop.to /\ Given(loop) = 0
                \/ loop.begin # loop.to /\ Given(loop) = 1
<1> DEFINE loop == ViewLoop(from, to, count, delimiter)
           start == Start(from, to, delimiter)
<1>0. from \in Nat /\ to \in Nat /\ End \in Nat /\ from <= to /\ to <= End /\ 1 <= from
  BY EndType
<1>1. /\ start \in from .. to
      /\ start < to => msg.fields[start].tag = delimiter
      /\ \A j \in from .. start - 1 : msg.fields[j].tag # delimiter
  BY <1>0, FindIfResult DEF Start
<1>2. CASE count = 0 \/ start = to
  <2>1. loop = [from |-> from, to |-> to, count |-> count, delimiter |-> delimiter,
                begin |-> to, end |-> to, remaining |-> 0, entries |-> <<>>]
    BY <1>2 DEF ViewLoop, IteratorAt, Loop, EntryOf
  <2> HIDE DEF loop, start
  <2>2. loop \in LoopType /\ Given(loop) = 0
    BY <1>0, <2>1 DEF LoopType, Given
  <2>3. Bounded(loop) /\ Counted(loop) /\ Tiled(loop)
    BY <1>0, <2>1, <2>2 DEF Bounded, Counted, Tiled
  <2>4. Begun(loop)
    BY <1>0, <1>1, <1>2, <2>1, <2>2 DEF Begun, Reach, HasDelimiter
  <2> QED
    BY <2>1, <2>2, <2>3, <2>4 DEF Sound, loop
<1>3. CASE count # 0 /\ start # to
  <2> DEFINE end == EntryEnd(start, to, delimiter)
             entry == [from |-> start, to |-> end]
  <2>1. /\ end \in start + 1 .. to
        /\ end < to => msg.fields[end].tag = delimiter
        /\ \A j \in start + 1 .. end - 1 : msg.fields[j].tag # delimiter
    <3> HIDE DEF start
    <3> QED
      BY <1>0, <1>1, <1>3, EntryEndResult
  <2>2. loop = [from |-> from, to |-> to, count |-> count, delimiter |-> delimiter,
                begin |-> start, end |-> end, remaining |-> count, entries |-> <<entry>>]
    <3>1. start # end
      <4> HIDE DEF start, end
      <4> QED
        BY <1>1, <2>1
    <3> QED
      BY <1>3, <3>1 DEF ViewLoop, IteratorAt, Loop, EntryOf
  <2> HIDE DEF loop, start, end
  <2>3. start \in Nat /\ end \in Nat /\ from <= start /\ start < end /\ end <= to
    BY <1>0, <1>1, <2>1
  <2>4. entry \in Entry /\ entry.from = start /\ entry.to = end
    BY <2>3 DEF Entry
  <2> HIDE DEF entry
  <2>5. <<entry>> \in Seq(Entry) /\ Len(<<entry>>) = 1 /\ <<entry>>[1] = entry
    BY <2>4
  <2>6. /\ loop \in LoopType /\ Given(loop) = 1 /\ loop.entries[1] = entry
    BY <1>0, <2>2, <2>3, <2>5 DEF LoopType, Given
  <2>7. Bounded(loop) /\ Counted(loop)
    BY <1>0, <1>3, <2>1, <2>2, <2>3, <2>4, <2>6 DEF Bounded, Counted, HasDelimiter
  <2>8. Tiled(loop)
    BY <1>1, <2>1, <2>2, <2>3, <2>4, <2>6 DEF Tiled, HasDelimiter
  <2>9. Begun(loop)
    <3>1. Reach(loop) = end
      BY <2>4, <2>6 DEF Reach
    <3>2. ASSUME NEW j \in loop.from .. end - 1, HasDelimiter(loop, j)
          PROVE  loop.entries[1].from = j
      BY <1>0, <1>1, <2>1, <2>2, <2>3, <2>4, <2>6, <3>2 DEF HasDelimiter
    <3> QED
      BY <1>3, <2>2, <2>6, <3>1, <3>2 DEF Begun
  <2> QED
    BY <1>3, <2>2, <2>6, <2>7, <2>8, <2>9 DEF Sound, loop
<1> QED
  BY <1>2, <1>3

\* operator++ of a loop that is not finished: its view stays, and one entry is
\* given or the loop is finished.
LEMMA IncrementedSound ==
  ASSUME msg \in Messages, NEW loop \in LoopType, Sound(loop), loop.begin # loop.to,
         NEW next, next = Incremented(loop)
  PROVE  /\ next \in LoopType /\ Sound(next)
         /\ next.from = loop.from /\ next.to = loop.to /\ next.count = loop.count
         /\ next.delimiter = loop.delimiter
         /\ \A i \in 1 .. Given(loop) : next.entries[i] = loop.entries[i]
         /\ \/ /\ next.begin = next.to /\ Given(next) = Given(loop)
               /\ Given(loop) = loop.count \/ loop.end = loop.to
            \/ /\ next.begin # next.to /\ Given(next) = Given(loop) + 1
               /\ Given(loop) < loop.count
<1> DEFINE n == Given(loop)
<1>0. /\ loop.from \in Nat /\ loop.to \in Nat /\ loop.count \in Nat /\ n \in Nat
      /\ loop.delimiter \in Delimiter /\ loop.begin \in Nat /\ loop.end \in Nat
      /\ loop.remaining \in Nat /\ loop.entries \in Seq(Entry)
      /\ \A i \in 1 .. n : loop.entries[i].from \in Nat /\ loop.entries[i].to \in Nat
  BY LoopFields
<1>1. /\ 1 <= loop.from /\ loop.from <= loop.begin /\ loop.begin < loop.end
      /\ loop.end <= loop.to /\ loop.to <= End /\ End \in Nat
  BY <1>0, EndType DEF Sound, Bounded, Counted
<1>2. /\ n >= 1 /\ loop.remaining >= 1 /\ n + loop.remaining = loop.count + 1
      /\ loop.entries[n].from = loop.begin /\ loop.entries[n].to = loop.end
      /\ n = Len(loop.entries)
  BY DEF Sound, Counted, Given
<1>3. Reach(loop) = loop.end
  BY <1>0, <1>2 DEF Reach
<1>4. \A j \in loop.from .. loop.end - 1 :
        HasDelimiter(loop, j) => \E i \in 1 .. n : loop.entries[i].from = j
  BY <1>3 DEF Sound, Begun
<1>5. Remaining(loop) = loop.remaining - 1
  BY <1>0, <1>2 DEF Remaining
<1>6. CASE Stops(loop)
  <2>1. next = [from |-> loop.from, to |-> loop.to, count |-> loop.count,
                delimiter |-> loop.delimiter, begin |-> loop.to, end |-> loop.to,
                remaining |-> 0, entries |-> loop.entries \o <<>>]
    BY <1>6 DEF Incremented, Loop, EntryOf
  <2>2. loop.entries \o <<>> = loop.entries
    BY <1>0
  <2>3. /\ next \in LoopType /\ Given(next) = n /\ next.entries = loop.entries
        /\ next.from = loop.from /\ next.to = loop.to /\ next.count = loop.count
        /\ next.delimiter = loop.delimiter /\ next.begin = loop.to
        /\ next.end = loop.to /\ next.remaining = 0
    BY <1>0, <2>1, <2>2 DEF LoopType, Given
  <2>4. n = loop.count \/ loop.end = loop.to
    BY <1>0, <1>2, <1>5, <1>6 DEF Stops
  <2>5. Bounded(next) /\ Counted(next)
    <3>1. Bounded(next)
      BY <1>0, <1>1, <2>3 DEF Bounded
    <3>2. n <= loop.count
      BY <1>0, <1>2
    <3>3. Counted(next)
      BY <2>3, <3>2 DEF Counted
    <3> QED
      BY <3>1, <3>3
  <2>6. Tiled(next)
    BY <2>3 DEF Sound, Tiled, HasDelimiter, Given
  <2>7. Reach(next) = loop.end
    BY <1>0, <1>2, <2>3 DEF Reach
  <2>8. Begun(next)
    BY <1>0, <1>1, <1>4, <2>3, <2>4, <2>7 DEF Begun, HasDelimiter
  <2> QED
    BY <2>3, <2>4, <2>5, <2>6, <2>8 DEF Sound
<1>7. CASE ~Stops(loop)
  <2> DEFINE end == EntryEnd(loop.end, loop.to, loop.delimiter)
             entry == [from |-> loop.end, to |-> end]
  <2>1. loop.remaining > 1 /\ loop.end < loop.to
    BY <1>0, <1>1, <1>2, <1>5, <1>7 DEF Stops
  <2>2. /\ end \in loop.end + 1 .. loop.to
        /\ \A j \in loop.end + 1 .. end - 1 : msg.fields[j].tag # loop.delimiter
    BY <1>0, <2>1, EntryEndResult
  <2>3. next = [from |-> loop.from, to |-> loop.to, count |-> loop.count,
                delimiter |-> loop.delimiter, begin |-> loop.end, end |-> end,
                remaining |-> loop.remaining - 1, entries |-> loop.entries \o <<entry>>]
    <3>1. loop.end # end
      <4> HIDE DEF end
      <4> QED
        BY <1>0, <2>2
    <3> QED
      BY <1>5, <1>7, <3>1 DEF Incremented, Loop, EntryOf
  <2> HIDE DEF end
  <2>4. end \in Nat /\ loop.end < end /\ end <= loop.to
    BY <1>0, <2>2
  <2>5. entry \in Entry /\ entry.from = loop.end /\ entry.to = end
    BY <1>0, <2>4 DEF Entry
  <2> HIDE DEF entry
  <2>6. /\ loop.entries \o <<entry>> \in Seq(Entry)
        /\ Len(loop.entries \o <<entry>>) = n + 1
        /\ \A i \in 1 .. n : (loop.entries \o <<entry>>)[i] = loop.entries[i]
        /\ (loop.entries \o <<entry>>)[n + 1] = entry
    BY <1>0, <1>2, <2>5
  <2>7. /\ next \in LoopType /\ Given(next) = n + 1
        /\ \A i \in 1 .. n : next.entries[i] = loop.entries[i]
        /\ next.entries[n + 1] = entry
        /\ next.from = loop.from /\ next.to = loop.to /\ next.count = loop.count
        /\ next.delimiter = loop.delimiter /\ next.begin = loop.end
        /\ next.end = end /\ next.remaining = loop.remaining - 1
    BY <1>0, <2>1, <2>3, <2>4, <2>6 DEF LoopType, Given
  \* The current entry ended at a delimiter, for it did not end with the view.
  <2>8. msg.fields[loop.end].tag = loop.delimiter
    BY <1>0, <1>1, <2>1 DEF Sound, Counted, HasDelimiter
  <2>9. Bounded(next)
    <3>1. loop.remaining - 1 \in 0 .. loop.count
      BY <1>0, <1>2
    <3> QED
      BY <1>0, <1>1, <2>1, <2>4, <2>7, <3>1, SMTT(30) DEF Bounded
  <2>10. Counted(next)
    <3>1. end < loop.to => msg.fields[end].tag = loop.delimiter
      BY <1>0, <2>1, EntryEndResult DEF end
    <3>2. next.begin # next.to
      BY <1>0, <2>1, <2>7
    <3>3. /\ Given(next) >= 1 /\ next.remaining >= 1 /\ next.begin < next.end
          /\ Given(next) + next.remaining = next.count + 1
      BY <1>0, <1>2, <2>1, <2>4, <2>7
    <3>4. /\ next.entries[Given(next)].from = next.begin
          /\ next.entries[Given(next)].to = next.end
      BY <2>5, <2>7
    <3>5. next.end < next.to => HasDelimiter(next, next.end)
      BY <2>7, <3>1 DEF HasDelimiter
    <3> QED
      BY <3>2, <3>3, <3>4, <3>5 DEF Counted
  <2>11. Tiled(next)
    <3>1. ASSUME NEW i \in 1 .. n + 1
          PROVE  /\ next.from <= next.entries[i].from
                 /\ next.entries[i].from < next.entries[i].to
                 /\ next.entries[i].to <= next.to
                 /\ HasDelimiter(next, next.entries[i].from)
                 /\ \A j \in next.entries[i].from + 1 .. next.entries[i].to - 1 :
                      ~HasDelimiter(next, j)
      <4>1. CASE i \in 1 .. n
        <5>1. next.entries[i] = loop.entries[i]
          BY <2>7, <4>1
        <5> QED
          BY <2>7, <4>1, <5>1 DEF Sound, Tiled, HasDelimiter
      <4>2. CASE i = n + 1
        <5>1. next.entries[i].from = loop.end /\ next.entries[i].to = end
          BY <2>5, <2>7, <4>2
        <5>2. loop.from <= loop.end
          BY <1>0, <1>1
        <5> QED
          BY <2>2, <2>4, <2>7, <2>8, <5>1, <5>2 DEF HasDelimiter
      <4> QED
        BY <1>0, <4>1, <4>2
    <3>2. ASSUME NEW i \in 1 .. n
          PROVE  next.entries[i].to = next.entries[i + 1].from
      <4>1. CASE i \in 1 .. n - 1
        <5>1. i + 1 \in 1 .. n
          BY <1>0, <4>1
        <5>2. next.entries[i] = loop.entries[i] /\ next.entries[i + 1] = loop.entries[i + 1]
          BY <2>7, <5>1
        <5> QED
          BY <4>1, <5>2 DEF Sound, Tiled
      <4>2. CASE i = n
        BY <1>0, <1>2, <2>5, <2>7, <4>2
      <4> QED
        BY <1>0, <4>1, <4>2
    <3> QED
      BY <1>0, <2>7, <3>1, <3>2 DEF Tiled
  <2>12. Begun(next)
    <3>1. Reach(next) = end
      BY <1>0, <2>5, <2>7 DEF Reach
    <3>2. ASSUME NEW j \in next.from .. end - 1, HasDelimiter(next, j)
          PROVE  \E i \in 1 .. n + 1 : next.entries[i].from = j
      <4>1. CASE j < loop.end
        <5>1. j \in loop.from .. loop.end - 1 /\ HasDelimiter(loop, j)
          BY <1>0, <2>4, <2>7, <3>2, <4>1 DEF HasDelimiter
        <5>2. PICK i \in 1 .. n : loop.entries[i].from = j
          BY <1>4, <5>1
        <5> QED
          BY <1>0, <2>7, <5>2
      <4>2. CASE j = loop.end
        <5>1. n + 1 \in 1 .. n + 1 /\ next.entries[n + 1].from = j
          BY <1>0, <2>5, <2>7, <4>2
        <5> QED
          BY <5>1
      <4>3. CASE loop.end < j
        BY <1>0, <2>2, <2>4, <2>7, <3>2, <4>3 DEF HasDelimiter
      <4> QED
        BY <1>0, <2>4, <2>7, <4>1, <4>2, <4>3
    <3> QED
      BY <1>0, <2>1, <2>7, <3>1, <3>2 DEF Begun
  <2>13. next.begin # next.to /\ n < loop.count
    BY <1>0, <1>2, <2>1, <2>7
  <2> QED
    BY <2>7, <2>9, <2>10, <2>11, <2>12, <2>13 DEF Sound
<1> QED
  BY <1>6, <1>7

\* What the rules say of the sender's entries.
LEMMA SentRules ==
  ASSUME msg \in Messages, msg.sent # <<>>
  PROVE  LET n == Len(msg.sent)
             tag == msg.fields[msg.sent[1].from - 1].tag
         IN  /\ n \in Nat \ {0}
             /\ msg.sent[1].from > 1 /\ tag \in DOMAIN FirstTag
             /\ msg.fields[msg.sent[1].from - 1].count = n
             /\ \A i \in 1 .. n :
                  /\ msg.sent[i].from \in Nat /\ msg.sent[i].to \in Nat
                  /\ msg.sent[i].from < msg.sent[i].to /\ msg.sent[i].to <= End
                  /\ \A j \in msg.sent[i].from .. msg.sent[i].to - 1 :
                       msg.fields[j].tag = FirstTag[tag] <=> j = msg.sent[i].from
             /\ \A i \in 1 .. n - 1 : msg.sent[i].to = msg.sent[i + 1].from
<1> DEFINE n == Len(msg.sent)
           tag == msg.fields[msg.sent[1].from - 1].tag
<1>1. KeepsTheRules(msg.fields, msg.sent) /\ n \in Nat /\ End \in Nat
  BY SentAssumption, MessagesAssumption, EndType
<1>2. /\ n > 0
      /\ msg.sent[1].from > 1 /\ tag \in DOMAIN FirstTag
      /\ msg.fields[msg.sent[1].from - 1].count = n
  BY <1>1 DEF KeepsTheRules
<1>3. \A i \in 1 .. n :
        /\ msg.sent[i].from \in Nat /\ msg.sent[i].to \in msg.sent[i].from + 1 .. End
        /\ \A j \in msg.sent[i].from .. msg.sent[i].to - 1 :
             msg.fields[j].tag = FirstTag[tag] <=> j = msg.sent[i].from
  BY <1>1 DEF KeepsTheRules, End
<1>4. \A i \in 1 .. n - 1 : msg.sent[i].to = msg.sent[i + 1].from
  BY <1>1 DEF KeepsTheRules
<1> HIDE DEF n, tag
<1>5. n \in Nat \ {0}
  BY <1>1, <1>2
<1>6. ASSUME NEW i \in 1 .. n
      PROVE  /\ msg.sent[i].from \in Nat /\ msg.sent[i].to \in Nat
             /\ msg.sent[i].from < msg.sent[i].to /\ msg.sent[i].to <= End
             /\ \A j \in msg.sent[i].from .. msg.sent[i].to - 1 :
                  msg.fields[j].tag = FirstTag[tag] <=> j = msg.sent[i].from
  <2>1. /\ msg.sent[i].from \in Nat /\ msg.sent[i].to \in msg.sent[i].from + 1 .. End
        /\ \A j \in msg.sent[i].from .. msg.sent[i].to - 1 :
             msg.fields[j].tag = FirstTag[tag] <=> j = msg.sent[i].from
    BY <1>3
  <2>2. /\ msg.sent[i].to \in Nat /\ msg.sent[i].from < msg.sent[i].to
        /\ msg.sent[i].to <= End
    BY <1>1, <2>1
  <2> QED
    BY <2>1, <2>2
<1> QED
  BY <1>2, <1>4, <1>5, <1>6 DEF n, tag

\* Where the entries of the sender lie, and that the count field counts them.
LEMMA SentPositions ==
  ASSUME msg \in Messages, msg.sent # <<>>
  PROVE  /\ Len(msg.sent) \in Nat \ {0}
         /\ msg.fields[msg.sent[1].from - 1].count = Len(msg.sent)
         /\ \A i \in 1 .. Len(msg.sent) :
              /\ msg.sent[i].from \in Nat /\ msg.sent[i].to \in Nat
              /\ msg.sent[i].from < msg.sent[i].to /\ msg.sent[i].to <= End
  BY SentRules

\* The current entry, if it begins where the sender's does and is not the last
\* one, ends where the sender's does.
LEMMA EntryIsSent ==
  ASSUME msg \in Messages, NEW loop \in LoopType, Sound(loop), OverSent(loop),
         loop.to = End, loop.delimiter = FirstTag[msg.fields[loop.from - 1].tag],
         loop.begin # loop.to, NEW k, k = Given(loop), k < Len(msg.sent),
         loop.begin = msg.sent[k].from
  PROVE  loop.end = msg.sent[k].to
<1> DEFINE n == Len(msg.sent)
           tag == msg.fields[msg.sent[1].from - 1].tag
           limit == msg.sent[k].to
<1>1. /\ k \in Nat /\ k >= 1 /\ loop.begin \in Nat /\ loop.end \in Nat /\ loop.begin < loop.end
      /\ loop.end < loop.to => HasDelimiter(loop, loop.end)
      /\ loop.entries[k].from = loop.begin /\ loop.entries[k].to = loop.end
      /\ End \in Nat /\ loop.end <= End
  BY LoopFields, EndType DEF Sound, Counted, Bounded
<1>2. /\ n \in Nat
      /\ \A i \in 1 .. n :
           /\ msg.sent[i].from \in Nat /\ msg.sent[i].to \in Nat
           /\ msg.sent[i].from < msg.sent[i].to /\ msg.sent[i].to <= End
           /\ \A j \in msg.sent[i].from .. msg.sent[i].to - 1 :
                msg.fields[j].tag = FirstTag[tag] <=> j = msg.sent[i].from
      /\ \A i \in 1 .. n - 1 : msg.sent[i].to = msg.sent[i + 1].from
  BY SentRules DEF OverSent
<1>3. loop.delimiter = FirstTag[tag]
  BY DEF OverSent
<1> HIDE DEF tag
<1>4. k \in 1 .. n - 1 /\ k \in 1 .. n /\ k + 1 \in 1 .. n
  BY <1>1, <1>2
<1>5. limit = msg.sent[k + 1].from /\ limit \in Nat /\ limit < End /\ loop.begin < limit
  <2>1. msg.sent[k + 1].from < msg.sent[k + 1].to /\ msg.sent[k + 1].to <= End
    BY <1>2, <1>4
  <2>2. /\ limit = msg.sent[k + 1].from /\ limit \in Nat /\ loop.begin < limit
        /\ msg.sent[k + 1].to \in Nat
    BY <1>2, <1>4
  <2> QED
    BY <1>1, <2>1, <2>2
<1>6. msg.fields[limit].tag = FirstTag[tag]
  <2>1. msg.sent[k + 1].from \in msg.sent[k + 1].from .. msg.sent[k + 1].to - 1
    BY <1>2, <1>4
  <2> QED
    BY <1>2, <1>4, <1>5, <2>1
<1>7. \A j \in loop.begin + 1 .. limit - 1 : msg.fields[j].tag # FirstTag[tag]
  <2> SUFFICES ASSUME NEW j \in loop.begin + 1 .. limit - 1
               PROVE  msg.fields[j].tag # FirstTag[tag]
    OBVIOUS
  <2>1. j \in msg.sent[k].from .. msg.sent[k].to - 1 /\ j # msg.sent[k].from
    BY <1>1, <1>5
  <2> QED
    BY <1>2, <1>4, <2>1
<1>8. \A j \in loop.begin + 1 .. loop.end - 1 : msg.fields[j].tag # FirstTag[tag]
  <2>1. k \in 1 .. Given(loop)
    BY <1>1
  <2> QED
    BY <1>1, <1>3, <2>1 DEF Sound, Tiled, HasDelimiter
<1> HIDE DEF limit
<1>9. ~(loop.end < limit)
  <2> SUFFICES ASSUME loop.end < limit PROVE FALSE
    OBVIOUS
  <2>1. loop.end \in loop.begin + 1 .. limit - 1 /\ loop.end < loop.to
    BY <1>1, <1>5
  <2>2. msg.fields[loop.end].tag = FirstTag[tag]
    BY <1>1, <1>3, <2>1 DEF HasDelimiter
  <2> QED
    BY <1>7, <2>1, <2>2
<1>10. ~(limit < loop.end)
  <2> SUFFICES ASSUME limit < loop.end PROVE FALSE
    OBVIOUS
  <2>1. limit \in loop.begin + 1 .. loop.end - 1
    BY <1>1, <1>5
  <2> QED
    BY <1>6, <1>8, <2>1
<1> QED
  BY <1>1, <1>5, <1>9, <1>10 DEF limit

\* The loop over the sender's group begins with the sender's first entry.
LEMMA ViewLoopAsSent ==
  ASSUME msg \in Messages, NEW loop \in LoopType, Sound(loop), OverSent(loop),
         loop.to = End, loop.count = Len(msg.sent),
         loop.delimiter = FirstTag[msg.fields[loop.from - 1].tag],
         \/ loop.begin = loop.to /\ Given(loop) = 0
         \/ loop.begin # loop.to /\ Given(loop) = 1
  PROVE  AsSent(loop)
<1> DEFINE n == Len(msg.sent)
           tag == msg.fields[msg.sent[1].from - 1].tag
<1>1. /\ n \in Nat \ {0} /\ msg.sent[1].from \in Nat /\ msg.sent[1].to \in Nat
      /\ msg.sent[1].from < msg.sent[1].to /\ msg.sent[1].to <= End
      /\ \A j \in msg.sent[1].from .. msg.sent[1].to - 1 :
           msg.fields[j].tag = FirstTag[tag] <=> j = msg.sent[1].from
  <2>1. n \in Nat \ {0}
    BY SentRules DEF OverSent
  <2>2. 1 \in 1 .. n
    BY <2>1
  <2> QED
    BY <2>1, <2>2, SentRules DEF OverSent
<1>2. loop.delimiter = FirstTag[tag] /\ loop.from = msg.sent[1].from
  BY DEF OverSent
<1> HIDE DEF tag
<1>3. loop.from \in Nat /\ loop.to \in Nat /\ loop.from < loop.to /\ HasDelimiter(loop, loop.from)
  BY <1>1, <1>2, EndType DEF HasDelimiter
<1>4. loop.begin # loop.to /\ Given(loop) = 1
  <2> SUFFICES ASSUME loop.begin = loop.to, Given(loop) = 0 PROVE FALSE
    OBVIOUS
  <2>1. Reach(loop) = loop.from /\ Given(loop) < loop.count
    BY <1>1 DEF Reach
  <2> QED
    BY <1>3, <2>1 DEF Sound, Begun
<1>5. /\ loop.entries[1].from = loop.begin /\ loop.entries[1].to = loop.end
      /\ loop.begin < loop.end /\ loop.from <= loop.begin
      /\ loop.begin \in Nat /\ loop.end \in Nat
  BY <1>3, <1>4, LoopFields DEF Sound, Counted, Bounded
<1>6. loop.begin = loop.from
  <2>1. Reach(loop) = loop.end /\ loop.from \in loop.from .. loop.end - 1
    BY <1>3, <1>4, <1>5 DEF Reach
  <2>2. PICK i \in 1 .. Given(loop) : loop.entries[i].from = loop.from
    BY <1>3, <2>1 DEF Sound, Begun
  <2> QED
    BY <1>4, <1>5, <2>2
<1>7. 1 < n => loop.end = msg.sent[1].to
  BY <1>2, <1>4, <1>6, EntryIsSent
<1> QED
  BY <1>1, <1>2, <1>4, <1>5, <1>6, <1>7 DEF AsSent

LEMMA IncrementedAsSent ==
  ASSUME msg \in Messages, NEW loop \in LoopType, Sound(loop), loop.begin # loop.to,
         AsSent(loop), NEW next, next = Incremented(loop)
  PROVE  AsSent(next)
<1> SUFFICES ASSUME OverSent(next)
             PROVE  AsSent(next)
  BY DEF AsSent
<1> DEFINE n == Given(loop)
           m == Len(msg.sent)
<1>1. /\ next \in LoopType /\ Sound(next)
      /\ next.from = loop.from /\ next.to = loop.to /\ next.count = loop.count
      /\ next.delimiter = loop.delimiter
      /\ \A i \in 1 .. n : next.entries[i] = loop.entries[i]
      /\ \/ /\ next.begin = next.to /\ Given(next) = n
            /\ n = loop.count \/ loop.end = loop.to
         \/ /\ next.begin # next.to /\ Given(next) = n + 1
            /\ n < loop.count
  BY IncrementedSound
<1>2. OverSent(loop)
  BY <1>1 DEF OverSent
<1>3. /\ loop.to = End /\ loop.count = m
      /\ loop.delimiter = FirstTag[msg.fields[loop.from - 1].tag]
      /\ n <= m
      /\ \A i \in 1 .. n :
           /\ loop.entries[i].from = msg.sent[i].from
           /\ i < m => loop.entries[i].to = msg.sent[i].to
  BY <1>2 DEF AsSent
<1>4. /\ m \in Nat \ {0} /\ End \in Nat
      /\ \A i \in 1 .. m :
           /\ msg.sent[i].from \in Nat /\ msg.sent[i].to \in Nat
           /\ msg.sent[i].from < msg.sent[i].to /\ msg.sent[i].to <= End
      /\ \A i \in 1 .. m - 1 : msg.sent[i].to = msg.sent[i + 1].from
  BY <1>2, SentRules, EndType DEF OverSent
<1>5. n \in Nat /\ n >= 1 /\ loop.entries[n].to = loop.end
  BY LoopFields DEF Sound, Counted
<1>6. CASE next.begin = next.to
  <2>1. Given(next) = n /\ (n = m \/ loop.end = End)
    BY <1>1, <1>3, <1>6
  <2>2. n = m
    <3> SUFFICES ASSUME n < m PROVE FALSE
      BY <1>3, <1>4, <1>5
    <3>1. n \in 1 .. n /\ n \in 1 .. m - 1 /\ n + 1 \in 1 .. m
      BY <1>4, <1>5
    <3>2. loop.end = msg.sent[n + 1].from
      BY <1>3, <1>4, <1>5, <3>1
    <3> QED
      BY <1>4, <2>1, <3>1, <3>2
  <2> QED
    BY <1>1, <1>3, <2>1, <2>2 DEF AsSent
<1>7. CASE next.begin # next.to
  <2>1. Given(next) = n + 1 /\ n < m
    BY <1>1, <1>3, <1>7
  <2>2. n \in 1 .. n /\ n \in 1 .. m - 1 /\ n \in 1 .. Given(next) - 1
    BY <1>4, <1>5, <2>1
  <2>3. next.entries[n + 1].from = next.begin /\ next.entries[n + 1].to = next.end
    BY <1>1, <1>7, <2>1 DEF Sound, Counted
  <2>4. next.begin = msg.sent[n + 1].from
    <3>1. next.entries[n].to = next.entries[n + 1].from
      BY <1>1, <2>2 DEF Sound, Tiled
    <3>2. next.entries[n].to = msg.sent[n].to
      BY <1>1, <1>3, <2>1, <2>2
    <3> QED
      BY <1>4, <2>2, <2>3, <3>1, <3>2
  <2>5. n + 1 < m => next.end = msg.sent[n + 1].to
    BY <1>1, <1>3, <1>7, <2>1, <2>4, EntryIsSent
  <2>6. ASSUME NEW i \in 1 .. n + 1
        PROVE  /\ next.entries[i].from = msg.sent[i].from
               /\ i < m => next.entries[i].to = msg.sent[i].to
    <3>1. CASE i \in 1 .. n
      BY <1>1, <1>3, <3>1
    <3>2. CASE i = n + 1
      BY <2>3, <2>4, <2>5, <3>2
    <3> QED
      BY <1>5, <3>1, <3>2
  <2>7. n + 1 <= m
    BY <1>4, <1>5, <2>1
  <2> QED
    BY <1>1, <1>3, <1>7, <2>1, <2>6, <2>7 DEF AsSent
<1> QED
  BY <1>6, <1>7

----------------------------------------------------------------------------
(* The invariant *)

LEMMA InitEstablishes == Init => IInv
  BY DEF Init, IInv

\* The invariant of the next state, of which msg is the same.
LEMMA Restated ==
  ASSUME msg \in Messages, msg' = msg, open' \in Seq(LoopType),
         \A k \in 1 .. Len(open') : Sound(open'[k]),
         \A k \in 1 .. Len(open') - 1 : Inside(open'[k], open'[k + 1]),
         Len(open') # 0 => AsSent(open'[1])
  PROVE  IInv'
<1>1. \A k \in 1 .. Len(open') : Sound(open[k])'
  <2> SUFFICES ASSUME NEW k \in 1 .. Len(open'), Sound(open'[k]) PROVE Sound(open[k])'
    OBVIOUS
  <2>1. Bounded(open[k])' /\ Counted(open[k])'
    BY DEF Sound, Bounded, Counted, Given, HasDelimiter, End
  <2>2. Tiled(open[k])'
    BY DEF Sound, Tiled, Given, HasDelimiter
  <2>3. Begun(open[k])'
    BY DEF Sound, Begun, Reach, Given, HasDelimiter
  <2> QED
    BY <2>1, <2>2, <2>3 DEF Sound
<1>2. \A k \in 1 .. Len(open') - 1 : Inside(open[k], open[k + 1])'
  BY DEF Inside
<1>3. Len(open') # 0 => AsSent(open[1])'
  BY DEF AsSent, OverSent, Given, End
<1>4. open' # <<>> => Len(open') # 0
  OBVIOUS
<1> QED
  BY <1>1, <1>2, <1>3, <1>4 DEF IInv

\* Where group() looks for the count field, and that it finds it there.
LEMMA OpenGroupKeeps ==
  ASSUME IInv, NEW tag \in DOMAIN FirstTag, OpenGroup(tag)
  PROVE  IInv'
<1> DEFINE n    == Len(open)
           hit  == FindWithHint(msg.fields, ScopeBegin, ScopeEnd, tag, ScopeBegin)
           none == ~hit.found \/ msg.fields[hit.at].count = NoNumber
           from == IF none THEN ScopeEnd ELSE hit.at + 1
           count == IF none THEN 0 ELSE msg.fields[hit.at].count
           loop == ViewLoop(from, ScopeEnd, count, FirstTag[tag])
<1>1. open' = Append(open, loop) /\ msg' = msg
  BY DEF OpenGroup
<1>2. n \in Nat /\ msg \in Messages /\ End \in Nat \ {0}
  BY EndType DEF IInv
<1>3. ~Outer => n \in 1 .. n /\ open[n] \in LoopType /\ Sound(open[n]) /\ open[n].begin # open[n].to
  <2> SUFFICES ASSUME ~Outer
               PROVE  n \in 1 .. n /\ open[n] \in LoopType /\ Sound(open[n]) /\ open[n].begin # open[n].to
    OBVIOUS
  <2>1. n \in 1 .. n
    BY <1>2 DEF Outer
  <2>2. open[n] \in LoopType /\ Sound(open[n])
    BY <2>1 DEF IInv
  <2>3. ~Finished(open[n])
    BY DEF OpenGroup, Top
  <2> QED
    BY <2>1, <2>2, <2>3 DEF Finished, Sound, Counted
<1>4. /\ ScopeBegin \in Nat /\ ScopeEnd \in Nat /\ 1 <= ScopeBegin
      /\ ScopeBegin <= ScopeEnd /\ ScopeEnd <= End
      /\ ~Outer => open[n].begin = ScopeBegin /\ open[n].end = ScopeEnd /\ ScopeBegin < ScopeEnd
      /\ Outer => ScopeEnd = End
  <2>1. CASE Outer
    BY <1>2, <2>1 DEF ScopeBegin, ScopeEnd
  <2>2. CASE ~Outer
    <3>1. /\ open[n].begin \in Nat /\ open[n].end \in Nat /\ open[n].from \in Nat
          /\ open[n].to \in Nat /\ open[n].begin < open[n].end
          /\ 1 <= open[n].from /\ open[n].from <= open[n].begin
          /\ open[n].end <= open[n].to /\ open[n].to <= End
      BY <1>2, <1>3, <2>2, LoopFields DEF Sound, Bounded, Counted
    <3> QED
      BY <1>2, <2>2, <3>1 DEF ScopeBegin, ScopeEnd, Top
  <2> QED
    BY <2>1, <2>2
<1>5. ~none => hit.at \in ScopeBegin .. ScopeEnd - 1 /\ msg.fields[hit.at].tag = tag
  <2> HIDE DEF hit
  <2>1. hit.found => hit.at \in ScopeBegin .. ScopeEnd - 1 /\ msg.fields[hit.at].tag = tag
    BY <1>4, FindWithHintResult DEF hit
  <2> QED
    BY <2>1
<1> HIDE DEF hit
<1>6. /\ from \in Nat /\ from <= ScopeEnd /\ count \in Nat
      /\ ScopeBegin < ScopeEnd => ScopeBegin < from
      /\ 1 <= from
  <2>1. CASE none
    BY <1>4, <2>1
  <2>2. CASE ~none
    <3>1. hit.at \in 1 .. Len(msg.fields)
      BY <1>2, <1>4, <1>5, <2>2, MessagesAssumption DEF End
    <3>2. msg.fields[hit.at].count \in Nat
      BY <1>2, <2>2, <3>1, MessagesAssumption
    <3> QED
      BY <1>4, <1>5, <2>2, <3>2
  <2> QED
    BY <2>1, <2>2
<1>7. FirstTag[tag] \in Delimiter
  BY DEF Delimiter
<1> HIDE DEF none
<1>8. /\ loop \in LoopType /\ Sound(loop)
      /\ loop.from = from /\ loop.to = ScopeEnd /\ loop.count = count
      /\ loop.delimiter = FirstTag[tag]
      /\ \/ loop.begin = loop.to /\ Given(loop) = 0
         \/ loop.begin # loop.to /\ Given(loop) = 1
  <2> HIDE DEF from, count
  <2> QED
    BY <1>2, <1>4, <1>6, <1>7, ViewLoopSound
<1>9. n = 0 => AsSent(loop)
  <2> SUFFICES ASSUME n = 0, OverSent(loop) PROVE AsSent(loop)
    BY DEF AsSent
  <2>1. Outer /\ loop.to = End
    BY <1>4, <1>8 DEF Outer
  <2>2. /\ Len(msg.sent) \in Nat \ {0}
        /\ msg.sent[1].from \in Nat /\ msg.sent[1].from < End
        /\ msg.fields[msg.sent[1].from - 1].count = Len(msg.sent)
    <3>0. msg.sent # <<>>
      BY DEF OverSent
    <3>1. Len(msg.sent) \in Nat \ {0}
      BY <1>2, <3>0, SentPositions
    <3>2. /\ msg.sent[1].from \in Nat /\ msg.sent[1].to \in Nat
          /\ msg.sent[1].from < msg.sent[1].to /\ msg.sent[1].to <= End
      BY <1>2, <3>0, <3>1, SentPositions
    <3>3. msg.fields[msg.sent[1].from - 1].count = Len(msg.sent)
      BY <1>2, <3>0, SentPositions
    <3>4. End \in Nat
      BY <1>2, EndType
    <3>5. msg.sent[1].from < End
      BY <3>2, <3>4
    <3> QED
      BY <3>1, <3>2, <3>3, <3>5
  <2>3. ~none
    BY <1>2, <1>8, <2>1, <2>2 DEF OverSent
  <2>4. hit.at \in Nat /\ msg.fields[hit.at].tag = tag
    <3>1. hit.at \in ScopeBegin .. ScopeEnd - 1 /\ msg.fields[hit.at].tag = tag
      BY <1>5, <2>3
    <3> QED
      BY <1>4, <3>1
  <2>5. loop.from = hit.at + 1 /\ count = msg.fields[hit.at].count
    <3> HIDE DEF loop
    <3> QED
      BY <1>8, <2>3
  <2> HIDE DEF loop
  <2>6. hit.at = loop.from - 1
    BY <2>4, <2>5
  <2>7. loop.count = Len(msg.sent) /\ loop.delimiter = FirstTag[msg.fields[loop.from - 1].tag]
    <3>1. loop.from = msg.sent[1].from
      BY DEF OverSent
    <3> HIDE DEF count
    <3> QED
      BY <1>8, <2>2, <2>4, <2>5, <2>6, <3>1
  <2> QED
    BY <1>2, <1>8, <2>1, <2>7, ViewLoopAsSent
<1> HIDE DEF loop
<1>10. n > 0 => Inside(open[n], loop)
  BY <1>2, <1>4, <1>6, <1>8 DEF Inside, Outer
<1>11. /\ open' \in Seq(LoopType) /\ Len(open') = n + 1
       /\ \A k \in 1 .. n : open'[k] = open[k]
       /\ open'[n + 1] = loop
  BY <1>1, <1>8 DEF IInv
<1>12. \A k \in 1 .. n + 1 : Sound(open'[k])
  BY <1>2, <1>8, <1>11 DEF IInv
<1>13. \A k \in 1 .. n : Inside(open'[k], open'[k + 1])
  <2> SUFFICES ASSUME NEW k \in 1 .. n PROVE Inside(open'[k], open'[k + 1])
    OBVIOUS
  <2>1. CASE k = n
    BY <1>2, <1>10, <1>11, <2>1
  <2>2. CASE k # n
    <3>1. k \in 1 .. n - 1 /\ k + 1 \in 1 .. n
      BY <1>2, <2>2
    <3> QED
      BY <1>11, <3>1 DEF IInv
  <2> QED
    BY <2>1, <2>2
<1>14. AsSent(open'[1])
  <2>1. CASE n = 0
    BY <1>9, <1>11, <2>1
  <2>2. CASE n # 0
    <3>1. open # <<>> /\ 1 \in 1 .. n
      BY <1>2, <2>2
    <3> QED
      BY <1>11, <3>1 DEF IInv
  <2> QED
    BY <2>1, <2>2
<1> QED
  BY <1>1, <1>2, <1>11, <1>12, <1>13, <1>14, Restated

LEMMA AdvanceKeeps ==
  ASSUME IInv, Advance
  PROVE  IInv'
<1> DEFINE n    == Len(open)
           loop == open[n]
           next == Incremented(loop)
<1>1. open' = [open EXCEPT ![n] = next] /\ msg' = msg
  BY DEF Advance, Top
<1>2. n \in 1 .. n /\ n \in Nat /\ msg \in Messages
  BY DEF IInv, Advance, Outer
<1>3. loop \in LoopType /\ Sound(loop) /\ loop.begin # loop.to
  <2>1. loop \in LoopType /\ Sound(loop)
    BY <1>2 DEF IInv
  <2>2. ~Finished(loop)
    BY DEF Advance, Top
  <2> QED
    BY <2>1, <2>2 DEF Finished, Sound, Counted
<1> HIDE DEF next
<1>4. next \in LoopType /\ Sound(next) /\ next.from = loop.from /\ next.to = loop.to
  BY <1>2, <1>3, IncrementedSound DEF next
<1>5. n = 1 => AsSent(next)
  BY <1>2, <1>3, IncrementedAsSent DEF next, IInv
<1>6. /\ open' \in Seq(LoopType) /\ Len(open') = n
      /\ \A k \in 1 .. n : open'[k] = IF k = n THEN next ELSE open[k]
  BY <1>1, <1>2, <1>4 DEF IInv
<1>7. \A k \in 1 .. n : Sound(open'[k])
  BY <1>4, <1>6 DEF IInv
<1>8. \A k \in 1 .. n - 1 : Inside(open'[k], open'[k + 1])
  <2> SUFFICES ASSUME NEW k \in 1 .. n - 1 PROVE Inside(open'[k], open'[k + 1])
    OBVIOUS
  <2>1. k \in 1 .. n /\ k # n /\ k + 1 \in 1 .. n
    BY <1>2
  <2>2. open'[k] = open[k] /\ Inside(open[k], open[k + 1])
    BY <1>6, <2>1 DEF IInv
  <2>3. open'[k + 1] = IF k + 1 = n THEN next ELSE open[k + 1]
    BY <1>6, <2>1
  <2> QED
    BY <1>4, <2>2, <2>3 DEF Inside
<1>9. AsSent(open'[1])
  <2>1. 1 \in 1 .. n /\ open # <<>>
    BY <1>2
  <2> QED
    BY <1>5, <1>6, <2>1 DEF IInv
<1> QED
  BY <1>1, <1>2, <1>6, <1>7, <1>8, <1>9, Restated

LEMMA LeaveKeeps ==
  ASSUME IInv, Leave
  PROVE  IInv'
<1> DEFINE n == Len(open)
<1>1. open' = SubSeq(open, 1, n - 1) /\ msg' = msg
  BY DEF Leave
<1>2. n \in Nat /\ n - 1 \in Nat /\ n - 1 <= n /\ msg \in Messages /\ open \in Seq(LoopType)
  BY DEF IInv, Leave, Outer
<1>3. /\ open' \in Seq(LoopType) /\ Len(open') = n - 1
      /\ \A k \in 1 .. n - 1 : open'[k] = open[k]
  BY <1>1, <1>2, PrefixResult
<1>4. \A k \in 1 .. n - 1 : Sound(open'[k])
  BY <1>2, <1>3 DEF IInv
<1>5. \A k \in 1 .. (n - 1) - 1 : Inside(open'[k], open'[k + 1])
  <2> SUFFICES ASSUME NEW k \in 1 .. (n - 1) - 1 PROVE Inside(open'[k], open'[k + 1])
    OBVIOUS
  <2>1. k \in 1 .. n - 1 /\ k + 1 \in 1 .. n - 1
    BY <1>2
  <2> QED
    BY <1>3, <2>1 DEF IInv
<1>6. n - 1 # 0 => AsSent(open'[1])
  <2>1. n - 1 # 0 => 1 \in 1 .. n - 1 /\ n # 0
    <3> HIDE DEF n
    <3> QED
      BY <1>2
  <2>2. n # 0 => AsSent(open[1])
    BY <1>2 DEF IInv
  <2> QED
    BY <1>3, <2>1, <2>2
<1> QED
  BY <1>1, <1>2, <1>3, <1>4, <1>5, <1>6, Restated

LEMMA StepKeeps == IInv /\ [Next]_vars => IInv'
<1> SUFFICES ASSUME IInv, [Next]_vars PROVE IInv'
  OBVIOUS
<1>1. ASSUME NEW tag \in DOMAIN FirstTag, OpenGroup(tag) PROVE IInv'
  BY <1>1, OpenGroupKeeps
<1>2. CASE Advance
  BY <1>2, AdvanceKeeps
<1>3. CASE Leave
  BY <1>3, LeaveKeeps
<1>4. CASE UNCHANGED vars
  <2>1. msg' = msg /\ open' = open /\ msg \in Messages /\ open \in Seq(LoopType) /\ Len(open) \in Nat
    BY <1>4 DEF vars, IInv
  <2>2. /\ \A k \in 1 .. Len(open) : Sound(open[k])
        /\ \A k \in 1 .. Len(open) - 1 : Inside(open[k], open[k + 1])
        /\ Len(open) # 0 => AsSent(open[1])
    BY <2>1 DEF IInv
  <2> QED
    BY <2>1, <2>2, Restated
<1> QED
  BY <1>1, <1>2, <1>3, <1>4 DEF Next

----------------------------------------------------------------------------
(* What a program that ranges over groups can rely on *)

\* Of every behaviour, whatever the messages: what a loop has given, the loops
\* around it, and what the sender wrote are as IInv says.
THEOREM Invariance == Spec => []IInv
<1>1. Init => IInv
  BY InitEstablishes
<1>2. IInv /\ [Next]_vars => IInv'
  BY StepKeeps
<1> QED
  BY <1>1, <1>2, PTL DEF Spec

\* No iterator of an open loop leaves its view, and no view its message.
THEOREM TypeCorrect == Spec => []TypeOK
<1>1. IInv => TypeOK
  <2> SUFFICES ASSUME IInv, NEW loop \in Loops
               PROVE  /\ loop.from \in 1 .. End /\ loop.to \in loop.from .. End
                      /\ loop.begin \in loop.from .. loop.to /\ loop.end \in loop.begin .. loop.to
                      /\ loop.count \in Nat /\ loop.remaining \in 0 .. loop.count
    BY DEF TypeOK
  <2>1. loop \in LoopType /\ Sound(loop)
    BY DEF IInv, Loops
  <2> QED
    BY <2>1, LoopFields DEF Sound, Bounded
<1> QED
  BY <1>1, Invariance, PTL

\* The entries a loop gives tile its view between the first and the last
\* delimiter it came to, and their number is the lesser of the declared one and
\* that of the delimiters.
THEOREM EntriesTileAlways == Spec => []EntriesTile
<1>1. ASSUME IInv, NEW loop \in Loops
      PROVE  LET n == Given(loop)
                 begun == {loop.entries[i].from : i \in 1 .. n}
             IN  /\ \A i \in 1 .. n :
                      Delimiters(loop) \cap loop.entries[i].from .. loop.entries[i].to - 1
                        = {loop.entries[i].from}
                 /\ \A i \in 1 .. n - 1 : loop.entries[i].to = loop.entries[i + 1].from
                 /\ n <= loop.count
                 /\ Finished(loop) /\ n < loop.count => begun = Delimiters(loop)
  <2> DEFINE n == Given(loop)
             begun == {loop.entries[i].from : i \in 1 .. n}
  <2>1. loop \in LoopType /\ Sound(loop)
    BY <1>1 DEF IInv, Loops
  <2>2. /\ loop.from \in Nat /\ loop.to \in Nat /\ loop.count \in Nat /\ n \in Nat
        /\ loop.begin \in Nat /\ loop.end \in Nat /\ loop.remaining \in Nat
        /\ \A i \in 1 .. n : loop.entries[i].from \in Nat /\ loop.entries[i].to \in Nat
    BY <2>1, LoopFields
  <2>3. ASSUME NEW i \in 1 .. n
        PROVE  Delimiters(loop) \cap loop.entries[i].from .. loop.entries[i].to - 1
                 = {loop.entries[i].from}
    <3>1. /\ loop.from <= loop.entries[i].from
          /\ loop.entries[i].from < loop.entries[i].to
          /\ loop.entries[i].to <= loop.to
          /\ HasDelimiter(loop, loop.entries[i].from)
          /\ \A j \in loop.entries[i].from + 1 .. loop.entries[i].to - 1 : ~HasDelimiter(loop, j)
      BY <2>1 DEF Sound, Tiled
    <3>2. loop.entries[i].from \in Nat /\ loop.entries[i].to \in Nat
      BY <2>2
    <3>3. loop.entries[i].from \in Delimiters(loop)
      BY <2>2, <3>1, <3>2 DEF Delimiters, HasDelimiter
    <3>4. ASSUME NEW j \in Delimiters(loop), j \in loop.entries[i].from .. loop.entries[i].to - 1
          PROVE  j = loop.entries[i].from
      <4>1. HasDelimiter(loop, j)
        BY DEF Delimiters, HasDelimiter
      <4>2. j # loop.entries[i].from => j \in loop.entries[i].from + 1 .. loop.entries[i].to - 1
        BY <3>2, <3>4
      <4> QED
        BY <3>1, <4>1, <4>2
    <3>5. loop.entries[i].from \in loop.entries[i].from .. loop.entries[i].to - 1
      BY <3>1, <3>2
    <3> QED
      BY <3>3, <3>4, <3>5
  <2>4. \A i \in 1 .. n - 1 : loop.entries[i].to = loop.entries[i + 1].from
    BY <2>1 DEF Sound, Tiled
  <2>5. n <= loop.count
    <3>1. CASE loop.begin = loop.to
      BY <2>1, <3>1 DEF Sound, Counted
    <3>2. CASE loop.begin # loop.to
      BY <2>1, <2>2, <3>2 DEF Sound, Counted
    <3> QED
      BY <3>1, <3>2
  <2>6. ASSUME Finished(loop), n < loop.count
        PROVE  begun = Delimiters(loop)
    <3>1. loop.begin = loop.to
      BY <2>6 DEF Finished
    <3>2. begun \subseteq Delimiters(loop)
      BY <2>3
    <3>3. ASSUME NEW j \in Delimiters(loop) PROVE j \in begun
      <4>1. j \in loop.from .. loop.to - 1 /\ HasDelimiter(loop, j)
        BY DEF Delimiters, HasDelimiter
      <4>2. Reach(loop) \in Nat
        BY <2>2 DEF Reach
      <4>3. ~(j \in Reach(loop) .. loop.to - 1)
        BY <2>1, <2>6, <3>1, <4>1 DEF Sound, Begun
      <4>4. j \in loop.from .. Reach(loop) - 1
        BY <2>2, <4>1, <4>2, <4>3
      <4> QED
        BY <2>1, <4>1, <4>4 DEF Sound, Begun
    <3> QED
      BY <3>2, <3>3
  <2> QED
    BY <2>3, <2>4, <2>5, <2>6
<1>2. IInv => EntriesTile
  BY <1>1 DEF EntriesTile, Given
<1> QED
  BY <1>2, Invariance, PTL

\* The entries of a nested loop lie in the entry it was opened in.
THEOREM StaysInEntry == Spec => []NestedInside
<1>1. ASSUME IInv, NEW k \in 1 .. Len(open) - 1, NEW i \in 1 .. Len(open[k + 1].entries)
      PROVE  /\ open[k].begin < open[k + 1].entries[i].from
             /\ open[k + 1].entries[i].to <= open[k].end
  <2> DEFINE inner == open[k + 1]
  <2>1. k \in 1 .. Len(open) /\ k + 1 \in 1 .. Len(open)
    BY <1>1 DEF IInv
  <2>2. open[k] \in LoopType /\ inner \in LoopType /\ Sound(inner) /\ Inside(open[k], inner)
    BY <1>1, <2>1 DEF IInv
  <2>3. /\ open[k].begin \in Nat /\ open[k].end \in Nat /\ inner.from \in Nat /\ inner.to \in Nat
        /\ inner.entries[i].from \in Nat /\ inner.entries[i].to \in Nat
    BY <2>2, LoopFields DEF Given
  <2>4. inner.from <= inner.entries[i].from /\ inner.entries[i].to <= inner.to
    BY <2>2 DEF Sound, Tiled, Given
  <2> HIDE DEF inner
  <2>5. open[k].begin < inner.entries[i].from /\ inner.entries[i].to <= open[k].end
    <3>1. open[k].begin < inner.from /\ inner.to <= open[k].end
      BY <2>2 DEF Inside
    <3> QED
      BY <2>3, <2>4, <3>1, SMTT(30)
  <2> QED
    BY <2>5 DEF inner
<1>2. IInv => NestedInside
  BY <1>1 DEF NestedInside
<1> QED
  BY <1>2, Invariance, PTL

\* Of a group its sender wrote by the rules, the loop gives the sender's
\* entries, all but the last exactly, and does not finish before the last.
THEOREM SentEntries == Spec => []EntriesAsSent
<1>1. ASSUME IInv, NEW loop \in SentLoops
      PROVE  AsSent(loop) /\ OverSent(loop)
  <2>1. loop = open[1] /\ OverSent(loop) /\ open # <<>>
    BY <1>1 DEF SentLoops, OverSent, IInv
  <2> QED
    BY <1>1, <2>1 DEF IInv
<1>2. IInv => EntriesAsSent
  BY <1>1 DEF EntriesAsSent, AsSent, Given, Finished
<1> QED
  BY <1>2, Invariance, PTL
=============================================================================
