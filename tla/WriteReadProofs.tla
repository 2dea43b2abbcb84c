-------------------------- MODULE WriteReadProofs --------------------------
(***************************************************************************)
(* Of the reader: whatever the bytes of a message, no value handed out     *)
(* leaves it, and of one written by the rules the loop visits the fields   *)
(* that were written.  Of the writer and the reader together: what         *)
(* try_write_message delivers keeps those rules, is read as valid and      *)
(* whole, and carries the checksum of its bytes; and byte for byte the     *)
(* writer is the one Writer.tla describes by offsets and sizes.            *)
(***************************************************************************)
EXTENDS WriteRead, ReadingProofs, FiniteSetTheorems

TagType   == (0 .. TagModulus - 1) \cup {35, 10}
FieldType == [at : Nat, tag : TagType, from : Nat, to : Nat]
VisitType == [tag : TagType, from : Nat, to : Nat]

\* A message a reader may hold, received or just written.
IsMessage(m) ==
  /\ m.bytes \in Seq(Byte) /\ IsFrame(Whole(m))
  /\ m.written # <<>> => KeepsTheRules(m)

Shaped ==
  /\ IsMessage(msg) /\ messageEnd = Whole(msg).end
  /\ field \in FieldType /\ ValueInMessage
  /\ seen \in Seq(VisitType) /\ Len(seen) >= 1

\* The loop is at the last field it has visited, or at the checksum field when
\* it has visited them all; increments from there stay.
Sees ==
  msg.written # <<>> =>
    /\ Len(seen) <= Len(msg.written)
    /\ \A i \in 1 .. Len(seen) : seen[i] = msg.written[i]
    /\ AtEnd => Len(seen) = Len(msg.written) /\ field.to = messageEnd - 1
    /\ ~AtEnd => field.at < EndField /\ Visit(field) = seen[Len(seen)]

IInv == Shaped /\ Sees

----------------------------------------------------------------------------
(* The parts of a field *)

LEMMA MessageShape ==
  ASSUME IsMessage(msg), messageEnd = Whole(msg).end
  PROVE  /\ msg.bytes \in Seq(Byte) /\ Len(msg.bytes) \in Nat
         /\ messageEnd \in Nat /\ messageEnd <= Len(msg.bytes)
         /\ EndField \in Nat /\ EndField = Whole(msg).checksum /\ messageEnd = EndField + 7
         /\ Whole(msg).body \in Nat /\ Whole(msg).typeEnd \in Nat
         /\ Whole(msg).body + 3 <= Whole(msg).typeEnd /\ Whole(msg).typeEnd < EndField
<1> DEFINE v == Whole(msg)
<1>1. msg.bytes \in Seq(Byte) /\ IsFrame(v) /\ Len(msg.bytes) \in Nat
  BY DEF IsMessage
<1>2. Verdicts(v, 0, Len(msg.bytes))
  BY <1>1, VerdictResult DEF Whole
<1> HIDE DEF v
<1>3. /\ v.end \in 0 + 1 .. Len(msg.bytes)
      /\ v.body \in 0 + 1 .. Len(msg.bytes) /\ v.checksum \in Nat /\ v.end = v.checksum + 7
      /\ v.typeEnd \in v.body + 3 .. v.checksum - 1
  BY <1>1, <1>2 DEF Verdicts, IsFrame, Incomplete, Invalid
<1>4. messageEnd = v.end
  BY DEF v
<1>5. v.end \in Nat /\ v.body \in Nat /\ v.checksum \in Nat /\ v.typeEnd \in Nat
  BY <1>1, <1>3
<1> QED
  BY <1>1, <1>3, <1>4, <1>5 DEF EndField, v

LEMMA SeparatorResult ==
  ASSUME messageEnd \in Nat, NEW i \in Nat
  PROVE  /\ SeparatorFrom[i] \in 0 .. messageEnd
         /\ SeparatorFrom[i] < messageEnd => i <= SeparatorFrom[i]
<1> DEFINE S == {j \in i .. messageEnd - 1 : At(msg.bytes, j) = Equals \/ At(msg.bytes, j) = SOH}
<1>1. SeparatorFrom[i] = FirstIn(S, i, messageEnd)
  BY DEF SeparatorFrom
<1> HIDE DEF S
<1> QED
  BY <1>1, FirstInAny

LEMMA EqualsResult ==
  ASSUME messageEnd \in Nat, NEW i \in Nat
  PROVE  /\ EqualsFrom[i] \in 0 .. messageEnd
         /\ EqualsFrom[i] < messageEnd => i <= EqualsFrom[i]
<1> DEFINE S == {j \in i .. messageEnd - 1 : At(msg.bytes, j) = Equals}
<1>1. EqualsFrom[i] = FirstIn(S, i, messageEnd)
  BY DEF EqualsFrom
<1> HIDE DEF S
<1> QED
  BY <1>1, FirstInAny

LEMMA SOHResult ==
  ASSUME messageEnd \in Nat, NEW i \in Nat, i <= messageEnd
  PROVE  SOHFrom[i] \in i .. messageEnd
<1> DEFINE S == {j \in i .. messageEnd - 1 : At(msg.bytes, j) = SOH}
<1>1. SOHFrom[i] = IF i >= messageEnd THEN i ELSE FirstIn(S, i, messageEnd)
  BY DEF SOHFrom, FindSOH
<1> HIDE DEF S
<1>2. FirstIn(S, i, messageEnd) \in i .. messageEnd
  BY FirstInRange
<1> QED
  BY <1>1, <1>2

LEMMA TagNumberType ==
  ASSUME msg.bytes \in Seq(Byte), NEW i \in Nat, NEW j \in Nat, i <= j
  PROVE  TagNumber(i, j) \in TagType
<1>1. Unsigned(msg.bytes, i, j, TagModulus) \in 0 .. TagModulus - 1
  BY TagAssumption, UnsignedType
<1> QED
  BY <1>1 DEF TagNumber, TagType

\* The five branches of increment(): the new field begins, holds its value and
\* ends where it says, inside the message.
LEMMA BranchResult ==
  ASSUME Shaped, Next
  PROVE  /\ field' \in FieldType
         /\ field'.at <= field'.from /\ field'.from <= field'.to /\ field'.to <= messageEnd
         /\ MoveTo(field')
<1>1. /\ msg.bytes \in Seq(Byte) /\ messageEnd \in Nat /\ EndField \in Nat
      /\ messageEnd = EndField + 7
  BY MessageShape DEF Shaped
<1>2. field.to \in Nat /\ NextField \in Nat
  BY DEF Shaped, FieldType, NextField
<1>3. /\ Separator \in Nat /\ Separator <= messageEnd
      /\ Separator < messageEnd => NextField <= Separator
  BY <1>1, <1>2, SeparatorResult DEF Separator
<1>4. Separator < messageEnd =>
        /\ ValueEnd \in Nat /\ Separator + 1 <= ValueEnd /\ ValueEnd <= messageEnd
        /\ Tag \in TagType
  <2> SUFFICES ASSUME Separator < messageEnd
               PROVE  /\ ValueEnd \in Nat /\ Separator + 1 <= ValueEnd /\ ValueEnd <= messageEnd
                      /\ Tag \in TagType
    OBVIOUS
  <2>1. SOHFrom[Separator + 1] \in Separator + 1 .. messageEnd
    BY <1>1, <1>3, SOHResult
  <2>2. TagNumber(NextField, Separator) \in TagType
    BY <1>1, <1>2, <1>3, TagNumberType
  <2> QED
    BY <1>1, <1>3, <2>1, <2>2 DEF ValueEnd, Tag
<1>5. CASE \/ NoSeparator \/ NoData
  <2>1. MoveTo(CheckSumField)
    BY <1>5 DEF NoSeparator, NoData
  <2>2. field' = [at |-> EndField, tag |-> 10, from |-> messageEnd - 4, to |-> messageEnd - 1]
    BY <2>1 DEF MoveTo, CheckSumField, Field
  <2>3. 10 \in TagType
    BY DEF TagType
  <2> QED
    BY <1>1, <2>1, <2>2, <2>3 DEF FieldType, MoveTo
<1>6. CASE NoValue
  <2>1. Separator < messageEnd /\ MoveTo(Field(NextField, Tag, Separator, Separator))
    BY <1>6 DEF NoValue
  <2>2. field' = [at |-> NextField, tag |-> Tag, from |-> Separator, to |-> Separator]
    BY <2>1 DEF MoveTo, Field
  <2> QED
    BY <1>1, <1>2, <1>3, <1>4, <2>1, <2>2 DEF FieldType, MoveTo
<1>7. CASE PlainField
  <2>1. Separator < messageEnd /\ MoveTo(Field(NextField, Tag, Separator + 1, ValueEnd))
    BY <1>7 DEF PlainField, HasValue
  <2>2. field' = [at |-> NextField, tag |-> Tag, from |-> Separator + 1, to |-> ValueEnd]
    BY <2>1 DEF MoveTo, Field
  <2> QED
    BY <1>1, <1>2, <1>3, <1>4, <2>1, <2>2 DEF FieldType, MoveTo
<1>8. CASE DataField
  <2> DEFINE tag == TagNumber(DataTagBegin, DataBegin - 1)
  <2>1. /\ Separator < messageEnd /\ DataIsThere
        /\ MoveTo(Field(DataTagBegin, tag, DataBegin, DataBegin + DataLength))
    BY <1>8 DEF DataField, HasValue
  <2>2. DataTagBegin \in Nat
    BY <1>4, <2>1 DEF DataTagBegin
  <2>3. /\ EqualsFrom[DataTagBegin] \in 0 .. messageEnd
        /\ EqualsFrom[DataTagBegin] < messageEnd => DataTagBegin <= EqualsFrom[DataTagBegin]
    BY <1>1, <2>2, EqualsResult
  <2>4. DataBegin = EqualsFrom[DataTagBegin] + 1
    BY DEF DataBegin
  <2>5. /\ DataBegin - 1 < messageEnd /\ DataLength \in 0 .. messageEnd - DataBegin
    BY <2>1 DEF DataIsThere, DataFits
  <2>6. /\ DataBegin \in Nat /\ DataBegin - 1 \in Nat /\ DataTagBegin <= DataBegin - 1
        /\ DataLength \in Nat
        /\ DataBegin + DataLength <= messageEnd
    BY <1>1, <2>2, <2>3, <2>4, <2>5
  <2>7. tag \in TagType
    BY <1>1, <2>2, <2>6, TagNumberType
  <2> HIDE DEF tag
  <2>8. field' = [at |-> DataTagBegin, tag |-> tag, from |-> DataBegin, to |-> DataBegin + DataLength]
    BY <2>1 DEF MoveTo, Field
  <2> QED
    BY <2>1, <2>2, <2>6, <2>7, <2>8 DEF FieldType, MoveTo
<1> QED
  BY <1>5, <1>6, <1>7, <1>8 DEF Next

----------------------------------------------------------------------------
(* Fields written by the rules are read as they were written *)

LEMMA LengthTagsResult ==
  ASSUME NEW tag \in Nat
  PROVE  IsDataLength(tag) <=> tag \in LengthTags
  BY TagAssumption DEF IsDataLength, InBitmap

LEMMA PartIsRead ==
  ASSUME messageEnd \in Nat, NEW p \in Nat,
         NEW f, f.tag \in Nat, f.from \in Nat, f.to \in Nat, f.to < messageEnd,
         IsPart(msg, p, f)
  PROVE  /\ SeparatorFrom[p] = f.from - 1 /\ At(msg.bytes, f.from - 1) # SOH
         /\ SOHFrom[f.from] = f.to /\ TagNumber(p, f.from - 1) = f.tag
<1>1. /\ p + 1 <= f.from /\ f.from <= f.to
      /\ \A k \in p .. f.from - 1 - 1 : At(msg.bytes, k) \notin {Equals, SOH}
      /\ At(msg.bytes, f.from - 1) = Equals
      /\ f.tag = Unsigned(msg.bytes, p, f.from - 1, TagModulus)
      /\ \A k \in f.from .. f.to - 1 : At(msg.bytes, k) \notin {SOH}
      /\ At(msg.bytes, f.to) = SOH
  BY DEF IsPart, Free
<1>2. SeparatorFrom[p] = f.from - 1
  <2> DEFINE S == {j \in p .. messageEnd - 1 : At(msg.bytes, j) = Equals \/ At(msg.bytes, j) = SOH}
             equals == f.from - 1
  <2>1. equals \in p .. messageEnd - 1 /\ equals \in S
    BY <1>1
  <2>2. \A k \in p .. equals - 1 : k \notin S
    BY <1>1
  <2>3. SeparatorFrom[p] = FirstIn(S, p, messageEnd)
    BY DEF SeparatorFrom
  <2> HIDE DEF S, equals
  <2>4. FirstIn(S, p, messageEnd) = equals
    BY <2>1, <2>2, FirstInUnique
  <2> QED
    BY <2>3, <2>4 DEF equals
<1>3. SOHFrom[f.from] = f.to
  <2> DEFINE S == {j \in f.from .. messageEnd - 1 : At(msg.bytes, j) = SOH}
             soh == f.to
  <2>1. soh \in f.from .. messageEnd - 1 /\ soh \in S
    BY <1>1
  <2>2. \A k \in f.from .. soh - 1 : k \notin S
    BY <1>1
  <2>3. SOHFrom[f.from] = FirstIn(S, f.from, messageEnd)
    <3>1. ~(f.from >= messageEnd)
      BY <1>1
    <3> QED
      BY <3>1 DEF SOHFrom, FindSOH
  <2> HIDE DEF S, soh
  <2>4. FirstIn(S, f.from, messageEnd) = soh
    BY <2>1, <2>2, FirstInUnique
  <2> QED
    BY <2>3, <2>4 DEF soh
<1>4. At(msg.bytes, f.from - 1) # SOH
  BY <1>1 DEF Equals, SOH
<1> QED
  BY <1>1, <1>2, <1>3, <1>4 DEF TagNumber

LEMMA TextIsRead ==
  ASSUME Shaped, Next,
         NEW f, f.tag \in Nat, f.from \in Nat, f.to \in Nat, f.to < messageEnd,
         IsText(msg, NextField, f)
  PROVE  field' = Field(NextField, f.tag, f.from, f.to)
<1>1. messageEnd \in Nat /\ NextField \in Nat
  BY MessageShape DEF Shaped, FieldType, NextField
<1>2. IsPart(msg, NextField, f) /\ f.tag \notin LengthTags
  BY DEF IsText
<1>3. /\ Separator = f.from - 1 /\ At(msg.bytes, f.from - 1) # SOH
      /\ SOHFrom[f.from] = f.to /\ TagNumber(NextField, f.from - 1) = f.tag
  BY <1>1, <1>2, PartIsRead DEF Separator
<1>4. Separator + 1 = f.from
  BY <1>3
<1>5. Separator < messageEnd
  <2>1. f.from <= f.to
    BY <1>1, <1>2 DEF IsPart
  <2> QED
    BY <1>1, <1>3, <2>1
<1>6. Tag = f.tag /\ ValueEnd = f.to /\ ~IsDataLength(Tag) /\ HasValue
  BY <1>3, <1>4, <1>5, <1>2, LengthTagsResult DEF Tag, ValueEnd, HasValue
<1>7. PlainField
  BY <1>1, <1>3, <1>5, <1>6 DEF Next, NoSeparator, NoValue, DataField, NoData
<1> QED
  BY <1>4, <1>6, <1>7 DEF PlainField, MoveTo

LEMMA PartFields ==
  ASSUME NEW Tags, NEW Places, NEW r \in [tag : Tags, from : Places, to : Places]
  PROVE  r.tag \in Tags /\ r.from \in Places /\ r.to \in Places
  OBVIOUS

LEMMA DataIsRead ==
  ASSUME Shaped, Next,
         NEW f, f.tag \in Nat, f.from \in Nat, f.to \in Nat, f.to < messageEnd,
         IsData(msg, NextField, f)
  PROVE  \E at \in NextField + 1 .. f.from - 1 : field' = Field(at, f.tag, f.from, f.to)
<1>1. messageEnd \in Nat /\ NextField \in Nat
  BY MessageShape DEF Shaped, FieldType, NextField
<1>2. PICK length \in [tag : LengthTags, from : NextField .. f.from, to : NextField .. f.from] :
        /\ IsPart(msg, NextField, length)
        /\ f.from \in length.to + 2 .. f.to
        /\ Free(msg, length.to + 1, f.from - 1, {Equals}) /\ At(msg.bytes, f.from - 1) = Equals
        /\ f.tag = Unsigned(msg.bytes, length.to + 1, f.from - 1, TagModulus)
        /\ f.to - f.from = Unsigned(msg.bytes, length.from, length.to, SizeModulus)
  BY DEF IsData
<1>3. /\ length.tag \in LengthTags /\ length.tag \in Nat /\ length.from \in Nat /\ length.to \in Nat
      /\ length.to + 2 <= f.from /\ f.from <= f.to /\ length.to < messageEnd
  <2>1. /\ length.tag \in LengthTags /\ length.from \in NextField .. f.from
        /\ length.to \in NextField .. f.from
    BY PartFields
  <2>2. length.tag \in Nat
    <3>1. LengthTags \subseteq Nat
      BY TagAssumption
    <3> QED
      BY <2>1, <3>1, Zenon
  <2>3. length.from \in Nat /\ length.to \in Nat
    BY <1>1, <2>1
  <2>4. f.from \in length.to + 2 .. f.to
    BY <1>2
  <2> QED
    BY <1>1, <2>1, <2>2, <2>3, <2>4
<1>4. /\ Separator = length.from - 1 /\ At(msg.bytes, length.from - 1) # SOH
      /\ SOHFrom[length.from] = length.to /\ TagNumber(NextField, length.from - 1) = length.tag
  <2>1. IsPart(msg, NextField, length)
    BY <1>2
  <2>2. /\ SeparatorFrom[NextField] = length.from - 1 /\ At(msg.bytes, length.from - 1) # SOH
        /\ SOHFrom[length.from] = length.to /\ TagNumber(NextField, length.from - 1) = length.tag
    BY <1>1, <1>3, <2>1, PartIsRead
  <2> QED
    BY <2>2 DEF Separator
<1>5. Separator + 1 = length.from
  BY <1>3, <1>4
<1>6. Separator < messageEnd /\ NextField + 1 <= length.to
  <2>1. length.from <= length.to /\ NextField + 1 <= length.from
    BY <1>1, <1>2, <1>3 DEF IsPart
  <2> QED
    BY <1>1, <1>3, <1>4, <2>1
<1>7. Tag = length.tag /\ ValueEnd = length.to /\ IsDataLength(Tag) /\ HasValue
  BY <1>3, <1>4, <1>5, <1>6, LengthTagsResult DEF Tag, ValueEnd, HasValue
<1>8. DataTagBegin = length.to + 1 /\ DataLength = f.to - f.from
  BY <1>2, <1>5, <1>7 DEF DataTagBegin, DataLength, LengthNumber
<1>9. EqualsFrom[DataTagBegin] = f.from - 1
  <2> DEFINE S == {j \in DataTagBegin .. messageEnd - 1 : At(msg.bytes, j) = Equals}
             equals == f.from - 1
  <2>1. DataTagBegin \in Nat
    BY <1>3, <1>8
  <2>2. equals \in DataTagBegin .. messageEnd - 1 /\ equals \in S
    BY <1>1, <1>2, <1>3, <1>8
  <2>3. \A k \in DataTagBegin .. equals - 1 : k \notin S
    <3>1. \A k \in length.to + 1 .. f.from - 1 - 1 : At(msg.bytes, k) \notin {Equals}
      BY <1>2 DEF Free
    <3> QED
      BY <1>8, <3>1
  <2>4. EqualsFrom[DataTagBegin] = FirstIn(S, DataTagBegin, messageEnd)
    BY <2>1 DEF EqualsFrom
  <2> HIDE DEF S, equals
  <2>5. FirstIn(S, DataTagBegin, messageEnd) = equals
    BY <1>1, <2>1, <2>2, <2>3, FirstInUnique
  <2> QED
    BY <2>4, <2>5 DEF equals
<1>10. DataBegin = f.from
  BY <1>9 DEF DataBegin
<1>11. DataIsThere
  <2>1. DataBegin - 1 < messageEnd /\ DataLength \in 0 .. messageEnd - DataBegin
    BY <1>1, <1>3, <1>8, <1>10
  <2> QED
    BY <2>1 DEF DataIsThere, DataFits
<1>12. DataField
  BY <1>1, <1>3, <1>4, <1>6, <1>7, <1>11 DEF Next, NoSeparator, NoValue, PlainField, NoData
<1>13. field' = Field(DataTagBegin, TagNumber(DataTagBegin, DataBegin - 1), DataBegin, DataBegin + DataLength)
  BY <1>12 DEF DataField, MoveTo
<1>14. DataBegin + DataLength = f.to
  BY <1>8, <1>10
<1>15. TagNumber(DataTagBegin, DataBegin - 1) = f.tag
  BY <1>2, <1>8, <1>10 DEF TagNumber
<1>16. DataTagBegin \in NextField + 1 .. f.from - 1
  BY <1>1, <1>3, <1>6, <1>8
<1> QED
  BY <1>10, <1>13, <1>14, <1>15, <1>16

\* Behind the last field increment() stays where it is.
LEMMA StaysAtEnd ==
  ASSUME Shaped, Next, field.to = messageEnd - 1
  PROVE  field' = CheckSumField
<1>1. messageEnd \in Nat /\ NextField = messageEnd
  BY MessageShape DEF Shaped, FieldType, NextField
<1>2. Separator \in 0 .. messageEnd /\ (Separator < messageEnd => messageEnd <= Separator)
  BY <1>1, SeparatorResult DEF Separator
<1>3. ~(Separator < messageEnd)
  BY <1>1, <1>2
<1>4. NoSeparator
  BY <1>3 DEF Next, NoValue, PlainField, DataField, NoData, HasValue
<1> QED
  BY <1>4 DEF NoSeparator, MoveTo

----------------------------------------------------------------------------
(* The invariant *)

\* What the rules say of a message that keeps them.
LEMMA RulesResult ==
  ASSUME IsMessage(msg), messageEnd = Whole(msg).end, msg.written # <<>>
  PROVE  LET n == Len(msg.written)
         IN  /\ n \in Nat \ {0}
             /\ msg.written[1] = [tag |-> 35, from |-> Whole(msg).body + 3, to |-> Whole(msg).typeEnd]
             /\ \A i \in 1 .. n :
                  /\ msg.written[i].tag \in Nat /\ msg.written[i].from \in Nat
                  /\ msg.written[i].to \in Nat /\ msg.written[i].to < EndField
                  /\ msg.written[i] = [tag |-> msg.written[i].tag, from |-> msg.written[i].from,
                                       to |-> msg.written[i].to]
             /\ \A i \in 2 .. n : \/ IsText(msg, msg.written[i - 1].to + 1, msg.written[i])
                                  \/ IsData(msg, msg.written[i - 1].to + 1, msg.written[i])
             /\ msg.written[n].to = EndField - 1
             /\ IsText(msg, EndField, [tag |-> 10, from |-> messageEnd - 4, to |-> messageEnd - 1])
<1> DEFINE n == Len(msg.written)
           v == Whole(msg)
<1>1. KeepsTheRules(msg)
  BY DEF IsMessage
<1>2. EndField \in Nat /\ EndField = v.checksum /\ messageEnd = v.end
  BY MessageShape
<1>3. /\ n \in Nat \ {0}
      /\ msg.written[1] = [tag |-> 35, from |-> v.body + 3, to |-> v.typeEnd]
      /\ \A i \in 1 .. n : msg.written[i] \in [tag : Nat, from : Nat, to : 0 .. v.checksum - 1]
      /\ \A i \in 2 .. n : \/ IsText(msg, msg.written[i - 1].to + 1, msg.written[i])
                           \/ IsData(msg, msg.written[i - 1].to + 1, msg.written[i])
      /\ msg.written[n].to = v.checksum - 1
      /\ IsText(msg, v.checksum, [tag |-> 10, from |-> v.end - 4, to |-> v.end - 1])
  BY <1>1 DEF KeepsTheRules
<1> HIDE DEF v
<1>4. \A f \in [tag : Nat, from : Nat, to : 0 .. v.checksum - 1] :
        /\ f.tag \in Nat /\ f.from \in Nat /\ f.to \in Nat /\ f.to < EndField
        /\ f = [tag |-> f.tag, from |-> f.from, to |-> f.to]
  BY <1>2
<1> QED
  BY <1>2, <1>3, <1>4 DEF v

\* begin(): MsgType is the current field.
Begun ==
  /\ IsMessage(msg) /\ messageEnd = Whole(msg).end
  /\ field = Field(Whole(msg).body, 35, Whole(msg).body + 3, Whole(msg).typeEnd)
  /\ seen = <<Visit(field)>>

LEMMA BegunIsShaped == Begun => IInv
<1> SUFFICES ASSUME Begun PROVE IInv
  OBVIOUS
<1> DEFINE v == Whole(msg)
<1>1. /\ IsMessage(msg) /\ messageEnd = v.end
      /\ field = [at |-> v.body, tag |-> 35, from |-> v.body + 3, to |-> v.typeEnd]
      /\ seen = <<Visit(field)>>
  BY DEF Begun, Field
<1>2. /\ messageEnd \in Nat /\ EndField \in Nat /\ messageEnd = EndField + 7
      /\ v.body \in Nat /\ v.typeEnd \in Nat /\ v.body + 3 <= v.typeEnd /\ v.typeEnd < EndField
  BY <1>1, MessageShape
<1> HIDE DEF v
<1>3. 35 \in TagType
  BY DEF TagType
<1>4. field \in FieldType /\ Visit(field) \in VisitType
  BY <1>1, <1>2, <1>3 DEF FieldType, VisitType, Visit
<1>5. seen \in Seq(VisitType) /\ Len(seen) = 1 /\ seen[1] = Visit(field)
  BY <1>1, <1>4
<1>6. Shaped
  BY <1>1, <1>2, <1>4, <1>5 DEF Shaped, ValueInMessage, v
<1>7. ~AtEnd /\ field.at < EndField
  BY <1>1, <1>2 DEF AtEnd
<1>8. ASSUME msg.written # <<>>
      PROVE  Len(msg.written) \in Nat \ {0} /\ msg.written[1] = Visit(field)
  <2>1. /\ Len(msg.written) \in Nat \ {0}
        /\ msg.written[1] = [tag |-> 35, from |-> v.body + 3, to |-> v.typeEnd]
    BY <1>1, <1>8, RulesResult DEF v
  <2> QED
    BY <1>1, <2>1 DEF Visit
<1>9. Sees
  BY <1>5, <1>7, <1>8 DEF Sees
<1> QED
  BY <1>6, <1>9 DEF IInv

LEMMA InitIsBegun == Init => Begun
  BY MessagesAssumption, WrittenAssumption DEF Init, Begun, IsMessage

LEMMA InitEstablishes == Init => IInv
  BY InitIsBegun, BegunIsShaped

LEMMA ShapedKept ==
  ASSUME Shaped, Next
  PROVE  Shaped' /\ (seen' = seen \/ seen' = Append(seen, Visit(field')))
<1>1. /\ field' \in FieldType
      /\ field'.at <= field'.from /\ field'.from <= field'.to /\ field'.to <= messageEnd
      /\ MoveTo(field')
  BY BranchResult
<1>2. msg' = msg /\ messageEnd' = messageEnd
  BY <1>1 DEF MoveTo
<1>3. seen' = seen \/ seen' = Append(seen, Visit(field'))
  BY <1>1 DEF MoveTo
<1>4. Visit(field') \in VisitType
  BY <1>1 DEF FieldType, VisitType, Visit
<1>5. seen' \in Seq(VisitType) /\ Len(seen') >= 1
  BY <1>3, <1>4 DEF Shaped
<1>6. Whole(msg') = Whole(msg)
  BY <1>2
<1>7. messageEnd' = Whole(msg').end
  BY <1>2, <1>6 DEF Shaped
<1>8. ValueInMessage'
  BY <1>1, <1>2 DEF ValueInMessage
<1> QED
  BY <1>1, <1>2, <1>3, <1>5, <1>7, <1>8 DEF Shaped

\* A step from a field that was written: to the next one, or to the end.
LEMMA SeesKept ==
  ASSUME IInv, Next, Shaped'
  PROVE  Sees'
<1> DEFINE n == Len(seen)
           last == Len(msg.written)
<1>1. /\ Shaped /\ IsMessage(msg) /\ messageEnd = Whole(msg).end
      /\ n \in Nat \ {0} /\ seen \in Seq(VisitType) /\ field \in FieldType
  BY DEF IInv, Shaped
<1>2. /\ messageEnd \in Nat /\ EndField \in Nat /\ messageEnd = EndField + 7
  BY <1>1, MessageShape
<1>3. MoveTo(field')
  BY <1>1, BranchResult
<1>4. msg' = msg /\ messageEnd' = messageEnd /\ EndField' = EndField
  BY <1>3 DEF MoveTo, EndField
<1> SUFFICES ASSUME msg.written # <<>>
             PROVE  /\ Len(seen') <= last
                    /\ \A i \in 1 .. Len(seen') : seen'[i] = msg.written[i]
                    /\ field'.at = EndField => Len(seen') = last /\ field'.to = messageEnd - 1
                    /\ field'.at # EndField =>
                         field'.at < EndField /\ Visit(field') = seen'[Len(seen')]
  BY <1>4 DEF Sees, AtEnd, Visit
<1>5. /\ n <= last
      /\ \A i \in 1 .. n : seen[i] = msg.written[i]
      /\ AtEnd => n = last /\ field.to = messageEnd - 1
      /\ ~AtEnd => field.at < EndField /\ Visit(field) = seen[n]
  BY DEF IInv, Sees
<1>6. /\ last \in Nat \ {0}
      /\ \A i \in 1 .. last :
           /\ msg.written[i].tag \in Nat /\ msg.written[i].from \in Nat
           /\ msg.written[i].to \in Nat /\ msg.written[i].to < EndField
           /\ msg.written[i] = [tag |-> msg.written[i].tag, from |-> msg.written[i].from,
                                to |-> msg.written[i].to]
      /\ \A i \in 2 .. last : \/ IsText(msg, msg.written[i - 1].to + 1, msg.written[i])
                              \/ IsData(msg, msg.written[i - 1].to + 1, msg.written[i])
      /\ msg.written[last].to = EndField - 1
      /\ IsText(msg, EndField, [tag |-> 10, from |-> messageEnd - 4, to |-> messageEnd - 1])
  BY <1>1, RulesResult
<1>7. field.at \in Nat /\ field.to \in Nat /\ field.at <= field.to
  BY <1>1 DEF Shaped, FieldType, ValueInMessage
<1> HIDE DEF last
\* At the end.
<1>8. CASE AtEnd
  <2>1. field' = CheckSumField
    BY <1>1, <1>5, <1>8, StaysAtEnd
  <2>2. field'.at = EndField /\ field'.to = messageEnd - 1
    BY <2>1 DEF CheckSumField, Field
  <2>3. seen' = seen
    BY <1>3, <1>8 DEF MoveTo
  <2> QED
    BY <1>5, <1>8, <2>2, <2>3
\* At the last field that was written.
<1>9. CASE ~AtEnd /\ n = last
  <2> DEFINE f == [tag |-> 10, from |-> messageEnd - 4, to |-> messageEnd - 1]
  <2>1. field.to = msg.written[last].to
    BY <1>1, <1>5, <1>6, <1>9 DEF Visit
  <2>2. NextField = EndField
    BY <1>2, <1>6, <1>7, <2>1 DEF NextField
  <2>3. /\ f.tag \in Nat /\ f.from \in Nat /\ f.to \in Nat /\ f.to < messageEnd
        /\ f.to = messageEnd - 1
    BY <1>2
  <2>4. IsText(msg, NextField, f)
    BY <1>6, <2>2
  <2> HIDE DEF f
  <2>5. field' = Field(NextField, f.tag, f.from, f.to)
    BY <1>1, <2>3, <2>4, TextIsRead
  <2>6. field'.at = EndField /\ field'.to = messageEnd - 1
    BY <2>2, <2>3, <2>5 DEF Field
  <2>7. seen' = seen
    BY <1>3, <2>6 DEF MoveTo
  <2> QED
    BY <1>5, <1>9, <2>6, <2>7
\* At an earlier one.
<1>10. CASE ~AtEnd /\ n # last
  <2> DEFINE f == msg.written[n + 1]
  <2>1. n \in 1 .. last /\ n + 1 \in 1 .. last /\ n + 1 \in 2 .. last /\ (n + 1) - 1 = n
    BY <1>1, <1>5, <1>6, <1>10
  <2>2. field.to = msg.written[n].to
    BY <1>1, <1>5, <1>10, <2>1 DEF Visit
  <2>3. /\ f.tag \in Nat /\ f.from \in Nat /\ f.to \in Nat /\ f.to < EndField
        /\ f = [tag |-> f.tag, from |-> f.from, to |-> f.to]
    BY <1>6, <2>1
  <2>4. IsText(msg, NextField, f) \/ IsData(msg, NextField, f)
    <3>1. NextField = msg.written[(n + 1) - 1].to + 1
      BY <2>1, <2>2 DEF NextField
    <3> QED
      BY <1>6, <2>1, <3>1
  <2> HIDE DEF f
  <2>5. f.to < messageEnd /\ NextField \in Nat
    BY <1>2, <1>7, <2>3 DEF NextField
  <2>6. \E at \in Nat : field' = Field(at, f.tag, f.from, f.to) /\ NextField <= at /\ at < f.to
    <3>1. CASE IsText(msg, NextField, f)
      <4>1. field' = Field(NextField, f.tag, f.from, f.to)
        BY <1>1, <2>3, <2>5, <3>1, TextIsRead
      <4>2. NextField < f.to
        BY <2>3, <2>5, <3>1 DEF IsText, IsPart
      <4> QED
        BY <2>5, <4>1, <4>2
    <3>2. CASE IsData(msg, NextField, f)
      <4>1. PICK at \in NextField + 1 .. f.from - 1 : field' = Field(at, f.tag, f.from, f.to)
        BY <1>1, <2>3, <2>5, <3>2, DataIsRead
      <4>2. f.from <= f.to
        <5>1. field'.from = f.from /\ field'.to = f.to
          BY <4>1 DEF Field
        <5> QED
          BY <5>1 DEF Shaped, ValueInMessage
      <4> QED
        BY <2>3, <2>5, <4>1, <4>2
    <3> QED
      BY <2>4, <3>1, <3>2
  <2>7. PICK at \in Nat : field' = Field(at, f.tag, f.from, f.to) /\ NextField <= at /\ at < f.to
    BY <2>6
  <2>8. field'.at = at /\ Visit(field') = f
    BY <2>3, <2>7 DEF Field, Visit
  <2>9. at < EndField /\ at # field.at
    BY <1>2, <1>7, <2>3, <2>7 DEF NextField
  <2>10. seen' = Append(seen, f)
    BY <1>3, <1>10, <2>8, <2>9 DEF MoveTo
  <2>11. /\ Len(seen') = n + 1 /\ seen'[n + 1] = f
         /\ \A i \in 1 .. n : seen'[i] = seen[i]
    BY <1>1, <2>10
  <2>12. \A i \in 1 .. n + 1 : seen'[i] = msg.written[i]
    BY <1>1, <1>5, <2>11 DEF f
  <2> QED
    BY <1>2, <2>1, <2>8, <2>9, <2>11, <2>12
<1> QED
  BY <1>8, <1>9, <1>10

LEMMA StepKeeps == IInv /\ [Next]_vars => IInv'
<1> SUFFICES ASSUME IInv, [Next]_vars PROVE IInv'
  OBVIOUS
<1>1. CASE Next
  <2>1. Shaped'
    BY <1>1, ShapedKept DEF IInv
  <2> QED
    BY <1>1, <2>1, SeesKept DEF IInv
<1>2. CASE UNCHANGED vars
  BY <1>2 DEF vars, IInv, Shaped, Sees, ValueInMessage, AtEnd, EndField, Visit, Whole
<1> QED
  BY <1>1, <1>2

----------------------------------------------------------------------------
(* What a loop over the fields can rely on *)

\* Of every behaviour, whatever the bytes of the messages: the current field
\* lies in its message, and of a message that keeps the rules the fields
\* visited are those that were written.
THEOREM Invariance == Spec => []IInv
<1>1. Init => IInv
  BY InitEstablishes
<1>2. IInv /\ [Next]_vars => IInv'
  BY StepKeeps
<1> QED
  BY <1>1, <1>2, PTL DEF Spec

LEMMA ShapedIsTyped == IInv => TypeOK
<1> SUFFICES ASSUME IInv PROVE TypeOK
  OBVIOUS
<1>1. /\ msg.bytes \in Seq(Byte) /\ messageEnd \in Nat /\ messageEnd <= Len(msg.bytes)
      /\ Len(msg.bytes) \in Nat
  BY MessageShape DEF IInv, Shaped
<1>2. field.at \in Nat /\ field.from \in Nat /\ field.to \in Nat /\ field.tag \in TagType
  BY DEF IInv, Shaped, FieldType
<1>3. Len(seen) \in Nat \ {0}
  BY DEF IInv, Shaped
<1> QED
  BY <1>1, <1>2, <1>3 DEF TypeOK, TagType

\* Tags are numbers of their type, and the message's end lies in the bytes.
THEOREM TypeCorrect == Spec => []TypeOK
  BY ShapedIsTyped, Invariance, PTL

\* No value handed out leaves its message, whatever the bytes of the message,
\* however the lengths in it lie, and wherever its separators are.
THEOREM ValuesStayInside == Spec => []ValueInMessage
<1>1. IInv => ValueInMessage
  BY DEF IInv, Shaped
<1> QED
  BY <1>1, Invariance, PTL

\* Of a message written by the rules the loop visits the fields that were
\* written and no others, in order, and ends behind the last of them.
THEOREM FieldsAsWritten == Spec => []SeesTheFields
<1>1. IInv => SeesTheFields
  BY DEF IInv, Sees, SeesTheFields
<1> QED
  BY <1>1, Invariance, PTL

----------------------------------------------------------------------------
(* The digits of a number *)

\* The numerals of the numbers up to some bound.
NumeralOf(f, n) == (IF n >= 10 THEN f[n \div 10] ELSE <<>>) \o <<Zero + (n % 10)>>
Numerals(f, bound) == f = [n \in 0 .. bound |-> NumeralOf(f, n)]

LEMMA TenthIsLess ==
  ASSUME NEW n \in Nat
  PROVE  /\ n \div 10 \in Nat /\ (n >= 10 => n \div 10 < n) /\ n = 10 * (n \div 10) + (n % 10)
         /\ n % 10 \in 0 .. 9
  OBVIOUS

LEMMA NumeralsExist == \A bound \in Nat : \E f : Numerals(f, bound)
<1> DEFINE T == {b \in Nat : ~ \E f : Numerals(f, b)}
<1> SUFFICES ASSUME T # {} PROVE FALSE
  OBVIOUS
<1>1. T \subseteq Nat
  OBVIOUS
<1>2. PICK x \in T : \A y \in T : x <= y
  <2> HIDE DEF T
  <2> QED
    BY <1>1, LeastNumber
<1>3. CASE x = 0
  <2> DEFINE f == [n \in 0 .. 0 |-> <<>> \o <<Zero + (n % 10)>>]
  <2>1. f = [n \in 0 .. 0 |-> NumeralOf(f, n)]
    <3>1. \A n \in 0 .. 0 : NumeralOf(f, n) = <<>> \o <<Zero + (n % 10)>>
      BY DEF NumeralOf
    <3> QED
      BY <3>1
  <2>2. Numerals(f, x)
    BY <1>3, <2>1 DEF Numerals
  <2> QED
    BY <2>2
<1>4. CASE x # 0
  <2>1. x \in Nat /\ x - 1 \in Nat /\ x - 1 \notin T
    BY <1>2, <1>4
  <2>2. PICK g : Numerals(g, x - 1)
    BY <2>1
  <2> DEFINE h == [n \in 0 .. x |-> IF n = x THEN NumeralOf(g, x) ELSE g[n]]
  <2>3. ASSUME NEW n \in 0 .. x
        PROVE  h[n] = NumeralOf(h, n)
    <3>1. n \in Nat /\ n \div 10 \in Nat /\ (n >= 10 => n \div 10 < n)
      BY TenthIsLess
    <3>2. n >= 10 => h[n \div 10] = g[n \div 10]
      BY <2>1, <3>1
    <3>3. NumeralOf(h, n) = NumeralOf(g, n)
      BY <3>2 DEF NumeralOf
    <3>4. n # x => g[n] = NumeralOf(g, n)
      <4>1. g = [k \in 0 .. x - 1 |-> NumeralOf(g, k)]
        BY <2>2 DEF Numerals
      <4> QED
        BY <2>1, <4>1
    <3> QED
      BY <3>3, <3>4
  <2>4. h = [n \in 0 .. x |-> h[n]]
    OBVIOUS
  <2>5. Numerals(h, x)
    <3> HIDE DEF h
    <3> QED
      BY <2>3, <2>4 DEF Numerals
  <2> QED
    BY <2>5
<1> QED
  BY <1>3, <1>4

LEMMA NumeralsAgree ==
  ASSUME NEW b \in Nat, NEW c \in Nat, NEW f, Numerals(f, b), NEW g, Numerals(g, c)
  PROVE  \A n \in Nat : n <= b /\ n <= c => f[n] = g[n]
<1> DEFINE T == {n \in Nat : n <= b /\ n <= c /\ f[n] # g[n]}
<1> SUFFICES ASSUME T # {} PROVE FALSE
  OBVIOUS
<1>1. T \subseteq Nat
  OBVIOUS
<1>2. PICK x \in T : \A y \in T : x <= y
  <2> HIDE DEF T
  <2> QED
    BY <1>1, LeastNumber
<1>3. x \in Nat /\ x <= b /\ x <= c /\ f[x] # g[x]
  OBVIOUS
<1>4. x >= 10 => f[x \div 10] = g[x \div 10]
  <2>1. x \div 10 \in Nat /\ (x >= 10 => x \div 10 < x)
    BY <1>3, TenthIsLess
  <2>2. x >= 10 => x \div 10 \notin T
    BY <1>2, <1>3, <2>1
  <2> QED
    BY <1>3, <2>1, <2>2
<1>5. f[x] = NumeralOf(f, x)
  <2>1. x \in 0 .. b /\ f = [n \in 0 .. b |-> NumeralOf(f, n)]
    BY <1>3 DEF Numerals
  <2> QED
    BY <2>1, Zenon
<1>7. g[x] = NumeralOf(g, x)
  <2>1. x \in 0 .. c /\ g = [n \in 0 .. c |-> NumeralOf(g, n)]
    BY <1>3 DEF Numerals
  <2> QED
    BY <2>1, Zenon
<1>6. NumeralOf(f, x) = NumeralOf(g, x)
  BY <1>4 DEF NumeralOf
<1> QED
  BY <1>3, <1>5, <1>6, <1>7

\* utoa_unchecked: the digits of a tenth, then the last.
LEMMA NumeralSteps == \A n \in Nat : Numeral[n] = NumeralOf(Numeral, n)
<1> DEFINE F == [n \in Nat |-> (CHOOSE f : Numerals(f, n))[n]]
<1>1. ASSUME NEW n \in Nat PROVE Numerals(CHOOSE f : Numerals(f, n), n)
  BY NumeralsExist
<1>2. ASSUME NEW n \in Nat PROVE F[n] = NumeralOf(F, n)
  <2> DEFINE g == CHOOSE f : Numerals(f, n)
             k == n \div 10
             h == CHOOSE f : Numerals(f, k)
  <2>1. Numerals(g, n) /\ k \in Nat /\ (n >= 10 => k < n)
    BY <1>1, TenthIsLess
  <2>2. Numerals(h, k)
    BY <1>1, <2>1
  <2> HIDE DEF g, h, k
  <2>3. g[n] = NumeralOf(g, n)
    BY <2>1 DEF Numerals
  <2>4. n >= 10 => g[k] = h[k]
    BY <2>1, <2>2, NumeralsAgree
  <2>5. F[n] = g[n] /\ F[k] = h[k]
    BY <2>1 DEF g, h
  <2> QED
    BY <2>3, <2>4, <2>5 DEF NumeralOf, k
<1>3. F = [n \in Nat |-> NumeralOf(F, n)]
  <2>1. F = [n \in Nat |-> F[n]]
    OBVIOUS
  <2> HIDE DEF F
  <2> QED
    BY <1>2, <2>1
<1> HIDE DEF F
<1>4. \E f : f = [n \in Nat |-> (IF n >= 10 THEN f[n \div 10] ELSE <<>>) \o <<Zero + (n % 10)>>]
  BY <1>3 DEF NumeralOf
<1>5. Numeral = [n \in Nat |-> (IF n >= 10 THEN Numeral[n \div 10] ELSE <<>>) \o <<Zero + (n % 10)>>]
  BY <1>4, Zenon DEF Numeral
<1> QED
  BY <1>5 DEF NumeralOf

LEMMA NumeralType ==
  ASSUME NEW n \in Nat
  PROVE  Numeral[n] \in Seq(Digits) /\ Len(Numeral[n]) \in Nat \ {0}
<1> DEFINE T == {k \in Nat : ~(Numeral[k] \in Seq(Digits) /\ Len(Numeral[k]) \in Nat \ {0})}
<1> SUFFICES ASSUME T # {} PROVE FALSE
  OBVIOUS
<1>1. T \subseteq Nat
  OBVIOUS
<1>2. PICK x \in T : \A y \in T : x <= y
  <2> HIDE DEF T
  <2> QED
    BY <1>1, LeastNumber
<1>3. x \in Nat /\ x \div 10 \in Nat /\ (x >= 10 => x \div 10 < x) /\ x % 10 \in 0 .. 9
  BY TenthIsLess
<1>4. x >= 10 => Numeral[x \div 10] \in Seq(Digits)
  <2>1. x >= 10 => x \div 10 \notin T
    BY <1>2, <1>3
  <2> QED
    BY <1>3, <2>1
<1>5. Zero + (x % 10) \in Digits
  BY <1>3 DEF Zero, Digits
<1> DEFINE front == IF x >= 10 THEN Numeral[x \div 10] ELSE <<>>
           d == Zero + (x % 10)
<1>6. front \in Seq(Digits)
  BY <1>4
<1>7. Numeral[x] = front \o <<d>>
  BY <1>3, NumeralSteps DEF NumeralOf
<1> HIDE DEF front, d
<1>8. d \in Digits
  BY <1>5 DEF d
<1>9. front \o <<d>> \in Seq(Digits) /\ Len(front \o <<d>>) \in Nat \ {0}
  BY <1>6, <1>8
<1> QED
  BY <1>2, <1>7, <1>9

\* The bytes of t stand at p.
Spells(s, p, t) == \A i \in 1 .. Len(t) : At(s, p + i - 1) = t[i]

\* The number that the digits of a number spell is that number, if its type
\* holds it.
LEMMA NumeralReads ==
  ASSUME NEW s, NEW p \in Nat, NEW modulus \in Nat, NEW n \in Nat, n < modulus,
         Spells(s, p, Numeral[n])
  PROVE  Unsigned(s, p, p + Len(Numeral[n]), modulus) = n
<1> DEFINE Value(k) == Unsigned(s, p, p + Len(Numeral[k]), modulus)
           T == {k \in Nat : k < modulus /\ Spells(s, p, Numeral[k]) /\ Value(k) # k}
<1> SUFFICES ASSUME T # {} PROVE FALSE
  OBVIOUS
<1>1. T \subseteq Nat
  OBVIOUS
<1>2. PICK x \in T : \A y \in T : x <= y
  <2> HIDE DEF T
  <2> QED
    BY <1>1, LeastNumber
<1> DEFINE k == x \div 10
           d == x % 10
<1>3. /\ x \in Nat /\ x < modulus /\ Spells(s, p, Numeral[x]) /\ Value(x) # x
      /\ k \in Nat /\ (x >= 10 => k < x) /\ (x < 10 => k = 0) /\ x = 10 * k + d /\ d \in 0 .. 9
  BY TenthIsLess
<1> HIDE DEF T, Value, k, d
<1> DEFINE front == IF x >= 10 THEN Numeral[k] ELSE <<>>
<1>4. /\ front \in Seq(Digits) /\ Len(front) \in Nat /\ Numeral[x] = front \o <<Zero + d>>
      /\ Len(Numeral[x]) = Len(front) + 1
      /\ \A i \in 1 .. Len(front) : Numeral[x][i] = front[i]
      /\ Numeral[x][Len(front) + 1] = Zero + d
  <2>1. front \in Seq(Digits)
    BY <1>3, NumeralType
  <2>2. Numeral[x] = front \o <<Zero + d>>
    BY <1>3, NumeralSteps DEF NumeralOf, k, d
  <2> HIDE DEF front
  <2> QED
    BY <2>1, <2>2
<1>5. At(s, p + Len(front)) = Zero + d /\ Spells(s, p, front)
  <2>1. \A i \in 1 .. Len(Numeral[x]) : At(s, p + i - 1) = Numeral[x][i]
    BY <1>3 DEF Spells
  <2>2. Len(front) + 1 \in 1 .. Len(Numeral[x]) /\ p + (Len(front) + 1) - 1 = p + Len(front)
    BY <1>4
  <2>3. \A i \in 1 .. Len(front) : i \in 1 .. Len(Numeral[x])
    BY <1>4
  <2> HIDE DEF front
  <2>4. Spells(s, p, front)
    BY <1>4, <2>1, <2>3 DEF Spells
  <2> QED
    BY <1>4, <2>1, <2>2, <2>4
<1>6. Unsigned(s, p, p + Len(front), modulus) = k
  <2>1. CASE x >= 10
    <3>1. front = Numeral[k]
      BY <2>1
    <3>2. k \notin T
      BY <1>2, <1>3, <2>1
    <3>3. k < modulus
      BY <1>3, <2>1
    <3> QED
      BY <1>3, <1>5, <3>1, <3>2, <3>3 DEF T, Value
  <2>2. CASE x < 10
    <3>1. Len(front) = 0 /\ p + Len(front) = p
      BY <1>3, <2>2
    <3> QED
      BY <1>3, <2>2, <3>1, UnsignedSteps
  <2> QED
    BY <1>3, <2>1, <2>2
<1>7. Unsigned(s, p, (p + Len(front)) + 1, modulus) = (k * 10 + ((Zero + d) - Zero)) % modulus
  <2>1. p + Len(front) \in Nat /\ p <= p + Len(front)
    BY <1>4
  <2> HIDE DEF front
  <2>2. Zero + d \in Digits
    BY <1>3 DEF Zero, Digits
  <2> QED
    BY <1>5, <1>6, <2>1, <2>2, UnsignedDigits
<1>8. (k * 10 + ((Zero + d) - Zero)) % modulus = x
  <2>1. k * 10 + ((Zero + d) - Zero) = x
    BY <1>3 DEF Zero
  <2> QED
    BY <1>3, <2>1
<1>9. p + Len(Numeral[x]) = (p + Len(front)) + 1
  <2> HIDE DEF front
  <2> QED
    BY <1>4
<1> QED
  BY <1>3, <1>7, <1>8, <1>9 DEF Value

\* itoa_padded_unchecked of a number that has the room: its digits, zeros in
\* front of them.
LEMMA PaddedDigit ==
  ASSUME NEW x \in Nat, NEW width, NEW i \in 1 .. width, NEW unit \in Nat \ {0},
         10 ^ (width - i) = unit
  PROVE  Padded(x, width)[i] = Zero + ((x \div unit) % 10)
<1>1. Padded(x, width)[i] = Zero + Remainder(Quotient(x, unit), 10)
  BY DEF Padded
<1>2. Quotient(x, unit) = x \div unit /\ x \div unit \in Nat
  BY DEF Quotient
<1> DEFINE q == x \div unit
<1>3. Remainder(q, 10) = q % 10
  <2>1. q \in Nat
    BY <1>2
  <2> HIDE DEF q
  <2> QED
    BY <2>1 DEF Remainder, Quotient
<1> HIDE DEF q
<1>4. Quotient(x, unit) = q
  BY <1>2 DEF q
<1> QED
  BY <1>1, <1>3, <1>4 DEF q

LEMMA PaddedFunction ==
  ASSUME NEW x, NEW width
  PROVE  Padded(x, width) = [i \in 1 .. width |-> Padded(x, width)[i]]
  BY Zenon DEF Padded

Tenth(n) == n \div 10

LEMMA TenthType ==
  ASSUME NEW n \in Nat
  PROVE  Tenth(n) \in Nat /\ Tenth(n) <= n
  BY DEF Tenth

LEMMA LastDigit ==
  ASSUME NEW d \in Nat, NEW modulus \in Nat, d < modulus
  PROVE  (Tenth(d) * 10 + ((Zero + (d % 10)) - Zero)) % modulus = d
<1>1. Tenth(d) * 10 + ((Zero + (d % 10)) - Zero) = d
  BY DEF Zero, Tenth
<1> QED
  BY <1>1

LEMMA DigitType ==
  ASSUME NEW n \in Nat
  PROVE  Zero + (n % 10) \in Digits
  BY DEF Zero, Digits

LEMMA ThreeDigitsAre ==
  ASSUME NEW x \in Nat
  PROVE  /\ Padded(x, 3)[1] = Zero + (Tenth(Tenth(x)) % 10)
         /\ Padded(x, 3)[2] = Zero + (Tenth(x) % 10)
         /\ Padded(x, 3)[3] = Zero + (x % 10)
<1>1. Padded(x, 3)[1] = Zero + (Tenth(Tenth(x)) % 10)
  <2> DEFINE unit == 100
  <2>1. 1 \in 1 .. 3 /\ unit \in Nat \ {0} /\ 10 ^ (3 - 1) = unit
    <3>1. 3 - 1 = 2 /\ 10 ^ 2 = 100
      BY SMT
    <3> QED
      BY <3>1, SMT
  <2>2. x \div unit = Tenth(Tenth(x))
    BY SMT DEF Tenth
  <2> HIDE DEF unit
  <2>3. Padded(x, 3)[1] = Zero + ((x \div unit) % 10)
    BY <2>1, PaddedDigit, ZenonT(60)
  <2> QED
    BY <2>2, <2>3, Zenon
<1>2. Padded(x, 3)[2] = Zero + (Tenth(x) % 10)
  <2> DEFINE unit == 10
  <2>1. 2 \in 1 .. 3 /\ unit \in Nat \ {0} /\ 10 ^ (3 - 2) = unit
    <3>1. 3 - 2 = 1 /\ 10 ^ 1 = 10
      BY SMT
    <3> QED
      BY <3>1, SMT
  <2>2. x \div unit = Tenth(x)
    BY SMT DEF Tenth
  <2> HIDE DEF unit
  <2>3. Padded(x, 3)[2] = Zero + ((x \div unit) % 10)
    BY <2>1, PaddedDigit, ZenonT(60)
  <2> QED
    BY <2>2, <2>3, Zenon
<1>3. Padded(x, 3)[3] = Zero + (x % 10)
  <2> DEFINE unit == 1
  <2>1. 3 \in 1 .. 3 /\ unit \in Nat \ {0} /\ 10 ^ (3 - 3) = unit
    <3>1. 3 - 3 = 0 /\ 10 ^ 0 = 1
      BY SMT
    <3> QED
      BY <3>1, SMT
  <2>2. x \div unit = x
    BY SMT DEF Tenth
  <2> HIDE DEF unit
  <2>3. Padded(x, 3)[3] = Zero + ((x \div unit) % 10)
    BY <2>1, PaddedDigit, ZenonT(60)
  <2> QED
    BY <2>2, <2>3, Zenon
<1> QED
  BY <1>1, <1>2, <1>3

LEMMA ThreeDigitsType ==
  ASSUME NEW x \in Nat
  PROVE  Len(Padded(x, 3)) = 3 /\ Padded(x, 3) \in Seq(Digits)
<1> DEFINE t == Padded(x, 3)
<1>1. t = [i \in 1 .. 3 |-> t[i]]
  BY PaddedFunction, Zenon
<1>2. x \in Nat /\ Tenth(x) \in Nat /\ Tenth(Tenth(x)) \in Nat
  BY TenthType, Zenon
<1>3. t[1] \in Digits /\ t[2] \in Digits /\ t[3] \in Digits
  BY <1>2, ThreeDigitsAre, DigitType, Zenon
<1> HIDE DEF t
<1>4. \A i \in 1 .. 3 : t[i] \in Digits
  <2>1. \A i \in 1 .. 3 : i = 1 \/ i = 2 \/ i = 3
    OBVIOUS
  <2> QED
    BY <1>3, <2>1
<1>5. t \in Seq(Digits) /\ Len(t) = 3
  BY <1>1, <1>4
<1> QED
  BY <1>5 DEF t

LEMMA ThreeDigitsRead ==
  ASSUME NEW s, NEW p \in Nat, NEW modulus \in Nat, NEW x \in Nat, x < modulus,
         Tenth(Tenth(Tenth(x))) = 0, Spells(s, p, Padded(x, 3))
  PROVE  Unsigned(s, p, p + 3, modulus) = x
<1> DEFINE e == Tenth(x)
           d == Tenth(e)
<1>0. \A y \in Nat : Zero + (y % 10) \in Digits
  BY DEF Zero, Digits
<1>1. d \in Nat /\ d < modulus /\ e \in Nat /\ e < modulus /\ x \in Nat /\ x < modulus
  BY TenthType
<1>2. /\ At(s, p + 0) = Zero + (d % 10) /\ At(s, p + 1) = Zero + (e % 10)
      /\ At(s, p + 2) = Zero + (x % 10)
  <2>1. \A i \in 1 .. 3 : At(s, p + i - 1) = Padded(x, 3)[i]
    BY ThreeDigitsType DEF Spells
  <2>2. /\ p + 1 - 1 = p + 0 /\ 1 \in 1 .. 3 /\ p + 2 - 1 = p + 1 /\ 2 \in 1 .. 3
        /\ p + 3 - 1 = p + 2 /\ 3 \in 1 .. 3
    OBVIOUS
  <2>3. /\ At(s, p + 0) = Padded(x, 3)[1] /\ At(s, p + 1) = Padded(x, 3)[2]
        /\ At(s, p + 2) = Padded(x, 3)[3]
    BY <2>1, <2>2, Zenon
  <2> QED
    BY <2>3, ThreeDigitsAre, Zenon
<1>3. Tenth(d) = 0 /\ Tenth(e) = d /\ Tenth(x) = e
  OBVIOUS
<1> HIDE DEF d, e
<1>4. Unsigned(s, p, p + 0, modulus) = 0
  BY UnsignedSteps
<1>5. Unsigned(s, p, p + 1, modulus) = d
  <2>1. p + 0 \in Nat /\ p <= p + 0 /\ p + 1 = (p + 0) + 1
    OBVIOUS
  <2>2. Unsigned(s, p, (p + 0) + 1, modulus)
          = (Unsigned(s, p, p + 0, modulus) * 10 + (At(s, p + 0) - Zero)) % modulus
    BY <1>0, <1>1, <1>2, <2>1, UnsignedDigits
  <2>3. (Tenth(d) * 10 + ((Zero + (d % 10)) - Zero)) % modulus = d
    BY <1>1, LastDigit
  <2> QED
    BY <1>2, <1>3, <1>4, <2>1, <2>2, <2>3
<1>6. Unsigned(s, p, p + 2, modulus) = e
  <2>1. p + 1 \in Nat /\ p <= p + 1 /\ p + 2 = (p + 1) + 1
    OBVIOUS
  <2>2. Unsigned(s, p, (p + 1) + 1, modulus)
          = (Unsigned(s, p, p + 1, modulus) * 10 + (At(s, p + 1) - Zero)) % modulus
    BY <1>0, <1>1, <1>2, <2>1, UnsignedDigits
  <2>3. (Tenth(e) * 10 + ((Zero + (e % 10)) - Zero)) % modulus = e
    BY <1>1, LastDigit
  <2> QED
    BY <1>2, <1>3, <1>5, <2>1, <2>2, <2>3
<1>7. Unsigned(s, p, p + 3, modulus) = x
  <2>1. p + 2 \in Nat /\ p <= p + 2 /\ p + 3 = (p + 2) + 1
    OBVIOUS
  <2>2. Unsigned(s, p, (p + 2) + 1, modulus)
          = (Unsigned(s, p, p + 2, modulus) * 10 + (At(s, p + 2) - Zero)) % modulus
    BY <1>0, <1>1, <1>2, <2>1, UnsignedDigits
  <2>3. (Tenth(x) * 10 + ((Zero + (x % 10)) - Zero)) % modulus = x
    BY <1>1, LastDigit
  <2> QED
    BY <1>2, <1>3, <1>6, <2>1, <2>2, <2>3
<1> QED
  BY <1>7

LEMMA ThreeTenths ==
  ASSUME NEW x \in Nat, x <= 999
  PROVE  Tenth(Tenth(Tenth(x))) = 0
  BY SMT DEF Tenth

LEMMA SixDigitsAre ==
  ASSUME NEW x \in Nat
  PROVE  /\ Padded(x, 6)[1] = Zero + (Tenth(Tenth(Tenth(Tenth(Tenth(x))))) % 10)
         /\ Padded(x, 6)[2] = Zero + (Tenth(Tenth(Tenth(Tenth(x)))) % 10)
         /\ Padded(x, 6)[3] = Zero + (Tenth(Tenth(Tenth(x))) % 10)
         /\ Padded(x, 6)[4] = Zero + (Tenth(Tenth(x)) % 10)
         /\ Padded(x, 6)[5] = Zero + (Tenth(x) % 10)
         /\ Padded(x, 6)[6] = Zero + (x % 10)
<1>1. Padded(x, 6)[1] = Zero + (Tenth(Tenth(Tenth(Tenth(Tenth(x))))) % 10)
  <2> DEFINE unit == 100000
  <2>1. 1 \in 1 .. 6 /\ unit \in Nat \ {0} /\ 10 ^ (6 - 1) = unit
    <3>1. 6 - 1 = 5 /\ 10 ^ 5 = 100000
      BY SMT
    <3> QED
      BY <3>1, SMT
  <2>2. x \div unit = Tenth(Tenth(Tenth(Tenth(Tenth(x)))))
    BY SMT DEF Tenth
  <2> HIDE DEF unit
  <2>3. Padded(x, 6)[1] = Zero + ((x \div unit) % 10)
    BY <2>1, PaddedDigit, ZenonT(60)
  <2> QED
    BY <2>2, <2>3, Zenon
<1>2. Padded(x, 6)[2] = Zero + (Tenth(Tenth(Tenth(Tenth(x)))) % 10)
  <2> DEFINE unit == 10000
  <2>1. 2 \in 1 .. 6 /\ unit \in Nat \ {0} /\ 10 ^ (6 - 2) = unit
    <3>1. 6 - 2 = 4 /\ 10 ^ 4 = 10000
      BY SMT
    <3> QED
      BY <3>1, SMT
  <2>2. x \div unit = Tenth(Tenth(Tenth(Tenth(x))))
    BY SMT DEF Tenth
  <2> HIDE DEF unit
  <2>3. Padded(x, 6)[2] = Zero + ((x \div unit) % 10)
    BY <2>1, PaddedDigit, ZenonT(60)
  <2> QED
    BY <2>2, <2>3, Zenon
<1>3. Padded(x, 6)[3] = Zero + (Tenth(Tenth(Tenth(x))) % 10)
  <2> DEFINE unit == 1000
  <2>1. 3 \in 1 .. 6 /\ unit \in Nat \ {0} /\ 10 ^ (6 - 3) = unit
    <3>1. 6 - 3 = 3 /\ 10 ^ 3 = 1000
      BY SMT
    <3> QED
      BY <3>1, SMT
  <2>2. x \div unit = Tenth(Tenth(Tenth(x)))
    BY SMT DEF Tenth
  <2> HIDE DEF unit
  <2>3. Padded(x, 6)[3] = Zero + ((x \div unit) % 10)
    BY <2>1, PaddedDigit, ZenonT(60)
  <2> QED
    BY <2>2, <2>3, Zenon
<1>4. Padded(x, 6)[4] = Zero + (Tenth(Tenth(x)) % 10)
  <2> DEFINE unit == 100
  <2>1. 4 \in 1 .. 6 /\ unit \in Nat \ {0} /\ 10 ^ (6 - 4) = unit
    <3>1. 6 - 4 = 2 /\ 10 ^ 2 = 100
      BY SMT
    <3> QED
      BY <3>1, SMT
  <2>2. x \div unit = Tenth(Tenth(x))
    BY SMT DEF Tenth
  <2> HIDE DEF unit
  <2>3. Padded(x, 6)[4] = Zero + ((x \div unit) % 10)
    BY <2>1, PaddedDigit, ZenonT(60)
  <2> QED
    BY <2>2, <2>3, Zenon
<1>5. Padded(x, 6)[5] = Zero + (Tenth(x) % 10)
  <2> DEFINE unit == 10
  <2>1. 5 \in 1 .. 6 /\ unit \in Nat \ {0} /\ 10 ^ (6 - 5) = unit
    <3>1. 6 - 5 = 1 /\ 10 ^ 1 = 10
      BY SMT
    <3> QED
      BY <3>1, SMT
  <2>2. x \div unit = Tenth(x)
    BY SMT DEF Tenth
  <2> HIDE DEF unit
  <2>3. Padded(x, 6)[5] = Zero + ((x \div unit) % 10)
    BY <2>1, PaddedDigit, ZenonT(60)
  <2> QED
    BY <2>2, <2>3, Zenon
<1>6. Padded(x, 6)[6] = Zero + (x % 10)
  <2> DEFINE unit == 1
  <2>1. 6 \in 1 .. 6 /\ unit \in Nat \ {0} /\ 10 ^ (6 - 6) = unit
    <3>1. 6 - 6 = 0 /\ 10 ^ 0 = 1
      BY SMT
    <3> QED
      BY <3>1, SMT
  <2>2. x \div unit = x
    BY SMT DEF Tenth
  <2> HIDE DEF unit
  <2>3. Padded(x, 6)[6] = Zero + ((x \div unit) % 10)
    BY <2>1, PaddedDigit, ZenonT(60)
  <2> QED
    BY <2>2, <2>3, Zenon
<1> QED
  BY <1>1, <1>2, <1>3, <1>4, <1>5, <1>6

LEMMA SixDigitsType ==
  ASSUME NEW x \in Nat
  PROVE  Len(Padded(x, 6)) = 6 /\ Padded(x, 6) \in Seq(Digits)
<1> DEFINE t == Padded(x, 6)
<1>1. t = [i \in 1 .. 6 |-> t[i]]
  BY PaddedFunction, Zenon
<1>2. /\ x \in Nat /\ Tenth(x) \in Nat /\ Tenth(Tenth(x)) \in Nat
      /\ Tenth(Tenth(Tenth(x))) \in Nat /\ Tenth(Tenth(Tenth(Tenth(x)))) \in Nat
      /\ Tenth(Tenth(Tenth(Tenth(Tenth(x))))) \in Nat
  BY TenthType, Zenon
<1>3. /\ t[1] \in Digits /\ t[2] \in Digits /\ t[3] \in Digits /\ t[4] \in Digits
      /\ t[5] \in Digits /\ t[6] \in Digits
  BY <1>2, SixDigitsAre, DigitType, Zenon
<1> HIDE DEF t
<1>4. \A i \in 1 .. 6 : t[i] \in Digits
  <2>1. \A i \in 1 .. 6 : i = 1 \/ i = 2 \/ i = 3 \/ i = 4 \/ i = 5 \/ i = 6
    OBVIOUS
  <2> QED
    BY <1>3, <2>1
<1>5. t \in Seq(Digits) /\ Len(t) = 6
  BY <1>1, <1>4
<1> QED
  BY <1>5 DEF t

LEMMA SixDigitsRead ==
  ASSUME NEW s, NEW p \in Nat, NEW modulus \in Nat, NEW x \in Nat, x < modulus,
         Tenth(Tenth(Tenth(Tenth(Tenth(Tenth(x)))))) = 0, Spells(s, p, Padded(x, 6))
  PROVE  Unsigned(s, p, p + 6, modulus) = x
<1> DEFINE e == Tenth(x)
           d == Tenth(e)
           c == Tenth(d)
           b == Tenth(c)
           a == Tenth(b)
<1>0. \A y \in Nat : Zero + (y % 10) \in Digits
  BY DEF Zero, Digits
<1>1. /\ a \in Nat /\ a < modulus /\ b \in Nat /\ b < modulus /\ c \in Nat /\ c < modulus
      /\ d \in Nat /\ d < modulus /\ e \in Nat /\ e < modulus /\ x \in Nat /\ x < modulus
  BY TenthType
<1>2. /\ At(s, p + 0) = Zero + (a % 10) /\ At(s, p + 1) = Zero + (b % 10)
      /\ At(s, p + 2) = Zero + (c % 10) /\ At(s, p + 3) = Zero + (d % 10)
      /\ At(s, p + 4) = Zero + (e % 10) /\ At(s, p + 5) = Zero + (x % 10)
  <2>1. \A i \in 1 .. 6 : At(s, p + i - 1) = Padded(x, 6)[i]
    BY SixDigitsType DEF Spells
  <2>2. /\ p + 1 - 1 = p + 0 /\ 1 \in 1 .. 6 /\ p + 2 - 1 = p + 1 /\ 2 \in 1 .. 6
        /\ p + 3 - 1 = p + 2 /\ 3 \in 1 .. 6 /\ p + 4 - 1 = p + 3 /\ 4 \in 1 .. 6
        /\ p + 5 - 1 = p + 4 /\ 5 \in 1 .. 6 /\ p + 6 - 1 = p + 5 /\ 6 \in 1 .. 6
    OBVIOUS
  <2>3. /\ At(s, p + 0) = Padded(x, 6)[1] /\ At(s, p + 1) = Padded(x, 6)[2]
        /\ At(s, p + 2) = Padded(x, 6)[3] /\ At(s, p + 3) = Padded(x, 6)[4]
        /\ At(s, p + 4) = Padded(x, 6)[5] /\ At(s, p + 5) = Padded(x, 6)[6]
    BY <2>1, <2>2, Zenon
  <2> QED
    BY <2>3, SixDigitsAre, Zenon
<1>3. Tenth(a) = 0 /\ Tenth(b) = a /\ Tenth(c) = b /\ Tenth(d) = c /\ Tenth(e) = d /\ Tenth(x) = e
  OBVIOUS
<1> HIDE DEF a, b, c, d, e
<1>4. Unsigned(s, p, p + 0, modulus) = 0
  BY UnsignedSteps
<1>5. Unsigned(s, p, p + 1, modulus) = a
  <2>1. p + 0 \in Nat /\ p <= p + 0 /\ p + 1 = (p + 0) + 1
    OBVIOUS
  <2>2. Unsigned(s, p, (p + 0) + 1, modulus)
          = (Unsigned(s, p, p + 0, modulus) * 10 + (At(s, p + 0) - Zero)) % modulus
    BY <1>0, <1>1, <1>2, <2>1, UnsignedDigits
  <2>3. (Tenth(a) * 10 + ((Zero + (a % 10)) - Zero)) % modulus = a
    BY <1>1, LastDigit
  <2> QED
    BY <1>2, <1>3, <1>4, <2>1, <2>2, <2>3
<1>6. Unsigned(s, p, p + 2, modulus) = b
  <2>1. p + 1 \in Nat /\ p <= p + 1 /\ p + 2 = (p + 1) + 1
    OBVIOUS
  <2>2. Unsigned(s, p, (p + 1) + 1, modulus)
          = (Unsigned(s, p, p + 1, modulus) * 10 + (At(s, p + 1) - Zero)) % modulus
    BY <1>0, <1>1, <1>2, <2>1, UnsignedDigits
  <2>3. (Tenth(b) * 10 + ((Zero + (b % 10)) - Zero)) % modulus = b
    BY <1>1, LastDigit
  <2> QED
    BY <1>2, <1>3, <1>5, <2>1, <2>2, <2>3
<1>7. Unsigned(s, p, p + 3, modulus) = c
  <2>1. p + 2 \in Nat /\ p <= p + 2 /\ p + 3 = (p + 2) + 1
    OBVIOUS
  <2>2. Unsigned(s, p, (p + 2) + 1, modulus)
          = (Unsigned(s, p, p + 2, modulus) * 10 + (At(s, p + 2) - Zero)) % modulus
    BY <1>0, <1>1, <1>2, <2>1, UnsignedDigits
  <2>3. (Tenth(c) * 10 + ((Zero + (c % 10)) - Zero)) % modulus = c
    BY <1>1, LastDigit
  <2> QED
    BY <1>2, <1>3, <1>6, <2>1, <2>2, <2>3
<1>8. Unsigned(s, p, p + 4, modulus) = d
  <2>1. p + 3 \in Nat /\ p <= p + 3 /\ p + 4 = (p + 3) + 1
    OBVIOUS
  <2>2. Unsigned(s, p, (p + 3) + 1, modulus)
          = (Unsigned(s, p, p + 3, modulus) * 10 + (At(s, p + 3) - Zero)) % modulus
    BY <1>0, <1>1, <1>2, <2>1, UnsignedDigits
  <2>3. (Tenth(d) * 10 + ((Zero + (d % 10)) - Zero)) % modulus = d
    BY <1>1, LastDigit
  <2> QED
    BY <1>2, <1>3, <1>7, <2>1, <2>2, <2>3
<1>9. Unsigned(s, p, p + 5, modulus) = e
  <2>1. p + 4 \in Nat /\ p <= p + 4 /\ p + 5 = (p + 4) + 1
    OBVIOUS
  <2>2. Unsigned(s, p, (p + 4) + 1, modulus)
          = (Unsigned(s, p, p + 4, modulus) * 10 + (At(s, p + 4) - Zero)) % modulus
    BY <1>0, <1>1, <1>2, <2>1, UnsignedDigits
  <2>3. (Tenth(e) * 10 + ((Zero + (e % 10)) - Zero)) % modulus = e
    BY <1>1, LastDigit
  <2> QED
    BY <1>2, <1>3, <1>8, <2>1, <2>2, <2>3
<1>10. Unsigned(s, p, p + 6, modulus) = x
  <2>1. p + 5 \in Nat /\ p <= p + 5 /\ p + 6 = (p + 5) + 1
    OBVIOUS
  <2>2. Unsigned(s, p, (p + 5) + 1, modulus)
          = (Unsigned(s, p, p + 5, modulus) * 10 + (At(s, p + 5) - Zero)) % modulus
    BY <1>0, <1>1, <1>2, <2>1, UnsignedDigits
  <2>3. (Tenth(x) * 10 + ((Zero + (x % 10)) - Zero)) % modulus = x
    BY <1>1, LastDigit
  <2> QED
    BY <1>2, <1>3, <1>9, <2>1, <2>2, <2>3
<1> QED
  BY <1>10

LEMMA SixTenths ==
  ASSUME NEW x \in Nat, x <= 999999
  PROVE  Tenth(Tenth(Tenth(Tenth(Tenth(Tenth(x)))))) = 0
  BY SMT DEF Tenth

----------------------------------------------------------------------------
(* The bytes of a field *)

Agree(s, t, i, j) == \A k \in i .. j - 1 : At(s, k) = At(t, k)

LEMMA AtOfConcat ==
  ASSUME NEW s \in Seq(Byte), NEW t \in Seq(Byte)
  PROVE  /\ s \o t \in Seq(Byte) /\ Len(s \o t) = Len(s) + Len(t) /\ Len(s) \in Nat
         /\ Len(t) \in Nat
         /\ Agree(s \o t, s, 0, Len(s)) /\ Spells(s \o t, Len(s), t)
<1>1. s \o t \in Seq(Byte) /\ Len(s \o t) = Len(s) + Len(t) /\ Len(s) \in Nat /\ Len(t) \in Nat
  OBVIOUS
<1>2. ASSUME NEW k \in 0 .. Len(s) - 1 PROVE At(s \o t, k) = At(s, k)
  <2>1. k + 1 \in 1 .. Len(s) /\ k + 1 \in 1 .. Len(s \o t) /\ (s \o t)[k + 1] = s[k + 1]
    BY <1>1
  <2> QED
    BY <2>1 DEF At
<1>3. ASSUME NEW k \in 1 .. Len(t) PROVE At(s \o t, Len(s) + k - 1) = t[k]
  <2>1. /\ (Len(s) + k - 1) + 1 = Len(s) + k /\ Len(s) + k \in 1 .. Len(s \o t)
        /\ (s \o t)[Len(s) + k] = t[k]
    BY <1>1
  <2> QED
    BY <2>1 DEF At
<1> QED
  BY <1>1, <1>2, <1>3 DEF Agree, Spells

LEMMA SpellsParts ==
  ASSUME NEW s, NEW p \in Nat, NEW t \in Seq(Byte), NEW u \in Seq(Byte), Spells(s, p, t \o u)
  PROVE  Spells(s, p, t) /\ Spells(s, p + Len(t), u)
<1>1. Len(t \o u) = Len(t) + Len(u) /\ Len(t) \in Nat /\ Len(u) \in Nat
  OBVIOUS
<1>2. ASSUME NEW k \in 1 .. Len(t) PROVE At(s, p + k - 1) = t[k]
  <2>1. k \in 1 .. Len(t \o u) /\ (t \o u)[k] = t[k]
    BY <1>1
  <2> QED
    BY <2>1 DEF Spells
<1>3. ASSUME NEW k \in 1 .. Len(u) PROVE At(s, p + Len(t) + k - 1) = u[k]
  <2>1. /\ Len(t) + k \in 1 .. Len(t \o u) /\ (t \o u)[Len(t) + k] = u[k]
        /\ p + (Len(t) + k) - 1 = p + Len(t) + k - 1
    BY <1>1
  <2> QED
    BY <2>1 DEF Spells
<1> QED
  BY <1>2, <1>3 DEF Spells

LEMMA SpellsOne ==
  ASSUME NEW s, NEW p \in Nat, NEW b, Spells(s, p, <<b>>)
  PROVE  At(s, p) = b
<1>1. Len(<<b>>) = 1 /\ <<b>>[1] = b /\ p + 1 - 1 = p
  OBVIOUS
<1> QED
  BY <1>1 DEF Spells

\* Where bytes are the same, they spell the same.
LEMMA SpellsAgree ==
  ASSUME NEW s, NEW t, NEW p \in Nat, NEW u, Len(u) \in Nat, NEW i \in Nat, NEW j \in Nat,
         Agree(s, t, i, j), i <= p, p + Len(u) <= j, Spells(t, p, u)
  PROVE  Spells(s, p, u)
<1>1. ASSUME NEW k \in 1 .. Len(u) PROVE At(s, p + k - 1) = u[k]
  <2>1. p + k - 1 \in i .. j - 1
    OBVIOUS
  <2> QED
    BY <2>1 DEF Agree, Spells
<1> QED
  BY <1>1 DEF Spells

LEMMA DigitBytes == Seq(Digits) \subseteq Seq(Byte) /\ SOH \in Byte /\ Equals \in Byte /\ Minus \in Byte
  BY DEF Digits, Byte, SOH, Equals, Minus

LEMMA NumeralBytes ==
  ASSUME NEW n \in Nat
  PROVE  Numeral[n] \in Seq(Byte) /\ Len(Numeral[n]) \in Nat /\ Len(Numeral[n]) >= 1
  BY NumeralType, DigitBytes

LEMMA FieldTextType ==
  ASSUME NEW tag \in Nat, NEW value \in Seq(Byte)
  PROVE  /\ FieldText(tag, value) \in Seq(Byte) /\ Len(value) \in Nat
         /\ Len(FieldText(tag, value)) = Len(Numeral[tag]) + 1 + Len(value) + 1
<1> DEFINE N == Numeral[tag]
<1>1. N \in Seq(Byte) /\ <<Equals>> \in Seq(Byte) /\ <<SOH>> \in Seq(Byte)
  BY NumeralBytes, DigitBytes
<1> HIDE DEF N
<1>2. N \o <<Equals>> \in Seq(Byte) /\ Len(N \o <<Equals>>) = Len(N) + 1
  BY <1>1
<1>3. /\ N \o <<Equals>> \o value \in Seq(Byte)
      /\ Len(N \o <<Equals>> \o value) = Len(N) + 1 + Len(value)
  BY <1>2
<1>4. N \o <<Equals>> \o value \o <<SOH>> \in Seq(Byte)
      /\ Len(N \o <<Equals>> \o value \o <<SOH>>) = Len(N) + 1 + Len(value) + 1
  BY <1>1, <1>3
<1> QED
  BY <1>4 DEF FieldText, N

LEMMA FieldSpelled ==
  ASSUME NEW s, NEW p \in Nat, NEW tag \in Nat, NEW value \in Seq(Byte),
         Spells(s, p, FieldText(tag, value))
  PROVE  LET from == p + Len(Numeral[tag]) + 1
         IN  /\ Spells(s, p, Numeral[tag]) /\ At(s, p + Len(Numeral[tag])) = Equals
             /\ Spells(s, from, value) /\ At(s, from + Len(value)) = SOH
<1> DEFINE N == Numeral[tag]
           from == p + Len(N) + 1
<1>1. /\ N \in Seq(Byte) /\ Len(N) \in Nat /\ <<Equals>> \in Seq(Byte)
      /\ <<SOH>> \in Seq(Byte) /\ Len(value) \in Nat
  BY NumeralBytes, DigitBytes
<1>2. Spells(s, p, N \o <<Equals>> \o value \o <<SOH>>)
  BY DEF FieldText
<1> HIDE DEF N
<1>3. N \o <<Equals>> \in Seq(Byte) /\ Len(N \o <<Equals>>) = Len(N) + 1
  BY <1>1
<1>4. /\ N \o <<Equals>> \o value \in Seq(Byte)
      /\ Len(N \o <<Equals>> \o value) = Len(N) + 1 + Len(value)
  BY <1>1, <1>3
<1>5. Spells(s, p, N \o <<Equals>> \o value) /\ Spells(s, p + (Len(N) + 1 + Len(value)), <<SOH>>)
  BY <1>1, <1>2, <1>4, SpellsParts
<1>6. Spells(s, p, N \o <<Equals>>) /\ Spells(s, p + (Len(N) + 1), value)
  BY <1>1, <1>3, <1>5, SpellsParts
<1>7. Spells(s, p, N) /\ Spells(s, p + Len(N), <<Equals>>)
  BY <1>1, <1>6, SpellsParts
<1>8. /\ p + (Len(N) + 1) = from /\ p + (Len(N) + 1 + Len(value)) = from + Len(value)
      /\ p + Len(N) \in Nat /\ from + Len(value) \in Nat
  BY <1>1
<1>9. At(s, p + Len(N)) = Equals /\ At(s, from + Len(value)) = SOH
  BY <1>5, <1>7, <1>8, SpellsOne
<1> QED
  BY <1>6, <1>7, <1>8, <1>9 DEF N

\* The digits of a number are not among the bytes that end them.
LEMMA NumeralIsFree ==
  ASSUME NEW m, NEW p \in Nat, NEW n \in Nat, Spells(m.bytes, p, Numeral[n])
  PROVE  Free(m, p, p + Len(Numeral[n]), {Equals, SOH}) /\ Free(m, p, p + Len(Numeral[n]), {SOH})
         /\ Free(m, p, p + Len(Numeral[n]), {Equals})
<1>1. ASSUME NEW k \in p .. p + Len(Numeral[n]) - 1
      PROVE  At(m.bytes, k) \notin {Equals, SOH}
  <2>1. k - p + 1 \in 1 .. Len(Numeral[n]) /\ p + (k - p + 1) - 1 = k
    BY NumeralBytes
  <2>2. Numeral[n][k - p + 1] \in Digits
    BY <2>1, NumeralType
  <2>3. At(m.bytes, k) = Numeral[n][k - p + 1]
    BY <2>1 DEF Spells
  <2>4. \A d \in Digits : d # Equals /\ d # SOH
    BY DEF Digits, Equals, SOH
  <2> QED
    BY <2>2, <2>3, <2>4
<1> QED
  BY <1>1 DEF Free

LEMMA TextIsPart ==
  ASSUME NEW m, NEW p \in Nat, NEW tag \in Nat, tag < TagModulus, NEW value \in Seq(Byte),
         \A i \in DOMAIN value : value[i] # SOH,
         Spells(m.bytes, p, FieldText(tag, value))
  PROVE  IsPart(m, p, Placed(tag, value, p))
<1> DEFINE L == Len(Numeral[tag])
           from == p + L + 1
           f == Placed(tag, value, p)
<1>1. tag \in Nat /\ tag < TagModulus /\ TagModulus \in Nat
  BY TagAssumption
<1>2. L \in Nat /\ L >= 1 /\ Len(value) \in Nat
  BY <1>1, NumeralBytes
<1>3. /\ Spells(m.bytes, p, Numeral[tag]) /\ At(m.bytes, p + L) = Equals
      /\ Spells(m.bytes, from, value) /\ At(m.bytes, from + Len(value)) = SOH
  BY <1>1, FieldSpelled
<1>4. f.tag = tag /\ f.from = from /\ f.to = from + Len(value)
  BY DEF Placed
<1>5. Free(m, p, p + L, {Equals, SOH})
  BY <1>1, <1>3, NumeralIsFree
<1>6. Unsigned(m.bytes, p, p + L, TagModulus) = tag
  BY <1>1, <1>3, NumeralReads
<1>9. from \in Nat
  BY <1>2
<1>7. Free(m, from, from + Len(value), {SOH})
  <2>1. ASSUME NEW k \in from .. from + Len(value) - 1 PROVE At(m.bytes, k) # SOH
    <3> HIDE DEF from
    <3>1. k - from + 1 \in 1 .. Len(value) /\ from + (k - from + 1) - 1 = k
      BY <1>2, <1>9
    <3>2. DOMAIN value = 1 .. Len(value)
      OBVIOUS
    <3>3. At(m.bytes, from + (k - from + 1) - 1) = value[k - from + 1]
      BY <1>3, <3>1 DEF Spells
    <3> QED
      BY <3>1, <3>2, <3>3
  <2> QED
    BY <2>1 DEF Free
<1>8. from - 1 = p + L /\ from \in p + 1 .. from + Len(value)
  BY <1>2
<1> HIDE DEF L, from, f
<1> QED
  BY <1>3, <1>4, <1>5, <1>6, <1>7, <1>8 DEF IsPart, f

LEMMA TextIsText ==
  ASSUME NEW m, NEW p \in Nat, NEW tag \in Nat, NEW value \in Seq(Byte),
         Plain(tag, value), Spells(m.bytes, p, FieldText(tag, value))
  PROVE  IsText(m, p, Placed(tag, value, p))
<1>1. Placed(tag, value, p).tag = tag
  BY DEF Placed
<1>2. tag < TagModulus /\ \A i \in DOMAIN value : value[i] # SOH
  BY TagAssumption DEF Plain
<1>3. IsPart(m, p, Placed(tag, value, p))
  BY <1>2, TextIsPart
<1> QED
  BY <1>1, <1>3 DEF IsText, Plain

\* A count has no sign.
LEMMA ItoaOfCount ==
  ASSUME NEW n \in Nat
  PROVE  Itoa(n) = Numeral[n]
<1>1. Sign(n) = <<>> /\ Size(n) = n
  BY DEF Sign, Size
<1>2. Numeral[n] \in Seq(Byte)
  BY NumeralBytes
<1> QED
  BY <1>1, <1>2 DEF Itoa

LEMMA ItoaType ==
  ASSUME NEW n \in Int, NEW k \in Nat, Len(Numeral[Size(n)]) <= k
  PROVE  Itoa(n) \in Seq(Byte) /\ Len(Itoa(n)) \in 1 .. k + 1 /\ Size(n) \in Nat
         /\ Len(Itoa(n)) = (IF n < 0 THEN 1 ELSE 0) + Len(Numeral[Size(n)])
<1>1. Size(n) \in Nat
  BY DEF Size
<1>2. Numeral[Size(n)] \in Seq(Byte) /\ Len(Numeral[Size(n)]) \in Nat /\ Len(Numeral[Size(n)]) >= 1
  BY <1>1, NumeralBytes
<1>3. Sign(n) \in Seq(Byte) /\ Len(Sign(n)) = (IF n < 0 THEN 1 ELSE 0)
  BY DigitBytes DEF Sign
<1> DEFINE a == Sign(n)
           b == Numeral[Size(n)]
<1>4. a \in Seq(Byte) /\ b \in Seq(Byte)
  BY <1>2, <1>3
<1> HIDE DEF a, b
<1>5. a \o b \in Seq(Byte) /\ Len(a \o b) = Len(a) + Len(b)
  BY <1>4
<1>6. Itoa(n) = a \o b
  BY DEF Itoa, a, b
<1>7. Len(b) \in 1 .. k /\ Len(a) = (IF n < 0 THEN 1 ELSE 0) /\ Len(b) = Len(Numeral[Size(n)])
  BY <1>2, <1>3 DEF a, b
<1>8. Len(a) \in 0 .. 1
  BY <1>7
<1>9. Len(a \o b) = (IF n < 0 THEN 1 ELSE 0) + Len(Numeral[Size(n)])
  BY <1>5, <1>7, Zenon
<1>10. Len(a \o b) \in 1 .. k + 1
  <2>1. \A x \in 0 .. 1, y \in 1 .. k : x + y \in 1 .. k + 1
    OBVIOUS
  <2> QED
    BY <1>5, <1>7, <1>8, <2>1, Zenon
<1> QED
  BY <1>1, <1>5, <1>6, <1>9, <1>10, Zenon

\* Data behind its length, as the iterator takes them.
LEMMA DataIsData ==
  ASSUME NEW m, NEW p \in Nat, NEW lengthTag \in LengthTags, NEW tag \in Nat, tag < TagModulus,
         NEW value \in Seq(Byte), Len(value) < SizeModulus,
         NEW head, head = FieldText(lengthTag, Numeral[Len(value)]),
         Spells(m.bytes, p, head), Spells(m.bytes, p + Len(head), FieldText(tag, value))
  PROVE  IsData(m, p, Placed(tag, value, p + Len(head)))
<1> DEFINE n == Len(value)
           digits == Numeral[n]
           length == Placed(lengthTag, digits, p)
           K == Len(Numeral[lengthTag])
           L == Len(Numeral[tag])
<1>1. /\ n \in Nat /\ n < SizeModulus /\ lengthTag \in Nat /\ lengthTag < TagModulus
      /\ TagModulus \in Nat /\ SizeModulus \in Nat
  BY TagAssumption, ModulusAssumption
<1>2. /\ digits \in Seq(Byte) /\ digits \in Seq(Digits) /\ Len(digits) \in Nat
      /\ K \in Nat /\ K >= 1 /\ L \in Nat /\ L >= 1
  BY <1>1, NumeralBytes, NumeralType
<1>3. Spells(m.bytes, p, FieldText(lengthTag, digits)) /\ Len(head) = K + 1 + Len(digits) + 1
  <2> HIDE DEF digits
  <2> QED
    BY <1>1, <1>2, FieldTextType DEF digits
<1>4. length = [tag |-> lengthTag, from |-> p + K + 1, to |-> p + K + 1 + Len(digits)]
  BY DEF Placed
<1>6. IsPart(m, p, length)
  <2>1. \A i \in DOMAIN digits : digits[i] # SOH
    <3>1. \A c \in Digits : c # SOH
      BY DEF Digits, SOH
    <3> HIDE DEF digits
    <3> QED
      BY <1>2, <3>1
  <2> HIDE DEF digits
  <2> QED
    BY <1>1, <1>2, <1>3, <2>1, TextIsPart
<1> HIDE DEF length
<1>7. length.tag = lengthTag /\ length.from = p + K + 1 /\ length.to = p + K + 1 + Len(digits)
  BY <1>4
<1>5. PICK q \in Nat : q = p + Len(head) /\ q = p + K + 1 + Len(digits) + 1
  <2> HIDE DEF K, digits
  <2> QED
    BY <1>2, <1>3
<1> DEFINE f == Placed(tag, value, q)
<1>8. f.tag = tag /\ f.from = q + L + 1 /\ f.to = q + L + 1 + n
  BY DEF Placed
<1>9. f = Placed(tag, value, p + Len(head))
  BY <1>5
<1> HIDE DEF f
<1>10. Spells(m.bytes, q, FieldText(tag, value))
  BY <1>5
<1>11. Spells(m.bytes, q, Numeral[tag]) /\ At(m.bytes, q + L) = Equals
  BY <1>10, FieldSpelled
<1>13. Free(m, q, q + L, {Equals})
  BY <1>11, NumeralIsFree
<1>14. Unsigned(m.bytes, q, q + L, TagModulus) = tag
  BY <1>1, <1>11, NumeralReads
<1>15. Unsigned(m.bytes, p + K + 1, p + K + 1 + Len(digits), SizeModulus) = n
  <2>1. Spells(m.bytes, p + K + 1, digits)
    <3> HIDE DEF digits
    <3> QED
      BY <1>1, <1>2, <1>3, FieldSpelled
  <2>2. p + K + 1 \in Nat
    BY <1>2
  <2> DEFINE r == p + K + 1
  <2> HIDE DEF n, r
  <2> QED
    BY <1>1, <2>1, <2>2, NumeralReads DEF r
<1> HIDE DEF n, digits, K, L
<1>16. /\ f.to - f.from = n /\ f.from \in length.to + 2 .. f.to
       /\ length.from \in p .. f.from /\ length.to \in p .. f.from
       /\ length.to + 1 = q /\ f.from - 1 = q + L
  <2>1. PICK a, b, c, e \in Nat : a = K /\ b = L /\ c = Len(digits) /\ e = n
    BY <1>1, <1>2
  <2>2. f.from = q + b + 1 /\ f.to = q + b + 1 + e /\ q = p + a + 1 + c + 1
        /\ length.from = p + a + 1 /\ length.to = p + a + 1 + c
    BY <1>5, <1>7, <1>8, <2>1
  <2>3. /\ f.to - f.from = e /\ f.from \in length.to + 2 .. f.to
        /\ length.from \in p .. f.from /\ length.to \in p .. f.from
        /\ length.to + 1 = q /\ f.from - 1 = q + b
    BY <2>2
  <2> QED
    BY <2>1, <2>3
<1>17. length \in [tag : LengthTags, from : p .. f.from, to : p .. f.from]
  <2>1. length = [tag |-> lengthTag, from |-> length.from, to |-> length.to]
    BY <1>4, <1>7
  <2> QED
    BY <1>16, <2>1
<1>18. /\ Free(m, length.to + 1, f.from - 1, {Equals}) /\ At(m.bytes, f.from - 1) = Equals
       /\ f.tag = Unsigned(m.bytes, length.to + 1, f.from - 1, TagModulus)
       /\ f.to - f.from = Unsigned(m.bytes, length.from, length.to, SizeModulus)
  BY <1>7, <1>8, <1>11, <1>13, <1>14, <1>15, <1>16
<1>19. IsData(m, p, f)
  BY <1>6, <1>16, <1>17, <1>18 DEF IsData
<1> QED
  BY <1>9, <1>19

----------------------------------------------------------------------------
(* The sections of the buffer *)

\* A section of one field that keeps the rules, at its place in the bytes.
HoldsText(s, section) ==
  \E tag \in Nat, value \in Seq(Byte) :
    /\ Plain(tag, value) /\ section.fields = <<Placed(tag, value, section.at)>>
    /\ section.size = Len(FieldText(tag, value))
    /\ Spells(s, section.at, FieldText(tag, value))
LengthText(lengthTag, value) == FieldText(lengthTag, Numeral[Len(value)])
IsDataText(s, section, lengthTag, tag, value) ==
  LET head == LengthText(lengthTag, value)
  IN  /\ lengthTag \in LengthTags /\ tag < TagModulus /\ Len(value) < SizeModulus
      /\ section.fields = <<Placed(tag, value, section.at + Len(head))>>
      /\ section.size = Len(head) + Len(FieldText(tag, value))
      /\ Spells(s, section.at, head)
      /\ Spells(s, section.at + Len(head), FieldText(tag, value))
HoldsData(s, section) ==
  \E lengthTag \in Nat, tag \in Nat, value \in Seq(Byte) :
    IsDataText(s, section, lengthTag, tag, value)
Holds(s, section) == HoldsText(s, section) \/ HoldsData(s, section)

LEMMA LengthTextType ==
  ASSUME NEW lengthTag \in Nat, NEW value \in Seq(Byte)
  PROVE  /\ LengthText(lengthTag, value) \in Seq(Byte) /\ Len(value) \in Nat
         /\ Len(LengthText(lengthTag, value)) = Len(Numeral[lengthTag]) + 1 + Len(Numeral[Len(value)]) + 1
         /\ Len(LengthText(lengthTag, value)) \in Nat
<1>1. Len(value) \in Nat
  OBVIOUS
<1>2. Numeral[Len(value)] \in Seq(Byte)
  BY <1>1, NumeralBytes
<1> QED
  BY <1>1, <1>2, FieldTextType DEF LengthText

\* Where Placed puts a field, as numbers.
LEMMA PlacedType ==
  ASSUME NEW tag \in Nat, NEW value \in Seq(Byte), NEW at \in Nat, NEW f, f = Placed(tag, value, at)
  PROVE  /\ f \in [tag : Nat, from : Nat, to : Nat] /\ f.to + 1 = at + Len(FieldText(tag, value))
<1> DEFINE from == at + Len(Numeral[tag]) + 1
           to == from + Len(value)
<1>1. /\ Len(Numeral[tag]) \in Nat /\ Len(value) \in Nat
      /\ Len(FieldText(tag, value)) = Len(Numeral[tag]) + 1 + Len(value) + 1
  BY NumeralBytes, FieldTextType
<1>2. f = [tag |-> tag, from |-> from, to |-> to]
  BY DEF Placed
<1>3. from \in Nat /\ to \in Nat /\ to + 1 = at + Len(FieldText(tag, value))
  BY <1>1
<1> HIDE DEF from, to
<1> QED
  BY <1>2, <1>3

LEMMA HoldsAgree ==
  ASSUME NEW s, NEW t, NEW section, NEW i \in Nat, NEW j \in Nat,
         section.at \in Nat, section.size \in Nat,
         i <= section.at, section.at + section.size <= j,
         Agree(s, t, i, j), Holds(t, section)
  PROVE  Holds(s, section)
<1>1. CASE HoldsText(t, section)
  <2>1. PICK tag \in Nat, value \in Seq(Byte) :
          /\ Plain(tag, value) /\ section.fields = <<Placed(tag, value, section.at)>>
          /\ section.size = Len(FieldText(tag, value))
          /\ Spells(t, section.at, FieldText(tag, value))
    BY <1>1 DEF HoldsText
  <2>2. Spells(s, section.at, FieldText(tag, value))
    BY <2>1, SpellsAgree
  <2> QED
    BY <2>1, <2>2 DEF Holds, HoldsText
<1>2. CASE HoldsData(t, section)
  <2>1. PICK lengthTag \in Nat, tag \in Nat, value \in Seq(Byte) :
          IsDataText(t, section, lengthTag, tag, value)
    BY <1>2 DEF HoldsData
  <2> DEFINE head == LengthText(lengthTag, value)
             text == FieldText(tag, value)
  <2>2. /\ Len(head) \in Nat /\ Len(text) \in Nat /\ section.size = Len(head) + Len(text)
        /\ Spells(t, section.at, head) /\ Spells(t, section.at + Len(head), text)
    BY <2>1, LengthTextType, FieldTextType DEF IsDataText
  <2> HIDE DEF head, text
  <2>3. Spells(s, section.at, head)
    BY <2>2, SpellsAgree
  <2>4. Spells(s, section.at + Len(head), text)
    <3>1. /\ section.at + Len(head) \in Nat /\ i <= section.at + Len(head)
          /\ (section.at + Len(head)) + Len(text) <= j
      BY <2>2
    <3> QED
      BY <2>2, <3>1, SpellsAgree
  <2>5. IsDataText(s, section, lengthTag, tag, value)
    BY <2>1, <2>3, <2>4 DEF IsDataText, head, text
  <2> QED
    BY <2>5 DEF Holds, HoldsData
<1> QED
  BY <1>1, <1>2 DEF Holds

\* The field of such a section is one the iterator is to see.
LEMMA HoldsIs ==
  ASSUME NEW m, NEW section, section.at \in Nat, section.size \in Nat, Holds(m.bytes, section)
  PROVE  LET f == section.fields[1]
         IN  /\ Len(section.fields) = 1 /\ section.fields = <<f>>
             /\ f \in [tag : Nat, from : Nat, to : Nat]
             /\ IsText(m, section.at, f) \/ IsData(m, section.at, f)
             /\ f.to + 1 = section.at + section.size
<1> DEFINE f == section.fields[1]
<1>1. CASE HoldsText(m.bytes, section)
  <2>1. PICK tag \in Nat, value \in Seq(Byte) :
          /\ Plain(tag, value) /\ section.fields = <<Placed(tag, value, section.at)>>
          /\ section.size = Len(FieldText(tag, value))
          /\ Spells(m.bytes, section.at, FieldText(tag, value))
    BY <1>1 DEF HoldsText
  <2>2. f = Placed(tag, value, section.at) /\ Len(section.fields) = 1 /\ section.fields = <<f>>
    BY <2>1
  <2>3. IsText(m, section.at, f)
    BY <2>1, <2>2, TextIsText
  <2>4. /\ f \in [tag : Nat, from : Nat, to : Nat]
        /\ f.to + 1 = section.at + Len(FieldText(tag, value))
    <3> HIDE DEF f
    <3> QED
      BY <2>2, PlacedType
  <2> QED
    BY <2>1, <2>2, <2>3, <2>4
<1>2. CASE HoldsData(m.bytes, section)
  <2>1. PICK lengthTag \in Nat, tag \in Nat, value \in Seq(Byte) :
          IsDataText(m.bytes, section, lengthTag, tag, value)
    BY <1>2 DEF HoldsData
  <2> DEFINE head == LengthText(lengthTag, value)
             text == FieldText(tag, value)
  <2>10. PICK p \in Nat : p = section.at
    OBVIOUS
  <2>5. Len(head) \in Nat /\ Len(text) \in Nat
    BY LengthTextType, FieldTextType
  <2>11. PICK q \in Nat : q = p + Len(head)
    BY <2>5
  <2>2. /\ section.fields = <<Placed(tag, value, q)>> /\ section.size = Len(head) + Len(text)
        /\ Spells(m.bytes, p, head) /\ Spells(m.bytes, q, text)
        /\ lengthTag \in LengthTags /\ tag < TagModulus /\ Len(value) < SizeModulus
    BY <2>1, <2>10, <2>11 DEF IsDataText
  <2>3. f = Placed(tag, value, q) /\ Len(section.fields) = 1 /\ section.fields = <<f>>
    BY <2>2
  <2>4. IsData(m, section.at, f)
    <3> HIDE DEF f
    <3>1. IsData(m, p, Placed(tag, value, p + Len(head)))
      BY <2>2, <2>11, DataIsData DEF LengthText
    <3> QED
      BY <2>10, <2>3, <2>11, <3>1
  <2>6. f \in [tag : Nat, from : Nat, to : Nat] /\ f.to + 1 = q + Len(text)
    <3> HIDE DEF f
    <3> QED
      BY <2>3, PlacedType
  <2>7. f.to + 1 = section.at + section.size
    <3> HIDE DEF f, head, text
    <3> QED
      BY <2>10, <2>2, <2>5, <2>11, <2>6
  <2> QED
    BY <2>3, <2>4, <2>6, <2>7
<1> QED
  BY <1>1, <1>2 DEF Holds

LEMMA NumeralOfType == Numeral[35] = <<51, 53>>
<1>1. 35 \div 10 = 3 /\ 35 % 10 = 5 /\ 3 % 10 = 3
  BY SMT
<1>2. Numeral[3] = <<51>>
  <2>1. Numeral[3] = NumeralOf(Numeral, 3)
    BY NumeralSteps
  <2> QED
    BY <1>1, <2>1 DEF NumeralOf, Zero
<1>3. Numeral[35] = NumeralOf(Numeral, 35)
  BY NumeralSteps
<1>4. NumeralOf(Numeral, 35) = <<51>> \o <<53>>
  <2>1. 35 >= 10 /\ 48 + 5 = 53
    BY SMT
  <2> QED
    BY <1>1, <1>2, <2>1, Zenon DEF NumeralOf, Zero
<1> QED
  BY <1>3, <1>4

\* A section that begins with MsgType begins with its tag, "35": in data the
\* length stands there.
LEMMA TypeIsText ==
  ASSUME NEW m, NEW section, section.at \in Nat, Holds(m.bytes, section), StartsWithType(section)
  PROVE  /\ At(m.bytes, section.at) = 51 /\ At(m.bytes, section.at + 1) = 53
         /\ IsText(m, section.at, section.fields[1])
<1>1. section.fields[1].tag = 35 /\ section.fields[1].from = section.at + 3
  BY DEF StartsWithType
<1>2. CASE HoldsText(m.bytes, section)
  <2>1. PICK tag \in Nat, value \in Seq(Byte) :
          /\ Plain(tag, value) /\ section.fields = <<Placed(tag, value, section.at)>>
          /\ section.size = Len(FieldText(tag, value))
          /\ Spells(m.bytes, section.at, FieldText(tag, value))
    BY <1>2 DEF HoldsText
  <2>2. section.fields[1] = Placed(tag, value, section.at)
    BY <2>1
  <2>3. tag = 35
    BY <1>1, <2>2 DEF Placed
  <2>4. Spells(m.bytes, section.at, <<51, 53>>)
    <3>1. PICK p \in Nat : p = section.at
      OBVIOUS
    <3>2. Spells(m.bytes, p, Numeral[tag])
      BY <2>1, <3>1, FieldSpelled
    <3> QED
      BY <2>3, <3>1, <3>2, NumeralOfType
  <2>5. At(m.bytes, section.at) = 51 /\ At(m.bytes, section.at + 1) = 53
    <3>1. /\ 1 \in 1 .. Len(<<51, 53>>) /\ 2 \in 1 .. Len(<<51, 53>>)
          /\ section.at + 1 - 1 = section.at
          /\ section.at + 2 - 1 = section.at + 1 /\ <<51, 53>>[1] = 51 /\ <<51, 53>>[2] = 53
      OBVIOUS
    <3> QED
      BY <2>4, <3>1 DEF Spells
  <2>6. IsText(m, section.at, Placed(tag, value, section.at))
    BY <2>1, TextIsText
  <2> QED
    BY <2>2, <2>5, <2>6
<1>3. CASE HoldsData(m.bytes, section)
  <2>1. PICK lengthTag \in Nat, tag \in Nat, value \in Seq(Byte) :
          IsDataText(m.bytes, section, lengthTag, tag, value)
    BY <1>3 DEF HoldsData
  <2> DEFINE n == Len(LengthText(lengthTag, value))
             K == Len(Numeral[lengthTag])
             D == Len(Numeral[Len(value)])
             L == Len(Numeral[tag])
  <2>2. section.fields[1].from = section.at + n + L + 1
    BY <2>1 DEF Placed, IsDataText
  <2>3. n = K + 1 + D + 1 /\ K \in Nat /\ D \in Nat /\ L \in Nat /\ K >= 1 /\ D >= 1
    <3>1. Len(value) \in Nat
      OBVIOUS
    <3> QED
      BY <3>1, LengthTextType, NumeralBytes
  <2> HIDE DEF n, K, D, L
  <2> QED
    BY <1>1, <2>2, <2>3
<1> QED
  BY <1>2, <1>3 DEF Holds

----------------------------------------------------------------------------
(* The checksum *)

\* The sums of the first bytes.
Sums(sum, s, n) == sum = [i \in 0 .. n |-> IF i = 0 THEN 0 ELSE (sum[i - 1] + s[i]) % 256]

LEMMA SumsExist ==
  ASSUME NEW s
  PROVE  \A n \in Nat : \E sum : Sums(sum, s, n)
<1> DEFINE T == {n \in Nat : ~ \E sum : Sums(sum, s, n)}
<1> SUFFICES ASSUME T # {} PROVE FALSE
  OBVIOUS
<1>1. T \subseteq Nat
  OBVIOUS
<1>2. PICK x \in T : \A y \in T : x <= y
  <2> HIDE DEF T
  <2> QED
    BY <1>1, LeastNumber
<1>3. CASE x = 0
  <2>1. Sums([i \in 0 .. x |-> 0], s, x)
    BY <1>3 DEF Sums
  <2> QED
    BY <2>1
<1>4. CASE x # 0
  <2>1. x \in Nat /\ x - 1 \in Nat
    BY <1>4
  <2>2. x - 1 \notin T
    BY <1>2, <2>1
  <2>3. PICK g : Sums(g, s, x - 1)
    BY <2>1, <2>2
  <2> DEFINE next == (g[x - 1] + s[x]) % 256
             h == [i \in 0 .. x |-> IF i = x THEN next ELSE g[i]]
  <2>4. ASSUME NEW i \in 0 .. x
        PROVE  h[i] = IF i = 0 THEN 0 ELSE (h[i - 1] + s[i]) % 256
    <3>1. CASE i = x
      <4>1. h[i - 1] = g[x - 1] /\ h[i] = next
        BY <2>1, <3>1
      <4> HIDE DEF h
      <4> QED
        BY <1>4, <3>1, <4>1
    <3>2. CASE i # x
      <4>1. i \in 0 .. x - 1 /\ h[i] = g[i]
        BY <2>1, <3>2
      <4>2. i # 0 => h[i - 1] = g[i - 1]
        BY <2>1, <4>1
      <4>3. g[i] = IF i = 0 THEN 0 ELSE (g[i - 1] + s[i]) % 256
        BY <2>3, <4>1 DEF Sums
      <4> HIDE DEF h
      <4> QED
        BY <4>1, <4>2, <4>3
    <3> QED
      BY <3>1, <3>2
  <2>5. h = [i \in 0 .. x |-> h[i]]
    OBVIOUS
  <2>6. Sums(h, s, x)
    <3> HIDE DEF h
    <3> QED
      BY <2>4, <2>5 DEF Sums
  <2> QED
    BY <2>6
<1> QED
  BY <1>3, <1>4

LEMMA ChecksumIs ==
  ASSUME NEW s, NEW n \in Nat
  PROVE  \E sum : Sums(sum, s, n) /\ ChecksumBytes(s, n) = sum[n]
<1> DEFINE sum == CHOOSE f : Sums(f, s, n)
<1>1. Sums(sum, s, n)
  BY SumsExist
<1>2. ChecksumBytes(s, n) = sum[n]
  BY DEF ChecksumBytes, Sums
<1> HIDE DEF sum
<1> QED
  BY <1>1, <1>2

\* A sum of bytes is a byte.
LEMMA ChecksumType ==
  ASSUME NEW s, NEW n \in Nat, \A i \in 1 .. n : s[i] \in Byte
  PROVE  ChecksumBytes(s, n) \in Nat /\ ChecksumBytes(s, n) <= 255
<1>1. PICK sum : Sums(sum, s, n) /\ ChecksumBytes(s, n) = sum[n]
  BY ChecksumIs
<1> DEFINE T == {i \in 0 .. n : ~(sum[i] \in Nat /\ sum[i] <= 255)}
<1>2. T = {}
  <2> SUFFICES ASSUME T # {} PROVE FALSE
    OBVIOUS
  <2>1. T \subseteq Nat
    OBVIOUS
  <2>2. PICK x \in T : \A y \in T : x <= y
    <3> HIDE DEF T
    <3> QED
      BY <2>1, LeastNumber
  <2>3. x \in 0 .. n /\ ~(sum[x] \in Nat /\ sum[x] <= 255)
    OBVIOUS
  <2>4. sum[x] = IF x = 0 THEN 0 ELSE (sum[x - 1] + s[x]) % 256
    BY <1>1, <2>3 DEF Sums
  <2>5. x # 0 => sum[x - 1] \in Nat /\ s[x] \in Nat
    <3>1. x # 0 => x - 1 \in 0 .. n /\ x - 1 \notin T
      BY <2>2, <2>3
    <3>2. x # 0 => x \in 1 .. n
      BY <2>3
    <3> QED
      BY <3>1, <3>2, SMTT(30) DEF Byte
  <2> HIDE DEF T
  <2> QED
    BY <2>3, <2>4, <2>5
<1> QED
  BY <1>1, <1>2

\* It depends on the bytes it covers, and on no other.
LEMMA ChecksumAgree ==
  ASSUME NEW s, NEW t, NEW n \in Nat, \A i \in 1 .. n : s[i] = t[i]
  PROVE  ChecksumBytes(s, n) = ChecksumBytes(t, n)
<1>1. PICK f : Sums(f, s, n) /\ ChecksumBytes(s, n) = f[n]
  BY ChecksumIs
<1>2. PICK g : Sums(g, t, n) /\ ChecksumBytes(t, n) = g[n]
  BY ChecksumIs
<1> DEFINE T == {i \in 0 .. n : f[i] # g[i]}
<1>3. T = {}
  <2> SUFFICES ASSUME T # {} PROVE FALSE
    OBVIOUS
  <2>1. T \subseteq Nat
    OBVIOUS
  <2>2. PICK x \in T : \A y \in T : x <= y
    <3> HIDE DEF T
    <3> QED
      BY <2>1, LeastNumber
  <2>3. x \in 0 .. n /\ f[x] # g[x]
    OBVIOUS
  <2>4. f[x] = IF x = 0 THEN 0 ELSE (f[x - 1] + s[x]) % 256
    BY <1>1, <2>3 DEF Sums
  <2>5. g[x] = IF x = 0 THEN 0 ELSE (g[x - 1] + t[x]) % 256
    BY <1>2, <2>3 DEF Sums
  <2>6. x # 0 => f[x - 1] = g[x - 1] /\ s[x] = t[x]
    <3>1. x # 0 => x - 1 \in 0 .. n /\ x - 1 \notin T
      BY <2>2, <2>3
    <3>2. x # 0 => x \in 1 .. n
      BY <2>3
    <3> QED
      BY <3>1, <3>2
  <2> HIDE DEF T
  <2> QED
    BY <2>3, <2>4, <2>5, <2>6
<1> QED
  BY <1>1, <1>2, <1>3

----------------------------------------------------------------------------
(* What the body pushes *)

PartType    == [tag : Nat, from : Nat, to : Nat]
SectionType == [kind : {"header", "field", "trailer"}, at : Nat, size : Nat,
                fields : Seq(PartType), regular : BOOLEAN]

FieldSection(bytes, parts, regular) ==
  [kind |-> "field", at |-> Len(buffer), size |-> Len(bytes), fields |-> parts, regular |-> regular]

\* The bytes are as many as were asked for or less, the last of them is an SOH,
\* and a regular field keeps the rules wherever they stand.
Pushes(need, bytes, parts, regular) ==
  /\ need \in Nat /\ bytes \in Seq(Byte) /\ Len(bytes) \in 1 .. need
  /\ bytes[Len(bytes)] = SOH
  /\ parts \in Seq(PartType) /\ regular \in BOOLEAN
  /\ regular => \A s : Spells(s, Len(buffer), bytes) /\ Len(bytes) < SizeModulus
                         => Holds(s, FieldSection(bytes, parts, regular))

LEMMA LastOfText ==
  ASSUME NEW tag \in Nat, NEW value \in Seq(Byte)
  PROVE  FieldText(tag, value)[Len(FieldText(tag, value))] = SOH
<1> DEFINE front == Numeral[tag] \o <<Equals>> \o value
<1>1. front \in Seq(Byte)
  BY NumeralBytes, DigitBytes
<1>2. FieldText(tag, value) = front \o <<SOH>>
  BY DEF FieldText
<1> HIDE DEF front
<1>3. Len(front \o <<SOH>>) = Len(front) + 1 /\ (front \o <<SOH>>)[Len(front) + 1] = SOH
  BY <1>1
<1> QED
  BY <1>2, <1>3

LEMMA TextPushes ==
  ASSUME Len(buffer) \in Nat, NEW tag \in Nat, NEW value \in Seq(Byte), NEW need \in Nat,
         Len(Numeral[tag]) + 1 + Len(value) + 1 <= need
  PROVE  Pushes(need, FieldText(tag, value), <<Placed(tag, value, Len(buffer))>>, Plain(tag, value))
<1> DEFINE bytes == FieldText(tag, value)
           parts == <<Placed(tag, value, Len(buffer))>>
           regular == Plain(tag, value)
           section == FieldSection(bytes, parts, regular)
<1>1. /\ bytes \in Seq(Byte) /\ Len(bytes) = Len(Numeral[tag]) + 1 + Len(value) + 1
      /\ Len(value) \in Nat /\ Len(Numeral[tag]) \in Nat
  BY FieldTextType, NumeralBytes
<1>2. bytes[Len(bytes)] = SOH
  BY LastOfText
<1>3. PICK at \in Nat : at = Len(buffer)
  OBVIOUS
<1>4. Placed(tag, value, at) \in PartType
  BY PlacedType DEF PartType
<1>5. regular \in BOOLEAN
  BY DEF Plain
<1>6. ASSUME regular, NEW s, Spells(s, Len(buffer), bytes)
      PROVE  Holds(s, section)
  <2>1. section.at = Len(buffer) /\ section.size = Len(bytes) /\ section.fields = parts
    BY DEF FieldSection
  <2> HIDE DEF section
  <2>2. HoldsText(s, section)
    BY <1>6, <2>1 DEF HoldsText
  <2> QED
    BY <2>2 DEF Holds
<1>7. Len(bytes) \in 1 .. need
  <2> HIDE DEF bytes
  <2> QED
    BY <1>1
<1>8. parts \in Seq(PartType)
  <2>1. Placed(tag, value, Len(buffer)) \in PartType
    BY <1>3, <1>4
  <2> QED
    BY <2>1
<1> HIDE DEF bytes, parts, regular
<1> QED
  BY <1>1, <1>2, <1>5, <1>6, <1>7, <1>8 DEF Pushes, bytes, parts, regular

LEMMA StringPushes ==
  ASSUME Len(buffer) \in Nat, NEW f \in Strings
  PROVE  Pushes(12 + Len(f.value) + 1, FieldText(f.tag, f.value),
                <<Placed(f.tag, f.value, Len(buffer))>>, Plain(f.tag, f.value))
<1>1. PICK tag \in Nat, value \in Seq(Byte) : tag = f.tag /\ value = f.value /\ Len(Numeral[tag]) <= 10
  BY PushesAssumption DEF Prints
<1>2. /\ Len(Numeral[tag]) \in Nat /\ Len(value) \in Nat /\ 12 + Len(value) + 1 \in Nat
      /\ Len(Numeral[tag]) + 1 + Len(value) + 1 <= 12 + Len(value) + 1
  <2>1. PICK k \in Nat : k = Len(Numeral[tag]) /\ k <= 10
    BY <1>1, NumeralBytes
  <2>2. PICK n \in Nat : n = Len(value)
    OBVIOUS
  <2>3. 12 + n + 1 \in Nat /\ k + 1 + n + 1 <= 12 + n + 1
    BY <2>1
  <2> QED
    BY <2>1, <2>2, <2>3, Zenon
<1> QED
  BY <1>1, <1>2, TextPushes

LEMMA IntPushes ==
  ASSUME Len(buffer) \in Nat, NEW f \in Ints
  PROVE  LET value == Itoa(f.value)
         IN  Pushes(12 + 11 + 1, FieldText(f.tag, value),
                    <<Placed(f.tag, value, Len(buffer))>>, Plain(f.tag, value))
<1>1. PICK tag \in Nat, n \in Int : tag = f.tag /\ n = f.value
                                    /\ Len(Numeral[tag]) <= 10 /\ Len(Numeral[Size(n)]) <= 10
  BY PushesAssumption DEF Prints
<1>2. PICK value \in Seq(Byte) : value = Itoa(n) /\ Len(value) <= 11
  <2>1. Itoa(n) \in Seq(Byte) /\ Len(Itoa(n)) \in 1 .. 10 + 1
    BY <1>1, ItoaType
  <2>2. \A l \in 1 .. 10 + 1 : l <= 11
    OBVIOUS
  <2>3. Len(Itoa(n)) <= 11
    BY <2>1, <2>2, Zenon
  <2> QED
    BY <2>1, <2>3, Zenon
<1>3. Len(Numeral[tag]) \in Nat /\ Len(Numeral[tag]) + 1 + Len(value) + 1 <= 12 + 11 + 1
  <2>1. PICK k \in Nat : k = Len(Numeral[tag]) /\ k <= 10
    BY <1>1, NumeralBytes
  <2>2. PICK l \in Nat : l = Len(value) /\ l <= 11
    <3>1. Len(value) \in Nat
      OBVIOUS
    <3> QED
      BY <1>2, <3>1, Zenon
  <2>3. k + 1 + l + 1 <= 12 + 11 + 1
    BY <2>1, <2>2
  <2> QED
    BY <2>1, <2>2, <2>3, Zenon
<1>4. Pushes(12 + 11 + 1, FieldText(tag, value), <<Placed(tag, value, Len(buffer))>>, Plain(tag, value))
  BY <1>3, TextPushes
<1> QED
  BY <1>1, <1>2, <1>4

LEMMA DataPushes ==
  ASSUME Len(buffer) \in Nat, NEW d \in Data
  PROVE  LET length == FieldText(d.lengthTag, Itoa(Len(d.value)))
         IN  Pushes(12 + 11 + 1 + 12 + Len(d.value) + 1, length \o FieldText(d.tag, d.value),
                    <<Placed(d.tag, d.value, Len(buffer) + Len(length))>>, Announced(d))
<1>1. PICK lengthTag \in Nat, tag \in Nat, value \in Seq(Byte) :
        /\ lengthTag = d.lengthTag /\ tag = d.tag /\ value = d.value
        /\ Len(Numeral[lengthTag]) <= 10 /\ Len(Numeral[tag]) <= 10
        /\ Len(Numeral[Len(value)]) <= 10
  BY PushesAssumption DEF Prints
<1> DEFINE head == LengthText(lengthTag, value)
           text == FieldText(tag, value)
           bytes == head \o text
           need == 12 + 11 + 1 + 12 + Len(value) + 1
<1>2. Itoa(Len(value)) = Numeral[Len(value)]
  BY ItoaOfCount
<1>3. head = FieldText(d.lengthTag, Itoa(Len(d.value)))
  BY <1>1, <1>2 DEF LengthText
<1>4. /\ head \in Seq(Byte) /\ text \in Seq(Byte) /\ Len(value) \in Nat
      /\ Len(head) = Len(Numeral[lengthTag]) + 1 + Len(Numeral[Len(value)]) + 1
      /\ Len(text) = Len(Numeral[tag]) + 1 + Len(value) + 1
  BY LengthTextType, FieldTextType
<1>5. /\ Len(Numeral[lengthTag]) \in Nat /\ Len(Numeral[Len(value)]) \in Nat
      /\ Len(Numeral[tag]) \in Nat
  BY <1>4, NumeralBytes
<1>6. text[Len(text)] = SOH
  BY LastOfText
<1>7. PICK at \in Nat : at = Len(buffer) + Len(head)
  <2>1. Len(head) \in Nat
    <3>1. head \in Seq(Byte)
      BY <1>4, Zenon
    <3> HIDE DEF head
    <3> QED
      BY <3>1
  <2> HIDE DEF head
  <2> QED
    BY <2>1
<1> DEFINE parts == <<Placed(tag, value, Len(buffer) + Len(head))>>
           regular == Announced(d)
           section == FieldSection(bytes, parts, regular)
<1>8. parts \in Seq(PartType)
  <2>1. Placed(tag, value, at) \in PartType
    BY PlacedType DEF PartType
  <2> QED
    BY <1>7, <2>1
<1>9. regular \in BOOLEAN
  BY DEF Announced
<1>10. Len(head) \in Nat /\ Len(text) \in Nat /\ Len(text) >= 1 /\ need \in Nat
       /\ Len(head) + Len(text) <= need /\ Len(value) <= Len(text)
  <2> DEFINE K == Len(Numeral[lengthTag])
             D == Len(Numeral[Len(value)])
             L == Len(Numeral[tag])
  <2>1. /\ Len(head) = K + 1 + D + 1 /\ Len(text) = L + 1 + Len(value) + 1
        /\ K \in Nat /\ D \in Nat /\ L \in Nat /\ K <= 10 /\ D <= 10 /\ L <= 10
        /\ Len(value) \in Nat
    BY <1>1, <1>4, <1>5
  <2> HIDE DEF K, D, L, head, text
  <2> QED
    BY <2>1
<1>11. /\ bytes \in Seq(Byte) /\ Len(bytes) = Len(head) + Len(text) /\ Len(bytes) \in 1 .. need
       /\ bytes[Len(bytes)] = SOH
  <2>1. head \in Seq(Byte) /\ text \in Seq(Byte)
    BY <1>4
  <2> HIDE DEF head, text, need
  <2>2. bytes \in Seq(Byte) /\ Len(bytes) = Len(head) + Len(text)
    BY <2>1
  <2>3. Len(text) \in 1 .. Len(text) /\ Len(head) + Len(text) \in 1 .. need
    BY <1>10
  <2>4. bytes[Len(head) + Len(text)] = text[Len(text)]
    BY <1>10, <2>1
  <2> QED
    BY <1>6, <2>2, <2>3, <2>4
<1>12. ASSUME regular, NEW s, Spells(s, Len(buffer), bytes), Len(bytes) < SizeModulus
       PROVE  Holds(s, section)
  <2>1. section.at = Len(buffer) /\ section.size = Len(bytes) /\ section.fields = parts
    BY DEF FieldSection
  <2>2. Spells(s, Len(buffer), head) /\ Spells(s, Len(buffer) + Len(head), text)
    <3>1. PICK p \in Nat : p = Len(buffer)
      OBVIOUS
    <3> HIDE DEF head, text
    <3> QED
      BY <1>4, <1>12, <3>1, SpellsParts
  <2>3. lengthTag \in LengthTags /\ tag < TagModulus
    BY <1>1, <1>12, TagAssumption DEF Announced
  <2>4. Len(value) < SizeModulus
    <3>1. SizeModulus \in Nat
      BY ModulusAssumption, SMT
    <3>2. Len(value) \in Nat /\ Len(value) <= Len(text) /\ Len(head) \in Nat /\ Len(text) \in Nat
          /\ Len(bytes) = Len(head) + Len(text) /\ Len(bytes) < SizeModulus
      BY <1>4, <1>10, <1>11, <1>12
    <3> HIDE DEF head, text, bytes
    <3> QED
      BY <3>1, <3>2
  <2> HIDE DEF section, bytes
  <2>5. IsDataText(s, section, lengthTag, tag, value)
    BY <1>11, <2>1, <2>2, <2>3, <2>4 DEF IsDataText
  <2> QED
    BY <2>5 DEF Holds, HoldsData
<1> HIDE DEF bytes, parts, regular, need
<1>13. Pushes(need, bytes, parts, regular)
  BY <1>8, <1>9, <1>10, <1>11, <1>12 DEF Pushes
<1> HIDE DEF head, text
<1> QED
  BY <1>1, <1>3, <1>13 DEF bytes, parts, regular, need, text

----------------------------------------------------------------------------
(* The writer's steps *)

\* The buffer is no longer than its span, and lacks no call unless one failed.
CallsCounted ==
  /\ cap \in Nat /\ cap < SizeModulus /\ buffer \in Seq(Byte) /\ Len(buffer) <= cap
  /\ bodyLength = Null \/ (bodyLength \in Nat /\ bodyLength + 7 <= Len(buffer))
  /\ error \in BOOLEAN /\ calls \in Nat /\ sections \in Seq(SectionType)
  /\ ~error => Len(sections) = calls

\* The sections lie one behind the other, from the first byte to the last.
Tiled ==
  /\ sections = <<>> => buffer = <<>>
  /\ sections # <<>> =>
       sections[1].at = 0 /\ sections[Len(sections)].at + sections[Len(sections)].size = Len(buffer)
  /\ \A i, j \in 1 .. Len(sections) :
       /\ i < j => sections[i].at + sections[i].size <= sections[j].at
       /\ j = i + 1 => sections[j].at = sections[i].at + sections[i].size

\* What a call can do to the bytes: nothing, append a field, a header, a
\* trailer, or leave the digits of BodyLength and fail.
Dropped == error' = TRUE /\ UNCHANGED <<buffer, bodyLength, sections>>
FieldPut ==
  \E need, bytes, parts, regular :
    /\ Pushes(need, bytes, parts, regular) /\ ~error /\ Room(need)
    /\ AppendSection("field", bytes, parts, regular) /\ UNCHANGED <<bodyLength, error>>
Front(v) == <<56, Equals>> \o v \o <<SOH, 57, Equals>>
HeaderPut ==
  \E v \in BeginStrings :
    /\ ~error /\ bodyLength = Null /\ Room(Len(Front(v)) + 7)
    /\ AppendSection("header", Front(v) \o Reserved \o <<SOH>>, <<>>,
                     Len(v) \in 7 .. 10 /\ \A i \in DOMAIN v : v[i] # SOH)
    /\ bodyLength' = Len(buffer) + Len(Front(v)) /\ UNCHANGED error
DigitsPut ==
  /\ bodyLength # Null /\ Countable
  /\ buffer' = Patched /\ error' = TRUE /\ UNCHANGED <<bodyLength, sections>>
TrailerSection(sum) ==
  [kind |-> "trailer", at |-> Len(buffer), size |-> TrailerRoom,
   fields |-> <<Placed(10, sum, Len(buffer))>>, regular |-> Plain(10, sum)]
TrailerPut ==
  /\ ~error /\ bodyLength # Null /\ Countable /\ Room(TrailerRoom)
  /\ buffer' = Patched \o FieldText(10, Padded(Sum, 3))
  /\ sections' = Append(sections, TrailerSection(Padded(Sum, 3)))
  /\ UNCHANGED <<bodyLength, error>>

LEMMA TrailerSteps ==
  ASSUME CallsCounted, PushBackTrailer
  PROVE  /\ Called
         /\ \/ (Dropped \/ DigitsPut) /\ told' = "failed"
            \/ TrailerPut /\ told' = "ok"
<1>1. Called /\ UNCHANGED bodyLength
  BY DEF PushBackTrailer
<1>2. CASE (error \/ bodyLength = Null \/ ~Countable) /\ Refuse /\ told' = "failed"
  BY <1>1, <1>2, Zenon DEF Dropped, Refuse
<1>3. CASE /\ ~error /\ bodyLength # Null /\ Countable /\ ~Room(TrailerRoom)
           /\ buffer' = Patched
           /\ error' = TRUE /\ UNCHANGED sections /\ told' = "failed"
  BY <1>1, <1>3, Zenon DEF DigitsPut
<1>4. CASE /\ ~error /\ bodyLength # Null /\ Countable /\ Room(TrailerRoom)
           /\ LET sum == Padded(Sum, 3)
              IN  /\ buffer' = Patched \o FieldText(10, sum)
                  /\ sections' = Append(sections,
                       [kind |-> "trailer", at |-> Len(buffer), size |-> TrailerRoom,
                        fields |-> <<Placed(10, sum, Len(buffer))>>, regular |-> Plain(10, sum)])
           /\ UNCHANGED error /\ told' = "ok"
  BY <1>1, <1>4, Zenon DEF TrailerPut, TrailerSection
<1> QED
  BY <1>2, <1>3, <1>4, Zenon DEF PushBackTrailer

LEMMA PushSteps ==
  ASSUME CallsCounted, NEW need, NEW bytes, NEW parts, NEW regular,
         Pushes(need, bytes, parts, regular), PushBack(need, bytes, parts, regular)
  PROVE  Called /\ (Dropped \/ FieldPut)
<1>1. CASE ~Usable /\ UNCHANGED <<buffer, error, sections>>
  BY <1>1 DEF Dropped, PushBack, Usable, CallsCounted
<1>2. CASE Usable /\ ~Room(need) /\ Refuse
  BY <1>2 DEF Dropped, PushBack, Refuse
<1>3. CASE Usable /\ Room(need) /\ AppendSection("field", bytes, parts, regular) /\ UNCHANGED error
  BY <1>3, Zenon DEF FieldPut, PushBack, Usable
<1> QED
  BY <1>1, <1>2, <1>3, Zenon DEF PushBack

LEMMA HeaderSteps ==
  ASSUME CallsCounted, NEW v \in BeginStrings, PushBackHeader(v)
  PROVE  Called /\ (Dropped \/ HeaderPut)
<1>1. CASE error /\ UNCHANGED <<buffer, bodyLength, error, sections>>
  BY <1>1 DEF Dropped, PushBackHeader, CallsCounted
<1>2. CASE ~error /\ (bodyLength # Null \/ ~Room(Len(Front(v)) + 7)) /\ Refuse /\ UNCHANGED bodyLength
  BY <1>2, Zenon DEF Dropped, PushBackHeader, Refuse
<1>3. CASE /\ ~error /\ bodyLength = Null /\ Room(Len(Front(v)) + 7)
           /\ AppendSection("header", Front(v) \o Reserved \o <<SOH>>, <<>>,
                     Len(v) \in 7 .. 10 /\ \A i \in DOMAIN v : v[i] # SOH)
           /\ bodyLength' = Len(buffer) + Len(Front(v)) /\ UNCHANGED error
  BY <1>3, Zenon DEF HeaderPut, PushBackHeader
<1> QED
  BY <1>1, <1>2, <1>3, Zenon DEF PushBackHeader, Front

LEMMA BodySteps ==
  ASSUME CallsCounted, Body
  PROVE  /\ Called /\ UNCHANGED <<readerVars, status, endOut>> /\ status = "writing"
         /\ Dropped \/ FieldPut \/ HeaderPut \/ DigitsPut \/ TrailerPut
<1>1. Len(buffer) \in Nat
  BY DEF CallsCounted
<1>2. CASE \E v \in BeginStrings : PushBackHeader(v)
  BY <1>2, HeaderSteps, Zenon DEF Body
<1>3. CASE \E f \in Strings : PushBackString(f)
  BY <1>1, <1>3, StringPushes, PushSteps, Zenon DEF Body, PushBackString
<1>4. CASE \E f \in Ints : PushBackInt(f)
  BY <1>1, <1>4, IntPushes, PushSteps, Zenon DEF Body, PushBackInt
<1>5. CASE \E d \in Data : PushBackData(d)
  BY <1>1, <1>5, DataPushes, PushSteps, Zenon DEF Body, PushBackData
<1>6. CASE PushBackTrailer
  BY <1>6, TrailerSteps, Zenon DEF Body
<1> QED
  BY <1>2, <1>3, <1>4, <1>5, <1>6, Zenon DEF Body

----------------------------------------------------------------------------
(* What they keep *)

LEMMA AppendKeeps ==
  ASSUME CallsCounted, Tiled, NEW section \in SectionType, section.at = Len(buffer),
         NEW longer \in Seq(Byte), Len(longer) = Len(buffer) + section.size,
         buffer' = longer, sections' = Append(sections, section)
  PROVE  Tiled' /\ sections' \in Seq(SectionType) /\ Len(sections') = Len(sections) + 1
<1> DEFINE n == Len(sections)
<1>1. /\ sections \in Seq(SectionType) /\ n \in Nat /\ section.at \in Nat /\ section.size \in Nat
      /\ Len(buffer) \in Nat
      /\ \A i \in 1 .. n : sections[i].at \in Nat /\ sections[i].size \in Nat
  <2>1. sections \in Seq(SectionType) /\ n \in Nat /\ Len(buffer) \in Nat
    BY DEF CallsCounted
  <2>2. \A x \in SectionType : x.at \in Nat /\ x.size \in Nat
    BY DEF SectionType
  <2>3. \A i \in 1 .. n : sections[i] \in SectionType
    BY <2>1
  <2> QED
    BY <2>1, <2>2, <2>3, Zenon
<1>2. /\ sections' \in Seq(SectionType) /\ Len(sections') = n + 1 /\ sections'[n + 1] = section
      /\ \A i \in 1 .. n : sections'[i] = sections[i]
      /\ sections' # <<>>
  BY <1>1, SMTT(30)
<1>3. n = 0 => Len(buffer) = 0
  BY <1>1 DEF Tiled
<1>4. n > 0 => sections # <<>>
  OBVIOUS
<1>5. sections'[1].at = 0
  BY <1>1, <1>2, <1>3, <1>4 DEF Tiled
<1>6. \A i \in 1 .. n : sections[i].at + sections[i].size <= Len(buffer)
  <2> SUFFICES ASSUME NEW i \in 1 .. n PROVE sections[i].at + sections[i].size <= Len(buffer)
    OBVIOUS
  <2>1. n \in 1 .. n /\ i \in Int
    BY <1>1
  <2>2. /\ sections[n].at + sections[n].size = Len(buffer) /\ sections[n].at \in Nat
        /\ sections[n].size \in Nat
    BY <1>1, <1>4, <2>1 DEF Tiled
  <2>3. i < n => sections[i].at + sections[i].size <= sections[n].at
    BY <2>1 DEF Tiled
  <2>4. PICK a \in Nat, b \in Nat : a = sections[i].at /\ b = sections[i].size
    BY <1>1
  <2>5. PICK l \in Nat : l = Len(buffer)
    BY <1>1
  <2>6. sections[n].at <= l
    <3>1. PICK c \in Nat, d \in Nat : c = sections[n].at /\ d = sections[n].size
      BY <2>2
    <3> HIDE DEF n
    <3> QED
      BY <2>2, <2>5, <3>1
  <2> HIDE DEF n
  <2>7. CASE i = n
    BY <2>2, <2>7
  <2>8. CASE i < n
    BY <2>2, <2>3, <2>4, <2>5, <2>6, <2>8, SMTT(30)
  <2> QED
    BY <1>1, <2>1, <2>7, <2>8
<1> HIDE DEF n
<1>7. ASSUME NEW i \in 1 .. n + 1, NEW j \in 1 .. n + 1
      PROVE  /\ i < j => sections'[i].at + sections'[i].size <= sections'[j].at
             /\ j = i + 1 => sections'[j].at = sections'[i].at + sections'[i].size
  <2>1. CASE j \in 1 .. n /\ i \in 1 .. n
    BY <1>2, <2>1 DEF Tiled, n
  <2>2. CASE j = n + 1
    <3>1. i < j => i \in 1 .. n
      BY <1>1, <2>2
    <3>2. i < j => sections'[i].at + sections'[i].size <= sections'[j].at
      BY <1>2, <1>6, <2>2, <3>1
    <3>3. ASSUME j = i + 1 PROVE sections'[j].at = sections'[i].at + sections'[i].size
      <4>1. i = n /\ n \in 1 .. n /\ n > 0
        BY <1>1, <2>2, <3>3
      <4>2. sections[n].at + sections[n].size = Len(buffer)
        BY <1>4, <4>1 DEF Tiled, n
      <4>3. sections'[i] = sections[n] /\ sections'[j] = section
        BY <1>2, <2>2, <4>1
      <4> QED
        BY <4>2, <4>3
    <3> QED
      BY <3>2, <3>3, Zenon
  <2>3. CASE i = n + 1 /\ j \in 1 .. n
    BY <1>1, <2>3
  <2>4. \A k \in 1 .. n + 1 : k \in 1 .. n \/ k = n + 1
    BY <1>1
  <2> QED
    BY <2>1, <2>2, <2>3, <2>4, Zenon
<1>8. sections'[n + 1].at + sections'[n + 1].size = Len(buffer')
  BY <1>2
<1> QED
  BY <1>2, <1>5, <1>7, <1>8 DEF Tiled, n

LEMMA DroppedKeeps ==
  ASSUME CallsCounted, Called, Dropped
  PROVE  CallsCounted' /\ (Tiled => Tiled')
  BY DEF CallsCounted, Called, Dropped, Tiled

LEMMA FieldKeeps ==
  ASSUME CallsCounted, Tiled, Called, FieldPut
  PROVE  CallsCounted' /\ Tiled'
<1>1. PICK need, bytes, parts, regular :
        /\ Pushes(need, bytes, parts, regular) /\ ~error /\ Room(need)
        /\ AppendSection("field", bytes, parts, regular) /\ UNCHANGED <<bodyLength, error>>
  BY DEF FieldPut
<1> DEFINE section == FieldSection(bytes, parts, regular)
<1>2. /\ need \in Nat /\ bytes \in Seq(Byte) /\ Len(bytes) \in Nat /\ Len(bytes) <= need
      /\ parts \in Seq(PartType) /\ regular \in BOOLEAN
      /\ buffer \in Seq(Byte) /\ Len(buffer) \in Nat /\ cap \in Nat /\ cap - Len(buffer) >= need
  BY <1>1 DEF Pushes, CallsCounted, Room
<1>3. /\ section \in SectionType /\ section.at = Len(buffer) /\ section.size = Len(bytes)
  BY <1>2 DEF FieldSection, SectionType
<1>4. buffer' = buffer \o bytes /\ sections' = Append(sections, section)
  BY <1>1 DEF AppendSection, FieldSection
<1>5. PICK longer \in Seq(Byte) : longer = buffer \o bytes /\ Len(longer) = Len(buffer) + Len(bytes)
  BY <1>2, AtOfConcat, Zenon
<1> HIDE DEF section
<1>6. Tiled' /\ sections' \in Seq(SectionType) /\ Len(sections') = Len(sections) + 1
  BY <1>3, <1>4, <1>5, AppendKeeps
<1>7. Len(longer) <= cap /\ Len(longer) \in Nat /\ Len(buffer) <= Len(longer)
  BY <1>2, <1>5
<1>8. /\ buffer' \in Seq(Byte) /\ Len(buffer') <= cap' /\ cap' \in Nat /\ cap' < SizeModulus
      /\ error' = FALSE /\ calls' = calls + 1 /\ calls' \in Nat /\ Len(sections') = calls'
      /\ bodyLength' = bodyLength
  BY <1>1, <1>4, <1>5, <1>6, <1>7 DEF Called, CallsCounted
<1>9. bodyLength = Null \/ (bodyLength \in Nat /\ bodyLength + 7 <= Len(buffer'))
  BY <1>2, <1>4, <1>5, <1>7 DEF CallsCounted
<1> QED
  BY <1>6, <1>8, <1>9 DEF CallsCounted

LEMMA FrontType ==
  ASSUME NEW v \in BeginStrings
  PROVE  /\ v \in Seq(Byte) /\ Len(v) \in Nat
         /\ Front(v) \in Seq(Byte) /\ Len(Front(v)) = Len(v) + 5
         /\ Front(v) \o Reserved \o <<SOH>> \in Seq(Byte)
         /\ Len(Front(v) \o Reserved \o <<SOH>>) = Len(v) + 12
<1>1. v \in Seq(Byte) /\ Len(v) \in Nat
  BY PushesAssumption
<1>2. <<56, Equals>> \in Seq(Byte) /\ <<SOH, 57, Equals>> \in Seq(Byte) /\ <<SOH>> \in Seq(Byte)
  BY DEF Byte, Equals, SOH
<1>3. Reserved \in Seq(Byte) /\ Len(Reserved) = 6
  <2>1. 0 \in Byte
    BY DEF Byte
  <2> QED
    BY <2>1 DEF Reserved
<1>4. Front(v) \in Seq(Byte) /\ Len(Front(v)) = Len(v) + 5
  BY <1>1, <1>2 DEF Front
<1>5. PICK f \in Seq(Byte) : f = Front(v)
  BY <1>4
<1>6. PICK r \in Seq(Byte) : r = Reserved
  BY <1>3
<1>7. f \o r \in Seq(Byte) /\ Len(f \o r) = Len(f) + Len(r)
  BY AtOfConcat, Zenon
<1>8. (f \o r) \o <<SOH>> \in Seq(Byte) /\ Len((f \o r) \o <<SOH>>) = Len(f \o r) + Len(<<SOH>>)
  BY <1>2, <1>7, AtOfConcat, Zenon
<1>9. Len(<<SOH>>) = 1
  OBVIOUS
<1>10. Len((f \o r) \o <<SOH>>) = Len(v) + 12
  BY <1>1, <1>3, <1>4, <1>5, <1>6, <1>7, <1>8, <1>9
<1> QED
  BY <1>1, <1>4, <1>5, <1>6, <1>8, <1>10

LEMMA HeaderKeeps ==
  ASSUME CallsCounted, Tiled, Called, HeaderPut
  PROVE  CallsCounted' /\ Tiled'
<1>1. PICK v \in BeginStrings :
        /\ ~error /\ bodyLength = Null /\ Room(Len(Front(v)) + 7)
        /\ AppendSection("header", Front(v) \o Reserved \o <<SOH>>, <<>>,
                         Len(v) \in 7 .. 10 /\ \A i \in DOMAIN v : v[i] # SOH)
        /\ bodyLength' = Len(buffer) + Len(Front(v)) /\ UNCHANGED error
  BY DEF HeaderPut
<1> DEFINE regular == Len(v) \in 7 .. 10 /\ \A i \in DOMAIN v : v[i] # SOH
<1>2. PICK bytes \in Seq(Byte) : bytes = Front(v) \o Reserved \o <<SOH>> /\ Len(bytes) = Len(v) + 12
  BY FrontType
<1>3. /\ Len(v) \in Nat /\ buffer \in Seq(Byte) /\ Len(buffer) \in Nat /\ cap \in Nat
      /\ cap - Len(buffer) >= Len(v) + 12 /\ bodyLength' = Len(buffer) + (Len(v) + 5)
  <2>1. Len(v) \in Nat /\ Len(Front(v)) = Len(v) + 5
    BY FrontType
  <2>2. cap - Len(buffer) >= (Len(v) + 5) + 7
    BY <1>1, <2>1 DEF Room
  <2> QED
    BY <1>1, <2>1, <2>2 DEF CallsCounted
<1> DEFINE section == [kind |-> "header", at |-> Len(buffer), size |-> Len(bytes),
                       fields |-> <<>>, regular |-> regular]
<1>4. /\ section \in SectionType /\ section.at = Len(buffer) /\ section.size = Len(bytes)
  <2>1. <<>> \in Seq(PartType) /\ Len(bytes) \in Nat /\ regular \in BOOLEAN
    OBVIOUS
  <2> HIDE DEF regular
  <2> QED
    BY <1>3, <2>1 DEF SectionType
<1>5. buffer' = buffer \o bytes /\ sections' = Append(sections, section)
  BY <1>1, <1>2 DEF AppendSection
<1> HIDE DEF regular
<1>6. PICK longer \in Seq(Byte) : longer = buffer \o bytes /\ Len(longer) = Len(buffer) + Len(bytes)
  BY <1>3, AtOfConcat, Zenon
<1> HIDE DEF section
<1>7. Tiled' /\ sections' \in Seq(SectionType) /\ Len(sections') = Len(sections) + 1
  BY <1>4, <1>5, <1>6, AppendKeeps
<1>8. /\ Len(longer) <= cap /\ bodyLength' \in Nat /\ bodyLength' + 7 <= Len(longer)
  BY <1>2, <1>3, <1>6
<1>9. /\ buffer' = longer /\ bodyLength' \in Nat /\ bodyLength' + 7 <= Len(buffer')
      /\ Len(buffer') <= cap
  BY <1>5, <1>6, <1>8
<1>10. /\ buffer' \in Seq(Byte) /\ Len(buffer') <= cap' /\ cap' \in Nat /\ cap' < SizeModulus
      /\ error' = FALSE /\ calls' = calls + 1 /\ calls' \in Nat /\ Len(sections') = calls'
  BY <1>1, <1>7, <1>9 DEF Called, CallsCounted
<1> QED
  BY <1>7, <1>9, <1>10 DEF CallsCounted

LEMMA NumeralOfTen == Numeral[10] = <<49, 48>>
<1>1. 10 \div 10 = 1 /\ 10 % 10 = 0 /\ 1 % 10 = 1
  BY SMT
<1>2. Numeral[1] = <<49>>
  <2>1. Numeral[1] = NumeralOf(Numeral, 1)
    BY NumeralSteps
  <2> QED
    BY <1>1, <2>1 DEF NumeralOf, Zero
<1>3. Numeral[10] = NumeralOf(Numeral, 10)
  BY NumeralSteps
<1>4. NumeralOf(Numeral, 10) = <<49>> \o <<48>>
  <2>1. 10 >= 10 /\ 48 + 0 = 48
    BY SMT
  <2> QED
    BY <1>1, <1>2, <2>1, Zenon DEF NumeralOf, Zero
<1> QED
  BY <1>3, <1>4

LEMMA BodySizeType ==
  ASSUME CallsCounted, bodyLength # Null
  PROVE  /\ bodyLength \in Nat /\ BodySize \in Nat /\ Len(buffer) \in Nat
         /\ bodyLength + 7 + BodySize = Len(buffer)
<1>1. /\ buffer \in Seq(Byte) /\ bodyLength \in Nat /\ bodyLength + 7 <= Len(buffer)
      /\ Len(buffer) \in Nat
  BY DEF CallsCounted
<1> QED
  BY <1>1 DEF BodySize

\* The digits of BodyLength take the place of six bytes and of no other.
LEMMA PatchedType ==
  ASSUME CallsCounted, bodyLength # Null
  PROVE  /\ Patched \in Seq(Byte) /\ Len(Patched) = Len(buffer)
         /\ Agree(Patched, buffer, 0, bodyLength)
         /\ Agree(Patched, buffer, bodyLength + 6, Len(buffer))
         /\ Spells(Patched, bodyLength, Padded(BodySize, 6))
<1>1. PICK n \in Nat : n = Len(buffer)
  BY BodySizeType
<1>2. PICK b \in Nat : b = bodyLength /\ b + 7 <= n
  BY <1>1, BodySizeType
<1>3. PICK digits \in Seq(Digits) : digits = Padded(BodySize, 6) /\ Len(digits) = 6
  BY BodySizeType, SixDigitsType
<1>4. Patched = [i \in 1 .. n |-> IF i - b \in 1 .. 6 THEN digits[i - b] ELSE buffer[i]]
  <2>1. DOMAIN buffer = 1 .. n
    BY <1>1 DEF CallsCounted
  <2> QED
    BY <1>2, <1>3, <2>1, Zenon DEF Patched
<1>5. \A i \in 1 .. n : buffer[i] \in Byte
  BY <1>1 DEF CallsCounted
<1>6. \A i \in 1 .. 6 : digits[i] \in Byte
  <2>1. digits \in Seq(Byte)
    BY <1>3, DigitBytes
  <2> QED
    BY <1>3, <2>1
<1>7. \A i \in 1 .. n : Patched[i] = IF i - b \in 1 .. 6 THEN digits[i - b] ELSE buffer[i]
  BY <1>4
<1>8. Patched \in Seq(Byte) /\ Len(Patched) = n
  <2> DEFINE g(i) == IF i - b \in 1 .. 6 THEN digits[i - b] ELSE buffer[i]
  <2>1. \A i \in 1 .. n : g(i) \in Byte
    BY <1>5, <1>6
  <2>2. Patched = [i \in 1 .. n |-> g(i)]
    BY <1>4
  <2> HIDE DEF g
  <2> QED
    BY <2>1, <2>2
<1>9. ASSUME NEW k \in 0 .. n - 1, k < b \/ k >= b + 6 PROVE At(Patched, k) = At(buffer, k)
  <2>1. k + 1 \in 1 .. n /\ ~(k + 1 - b \in 1 .. 6)
    BY <1>9
  <2>2. Patched[k + 1] = buffer[k + 1]
    BY <1>7, <2>1
  <2> QED
    BY <1>1, <1>8, <2>1, <2>2 DEF At
<1>10. ASSUME NEW k \in 1 .. 6 PROVE At(Patched, b + k - 1) = digits[k]
  <2>1. PICK i \in 1 .. n : i = b + k
    BY <1>2
  <2>2. i - b = k /\ i - b \in 1 .. 6 /\ (b + k - 1) + 1 = i
    BY <2>1
  <2>3. Patched[i] = digits[k]
    BY <1>7, <2>2
  <2> QED
    BY <1>8, <2>2, <2>3 DEF At
<1>11. \A k \in 0 .. b - 1 : k \in 0 .. n - 1 /\ k < b
  BY <1>2
<1>12. \A k \in b + 6 .. n - 1 : k \in 0 .. n - 1 /\ k >= b + 6
  BY <1>2
<1>13. Agree(Patched, buffer, 0, b) /\ Agree(Patched, buffer, b + 6, n)
  BY <1>9, <1>11, <1>12, Zenon DEF Agree
<1>14. Spells(Patched, b, digits)
  BY <1>3, <1>10 DEF Spells
<1> QED
  BY <1>1, <1>2, <1>3, <1>8, <1>13, <1>14

LEMMA DigitsKeep ==
  ASSUME CallsCounted, Called, DigitsPut
  PROVE  CallsCounted' /\ (Tiled => Tiled')
<1>1. bodyLength # Null /\ buffer' = Patched /\ error' = TRUE /\ UNCHANGED <<bodyLength, sections>>
  BY DEF DigitsPut
<1>2. Patched \in Seq(Byte) /\ Len(Patched) = Len(buffer)
  BY <1>1, PatchedType
<1>3. CallsCounted'
  BY <1>1, <1>2 DEF CallsCounted, Called
<1>4. buffer = <<>> => Patched = <<>>
  BY <1>2 DEF CallsCounted
<1>5. Tiled => Tiled'
  BY <1>1, <1>2, <1>4 DEF Tiled
<1> QED
  BY <1>3, <1>5

\* What the trailer appends: seven bytes, the last of them an SOH.
LEMMA TrailerTextType ==
  ASSUME CallsCounted, bodyLength # Null
  PROVE  /\ Sum \in Nat /\ Sum <= 255 /\ Sum = ChecksumBytes(Patched, Len(Patched))
         /\ Padded(Sum, 3) \in Seq(Byte) /\ Padded(Sum, 3) \in Seq(Digits)
         /\ Len(Padded(Sum, 3)) = 3
         /\ FieldText(10, Padded(Sum, 3)) \in Seq(Byte) /\ Len(FieldText(10, Padded(Sum, 3))) = 7
<1>1. Patched \in Seq(Byte) /\ Len(Patched) = Len(buffer) /\ Len(buffer) \in Nat
  BY PatchedType, BodySizeType
<1>2. \A i \in 1 .. Len(buffer) : Patched[i] \in Byte
  BY <1>1
<1>3. Sum \in Nat /\ Sum <= 255
  BY <1>1, <1>2, ChecksumType DEF Sum
<1>4. /\ Padded(Sum, 3) \in Seq(Digits) /\ Len(Padded(Sum, 3)) = 3 /\ Padded(Sum, 3) \in Seq(Byte)
  BY <1>3, ThreeDigitsType, DigitBytes
<1>5. /\ FieldText(10, Padded(Sum, 3)) \in Seq(Byte)
      /\ Len(FieldText(10, Padded(Sum, 3))) = Len(Numeral[10]) + 1 + Len(Padded(Sum, 3)) + 1
  BY <1>4, FieldTextType
<1>6. Len(Numeral[10]) = 2
  BY NumeralOfTen
<1>7. Len(FieldText(10, Padded(Sum, 3))) = 7
  <2>1. 2 + 1 + 3 + 1 = 7
    BY SMT
  <2> QED
    BY <1>4, <1>5, <1>6, <2>1, Zenon
<1> QED
  BY <1>1, <1>3, <1>4, <1>5, <1>7 DEF Sum

LEMMA TrailerSectionType ==
  ASSUME CallsCounted, bodyLength # Null
  PROVE  LET section == TrailerSection(Padded(Sum, 3))
         IN  section \in SectionType /\ section.at = Len(buffer) /\ section.size = 7
<1>1. PICK value \in Seq(Byte) : value = Padded(Sum, 3)
  BY TrailerTextType
<1>2. PICK at \in Nat : at = Len(buffer)
  BY BodySizeType
<1>3. Placed(10, value, at) \in PartType
  BY PlacedType DEF PartType
<1>4. Plain(10, value) \in BOOLEAN
  BY DEF Plain
<1>5. TrailerSection(value) = [kind |-> "trailer", at |-> at, size |-> 7,
                               fields |-> <<Placed(10, value, at)>>, regular |-> Plain(10, value)]
  BY <1>2 DEF TrailerSection, TrailerRoom
<1>6. <<Placed(10, value, at)>> \in Seq(PartType)
  BY <1>3
<1> DEFINE fields == <<Placed(10, value, at)>>
           regular == Plain(10, value)
<1> HIDE DEF fields, regular
<1>7. [kind |-> "trailer", at |-> at, size |-> 7, fields |-> fields, regular |-> regular] \in SectionType
  BY <1>4, <1>6 DEF fields, regular, SectionType
<1> QED
  BY <1>1, <1>2, <1>5, <1>7 DEF fields, regular

LEMMA TrailerKeeps ==
  ASSUME CallsCounted, Tiled, Called, TrailerPut
  PROVE  CallsCounted' /\ Tiled'
<1>1. /\ ~error /\ bodyLength # Null /\ Room(7)
      /\ buffer' = Patched \o FieldText(10, Padded(Sum, 3))
      /\ sections' = Append(sections, TrailerSection(Padded(Sum, 3)))
      /\ UNCHANGED <<bodyLength, error>>
  BY DEF TrailerPut, TrailerRoom
<1>2. PICK section \in SectionType :
        section = TrailerSection(Padded(Sum, 3)) /\ section.at = Len(buffer) /\ section.size = 7
  BY <1>1, TrailerSectionType
<1>3. PICK longer \in Seq(Byte) : longer = Patched \o FieldText(10, Padded(Sum, 3)) /\ Len(longer) = Len(buffer) + 7
  <2>1. PICK s \in Seq(Byte) : s = Patched /\ Len(s) = Len(buffer)
    BY <1>1, PatchedType
  <2>2. PICK t \in Seq(Byte) : t = FieldText(10, Padded(Sum, 3)) /\ Len(t) = 7
    BY <1>1, TrailerTextType
  <2>3. s \o t \in Seq(Byte) /\ Len(s \o t) = Len(s) + Len(t)
    BY AtOfConcat, Zenon
  <2> QED
    BY <2>1, <2>2, <2>3, Zenon
<1>4. Tiled' /\ sections' \in Seq(SectionType) /\ Len(sections') = Len(sections) + 1
  BY <1>1, <1>2, <1>3, AppendKeeps
<1>5. /\ Len(longer) <= cap /\ bodyLength \in Nat /\ bodyLength + 7 <= Len(longer)
  <2>1. cap \in Nat /\ cap - Len(buffer) >= 7
    BY <1>1 DEF Room, CallsCounted
  <2> QED
    BY <1>1, <1>3, <2>1, BodySizeType
<1>6. buffer' = longer /\ bodyLength' = bodyLength /\ cap' = cap
  BY <1>1, <1>3 DEF Called
<1>7. /\ cap \in Nat /\ cap < SizeModulus
      /\ error' = FALSE /\ calls' = calls + 1 /\ calls' \in Nat /\ Len(sections') = calls'
  BY <1>1, <1>4 DEF Called, CallsCounted
<1> QED
  BY <1>4, <1>5, <1>6, <1>7 DEF CallsCounted

----------------------------------------------------------------------------
(* end_out *)

\* end_out is set when the trailer is there, and the writer is not used again.
Finished ==
  /\ status \in {"writing", "refused"} => endOut = Null
  /\ status \in {"written", "unreadable"} => endOut # Null
  /\ endOut # Null => endOut = Len(buffer) /\ ~error

Accounted == CallsCounted /\ Tiled /\ Finished

LEMMA AccountedInit == WRInit => Accounted
<1> SUFFICES ASSUME WRInit PROVE Accounted
  OBVIOUS
<1>1. /\ cap \in Capacities /\ buffer = <<>> /\ bodyLength = Null /\ error = FALSE
      /\ endOut = Null /\ sections = <<>> /\ calls = 0 /\ status \in {"writing", "reading"}
  BY DEF WRInit, WriteInit
<1>2. cap \in Nat /\ cap < SizeModulus
  <2>1. SizeModulus \in Nat /\ Capacities \subseteq 0 .. SizeModulus - 1
    BY ModulusAssumption, CapacitiesAssumption, SMT
  <2> QED
    BY <1>1, <2>1
<1>3. Len(buffer) = 0 /\ buffer \in Seq(Byte) /\ Len(sections) = 0 /\ sections \in Seq(SectionType)
  BY <1>1
<1>4. CallsCounted
  <2>1. Len(buffer) <= cap
    BY <1>2, <1>3
  <2>2. calls \in Nat /\ Len(sections) = calls /\ error \in BOOLEAN
    BY <1>1, <1>3
  <2> QED
    BY <1>1, <1>2, <1>3, <2>1, <2>2, Zenon DEF CallsCounted
<1>5. Tiled
  BY <1>1, <1>3 DEF Tiled
<1> QED
  BY <1>1, <1>4, <1>5 DEF Accounted, Finished

LEMMA AccountedKept == Accounted /\ [WRNext]_allVars => Accounted'
<1> SUFFICES ASSUME Accounted, [WRNext]_allVars PROVE Accounted'
  OBVIOUS
<1> USE DEF Accounted
<1>1. CASE Body
  <2>1. /\ Called /\ status = "writing" /\ UNCHANGED <<status, endOut>>
        /\ Dropped \/ FieldPut \/ HeaderPut \/ DigitsPut \/ TrailerPut
    BY <1>1, BodySteps
  <2>2. CallsCounted' /\ Tiled'
    BY <2>1, DroppedKeeps, FieldKeeps, HeaderKeeps, DigitsKeep, TrailerKeeps
  <2>3. Finished'
    BY <2>1 DEF Finished
  <2> QED
    BY <2>2, <2>3
<1>2. CASE TryWriteMessage
  <2>1. /\ Called /\ status = "writing"
        /\ status' = IF told' = "ok" THEN "written" ELSE "refused"
        /\ endOut' = IF told' = "ok" THEN Len(buffer') ELSE endOut
        /\ \/ (Dropped \/ DigitsPut) /\ told' = "failed"
           \/ TrailerPut /\ told' = "ok"
    BY <1>2, TrailerSteps DEF TryWriteMessage, End
  <2>2. CallsCounted' /\ Tiled'
    BY <2>1, DroppedKeeps, DigitsKeep, TrailerKeeps
  <2>3. CASE TrailerPut /\ told' = "ok"
    <3>1. Len(buffer') # Null /\ ~error'
      <4>1. buffer' \in Seq(Byte)
        BY <2>2 DEF CallsCounted
      <4>2. Len(buffer') \in Nat
        BY <4>1
      <4> QED
        BY <2>3, <4>2 DEF TrailerPut, Null
    <3> QED
      BY <2>1, <2>2, <2>3, <3>1 DEF Finished
  <2>4. CASE told' = "failed"
    BY <2>1, <2>2, <2>4 DEF Finished
  <2> QED
    BY <2>1, <2>3, <2>4
<1>3. CASE OpenReader
  BY <1>3 DEF OpenReader, writerVars, CallsCounted, Tiled, Finished
<1>4. CASE Increment
  BY <1>4 DEF Increment, writerVars, CallsCounted, Tiled, Finished
<1>5. CASE UNCHANGED allVars
  BY <1>5 DEF allVars, writerVars, CallsCounted, Tiled, Finished
<1> QED
  BY <1>1, <1>2, <1>3, <1>4, <1>5 DEF WRNext

\* Of try_write_message, whatever the body calls: the sections lie one behind
\* the other from the first byte to next_, one for every call as long as error_
\* is not set, and end_out is set only behind a trailer.
THEOREM WriterAccounted == WRSpec => []Accounted
<1>1. Accounted /\ [WRNext]_allVars => Accounted'
  BY AccountedKept
<1> QED
  BY AccountedInit, <1>1, PTL DEF WRSpec

\* end_out is left alone by a failed write, and after a successful one is the
\* end of a buffer that lacks none of the body's calls.
THEOREM WriterEndOut == WRSpec => []EndOut
<1>1. Accounted => EndOut
  <2> SUFFICES ASSUME Accounted PROVE EndOut
    OBVIOUS
  <2>1. endOut # Null => endOut = Len(buffer) /\ Len(sections) = calls /\ endOut <= cap
    BY DEF Accounted, Finished, CallsCounted
  <2> QED
    BY <2>1 DEF Accounted, Finished, EndOut, IsWritten
<1> QED
  BY WriterAccounted, <1>1, PTL

----------------------------------------------------------------------------
(* What a message with a header at its front holds *)

\* BeginString ends where a reader looks for its end, and BodyLength follows.
HeadAt(s, h) ==
  /\ h \in 19 .. 22
  /\ \A k \in 9 .. h - 11 : At(s, k) # SOH
  /\ At(s, h - 10) = SOH /\ At(s, h - 9) = 57 /\ At(s, h - 1) = SOH

HeadWritten ==
  Headed => /\ HeadAt(buffer, sections[1].size) /\ bodyLength = sections[1].size - 7
            /\ At(buffer, Len(buffer) - 1) = SOH /\ sections[1].fields = <<>>
FieldsHeld ==
  Headed => \A i \in 2 .. Len(sections) : sections[i].regular => Holds(buffer, sections[i])
Contents == HeadWritten /\ FieldsHeld

LEMMA SectionsAre ==
  ASSUME CallsCounted
  PROVE  /\ Len(sections) \in Nat /\ Len(buffer) \in Nat
         /\ \A i \in 1 .. Len(sections) :
              sections[i] \in SectionType /\ sections[i].at \in Nat /\ sections[i].size \in Nat
<1>1. sections \in Seq(SectionType) /\ Len(sections) \in Nat /\ Len(buffer) \in Nat
  BY DEF CallsCounted
<1>2. \A x \in SectionType : x.at \in Nat /\ x.size \in Nat
  BY DEF SectionType
<1>3. \A i \in 1 .. Len(sections) : sections[i] \in SectionType
  BY <1>1
<1> QED
  BY <1>1, <1>2, <1>3, Zenon

\* Every section ends in the buffer, and all but the first lie behind the first.
LEMMA SectionsLie ==
  ASSUME CallsCounted, Tiled, NEW i \in 1 .. Len(sections)
  PROVE  /\ sections[i].at + sections[i].size <= Len(buffer)
         /\ i # 1 => sections[1].size <= sections[i].at
<1>1. PICK n \in Nat : n = Len(sections)
  BY SectionsAre
<1>2. PICK a \in Nat, b \in Nat, c \in Nat, d \in Nat, e \in Nat, l \in Nat :
        /\ a = sections[i].at /\ b = sections[i].size
        /\ c = sections[n].at /\ d = sections[n].size /\ e = sections[1].size
        /\ l = Len(buffer)
  <2>1. 1 \in 1 .. n /\ n \in 1 .. n
    BY <1>1
  <2> QED
    BY <1>1, <2>1, SectionsAre
<1>3. sections # <<>>
  BY <1>1
<1>4. c + d = l /\ sections[1].at = 0
  BY <1>1, <1>2, <1>3 DEF Tiled
<1>5. i < n => a + b <= c
  BY <1>1, <1>2 DEF Tiled
<1>6. i # 1 => 0 + e <= a
  <2>1. 1 \in 1 .. n /\ (i # 1 => 1 < i)
    BY <1>1
  <2> QED
    BY <1>1, <1>2, <1>4, <2>1 DEF Tiled
<1>7. i < n \/ i = n
  BY <1>1
<1>8. a + b <= l
  <2>1. i = n => a = c /\ b = d
    BY <1>2
  <2>2. c <= l
    BY <1>4
  <2>3. CASE i = n
    BY <1>4, <2>1, <2>3
  <2>4. CASE i < n
    BY <1>5, <2>2, <2>4
  <2> QED
    BY <1>7, <2>3, <2>4
<1> QED
  BY <1>2, <1>6, <1>8

LEMMA HeadAgree ==
  ASSUME NEW s, NEW t, NEW h \in Nat, HeadAt(t, h), NEW end \in Nat, h <= end,
         Agree(s, t, 0, h - 7), Agree(s, t, h - 1, end)
  PROVE  HeadAt(s, h)
<1>1. h \in 19 .. 22
  BY DEF HeadAt
<1>2. /\ h - 10 \in 0 .. (h - 7) - 1 /\ h - 9 \in 0 .. (h - 7) - 1 /\ h - 1 \in h - 1 .. end - 1
      /\ \A k \in 9 .. h - 11 : k \in 0 .. (h - 7) - 1
  BY <1>1
<1>3. /\ At(s, h - 10) = At(t, h - 10) /\ At(s, h - 9) = At(t, h - 9) /\ At(s, h - 1) = At(t, h - 1)
      /\ \A k \in 9 .. h - 11 : At(s, k) = At(t, k)
  BY <1>2 DEF Agree
<1> QED
  BY <1>3 DEF HeadAt

\* The digits of BodyLength and what is appended leave all the rest as it was.
LEMMA ContentsAgree ==
  ASSUME CallsCounted, Tiled, Contents, Headed, NEW s,
         Agree(s, buffer, 0, bodyLength), Agree(s, buffer, bodyLength + 6, Len(buffer))
  PROVE  /\ HeadAt(s, sections[1].size)
         /\ \A i \in 2 .. Len(sections) : sections[i].regular => Holds(s, sections[i])
         /\ At(s, Len(buffer) - 1) = SOH
<1>1. PICK h \in Nat : h = sections[1].size /\ h \in 19 .. 22
  <2>1. sections[1].size \in 19 .. 22
    BY DEF Contents, HeadWritten, HeadAt
  <2> QED
    BY <2>1
<1>2. /\ HeadAt(buffer, h) /\ bodyLength = h - 7 /\ At(buffer, Len(buffer) - 1) = SOH
      /\ h - 7 \in Nat
  BY <1>1 DEF Contents, HeadWritten
<1>3. PICK n \in Nat : n = Len(buffer) /\ h <= n
  <2>1. bodyLength # Null
    BY <1>2 DEF Null
  <2>2. bodyLength + 7 <= Len(buffer) /\ Len(buffer) \in Nat
    BY <2>1, SectionsAre DEF CallsCounted
  <2> QED
    BY <1>1, <1>2, <2>2
<1>4. (h - 7) + 6 = h - 1 /\ h - 1 \in Nat
  BY <1>1
<1>5. Agree(s, buffer, 0, h - 7) /\ Agree(s, buffer, h - 1, n)
  BY <1>2, <1>3, <1>4
<1>6. HeadAt(s, h)
  BY <1>2, <1>3, <1>5, HeadAgree
<1>7. ASSUME NEW i \in 2 .. Len(sections), sections[i].regular PROVE Holds(s, sections[i])
  <2>1. i \in 1 .. Len(sections) /\ i # 1
    BY SectionsAre
  <2>2. PICK a \in Nat, b \in Nat : a = sections[i].at /\ b = sections[i].size
    BY <2>1, SectionsAre
  <2>3. h <= a /\ a + b <= n
    BY <1>1, <1>3, <2>1, <2>2, SectionsLie
  <2>4. Holds(buffer, sections[i])
    BY <1>7 DEF Contents, FieldsHeld
  <2>5. h - 1 <= a
    BY <1>1, <2>3
  <2> QED
    BY <1>3, <1>4, <1>5, <2>2, <2>3, <2>4, <2>5, HoldsAgree
<1>8. At(s, n - 1) = SOH
  <2>1. n - 1 \in h - 1 .. n - 1
    BY <1>1, <1>3
  <2>2. At(s, n - 1) = At(buffer, n - 1)
    BY <1>5, <2>1 DEF Agree
  <2> QED
    BY <1>2, <1>3, <2>2
<1> QED
  BY <1>1, <1>3, <1>6, <1>7, <1>8

\* A section appended to others leaves the header where it was.
LEMMA HeadedIsKept ==
  ASSUME CallsCounted, NEW section, sections' = Append(sections, section)
  PROVE  /\ sections # <<>> => sections'[1] = sections[1] /\ Headed' = Headed
         /\ sections = <<>> => Headed' = (section.kind = "header" /\ section.regular)
         /\ Len(sections') = Len(sections) + 1 /\ sections'[Len(sections) + 1] = section
         /\ \A i \in 1 .. Len(sections) : sections'[i] = sections[i]
<1>1. sections \in Seq(SectionType) /\ Len(sections) \in Nat
  BY SectionsAre DEF CallsCounted
<1>2. /\ sections' # <<>> /\ Len(sections') = Len(sections) + 1
      /\ sections'[Len(sections) + 1] = section
      /\ \A i \in 1 .. Len(sections) : sections'[i] = sections[i]
  BY <1>1
<1>3. sections # <<>> => 1 \in 1 .. Len(sections)
  BY <1>1
<1>4. sections = <<>> => Len(sections) + 1 = 1
  OBVIOUS
<1> QED
  BY <1>2, <1>3, <1>4, Zenon DEF Headed

LEMMA FieldHeld ==
  ASSUME CallsCounted, Tiled, Contents, FieldPut
  PROVE  Contents'
<1>1. PICK need, bytes, parts, regular :
        /\ Pushes(need, bytes, parts, regular) /\ ~error /\ Room(need)
        /\ AppendSection("field", bytes, parts, regular) /\ UNCHANGED <<bodyLength, error>>
  BY DEF FieldPut
<1> DEFINE section == FieldSection(bytes, parts, regular)
<1>2. buffer' = buffer \o bytes /\ sections' = Append(sections, section)
  BY <1>1 DEF AppendSection, FieldSection
<1>3. section.kind = "field" /\ section.regular = regular
  BY DEF FieldSection
<1> HIDE DEF section
<1>4. SUFFICES ASSUME Headed' PROVE Contents'
  BY DEF Contents, HeadWritten, FieldsHeld
<1>5. Headed /\ sections # <<>> /\ sections'[1] = sections[1]
  BY <1>2, <1>3, <1>4, HeadedIsKept
<1>6. /\ bytes \in Seq(Byte) /\ need \in Nat /\ Len(bytes) \in 1 .. need /\ Len(bytes) \in Nat
      /\ bytes[Len(bytes)] = SOH
  BY <1>1 DEF Pushes
<1>7. PICK s \in Seq(Byte), n \in Nat, l \in Nat :
        /\ s = buffer \o bytes /\ n = Len(buffer) /\ l = Len(bytes) /\ Len(s) = n + l
        /\ Agree(s, buffer, 0, n) /\ Spells(s, n, bytes)
  <2>1. buffer \in Seq(Byte)
    BY DEF CallsCounted
  <2> QED
    BY <1>6, <2>1, AtOfConcat, Zenon
<1>8. PICK b \in Nat : b = bodyLength /\ b + 7 <= n
  <2>1. sections[1].size \in 19 .. 22 /\ bodyLength = sections[1].size - 7
    BY <1>5 DEF Contents, HeadWritten, HeadAt
  <2>2. bodyLength # Null
    BY <2>1 DEF Null
  <2> QED
    BY <1>7, <2>2 DEF CallsCounted
<1>9. Agree(s, buffer, 0, b) /\ Agree(s, buffer, b + 6, n)
  <2>1. (\A k \in 0 .. b - 1 : k \in 0 .. n - 1) /\ (\A k \in b + 6 .. n - 1 : k \in 0 .. n - 1)
    BY <1>8
  <2> QED
    BY <1>7, <2>1 DEF Agree
<1>10. /\ HeadAt(s, sections[1].size)
       /\ \A i \in 2 .. Len(sections) : sections[i].regular => Holds(s, sections[i])
  BY <1>5, <1>7, <1>8, <1>9, ContentsAgree
<1>11. At(s, (n + l) - 1) = SOH
  <2>1. l \in 1 .. Len(bytes) /\ n + l - 1 = (n + l) - 1
    BY <1>6, <1>7
  <2>2. At(s, n + l - 1) = bytes[l]
    BY <1>7, <2>1 DEF Spells
  <2> QED
    BY <1>6, <1>7, <2>1, <2>2
<1>12. regular => Holds(s, section)
  <2>1. Len(bytes) < SizeModulus
    <3>1. SizeModulus \in Nat
      BY ModulusAssumption, SMT
    <3>2. cap \in Nat /\ cap < SizeModulus /\ cap - n >= need
      BY <1>1, <1>7 DEF CallsCounted, Room
    <3> QED
      BY <1>6, <1>7, <3>1, <3>2
  <2>2. Spells(s, Len(buffer), bytes)
    BY <1>7
  <2> QED
    BY <1>1, <2>1, <2>2, Zenon DEF Pushes, section
<1>13. buffer' = s /\ bodyLength' = bodyLength
  BY <1>1, <1>2, <1>7
<1>14. HeadWritten'
  <2>1. bodyLength = sections[1].size - 7 /\ sections[1].fields = <<>>
    BY <1>5 DEF Contents, HeadWritten
  <2> QED
    BY <1>5, <1>7, <1>10, <1>11, <1>13, <2>1 DEF HeadWritten
<1>15. FieldsHeld'
  <2>1. Len(sections) \in Nat /\ Len(sections') = Len(sections) + 1
    BY <1>2, SectionsAre, HeadedIsKept
  <2>2. \A i \in 2 .. Len(sections) + 1 : i = Len(sections) + 1 \/ (i \in 2 .. Len(sections) /\ i \in 1 .. Len(sections))
    BY <2>1
  <2>3. /\ sections'[Len(sections) + 1] = section
        /\ \A i \in 1 .. Len(sections) : sections'[i] = sections[i]
    BY <1>2, HeadedIsKept
  <2> QED
    BY <1>3, <1>10, <1>12, <1>13, <2>1, <2>2, <2>3, Zenon DEF FieldsHeld
<1> QED
  BY <1>14, <1>15 DEF Contents

LEMMA DigitsHeld ==
  ASSUME CallsCounted, Tiled, Contents, DigitsPut
  PROVE  Contents'
<1>1. /\ bodyLength # Null /\ buffer' = Patched /\ UNCHANGED <<bodyLength, sections>>
  BY DEF DigitsPut
<1>2. /\ Len(Patched) = Len(buffer)
      /\ Agree(Patched, buffer, 0, bodyLength)
      /\ Agree(Patched, buffer, bodyLength + 6, Len(buffer))
  BY <1>1, PatchedType
<1>3. Headed' = Headed
  BY <1>1 DEF Headed
<1>4. Headed => /\ HeadAt(Patched, sections[1].size)
                /\ \A i \in 2 .. Len(sections) : sections[i].regular => Holds(Patched, sections[i])
                /\ At(Patched, Len(buffer) - 1) = SOH
  BY <1>2, ContentsAgree
<1>5. Headed => bodyLength = sections[1].size - 7 /\ sections[1].fields = <<>>
  BY DEF Contents, HeadWritten
<1> QED
  BY <1>1, <1>2, <1>3, <1>4, <1>5 DEF Contents, HeadWritten, FieldsHeld

LEMMA FrontHolds ==
  ASSUME NEW v \in BeginStrings, NEW s, Spells(s, 0, Front(v) \o Reserved \o <<SOH>>),
         Len(v) \in 7 .. 10, \A i \in DOMAIN v : v[i] # SOH
  PROVE  HeadAt(s, Len(v) + 12) /\ At(s, Len(v) + 11) = SOH
<1>1. PICK l \in Nat : l = Len(v) /\ l \in 7 .. 10
  BY FrontType
<1>2. v \in Seq(Byte) /\ Front(v) \in Seq(Byte) /\ Len(Front(v)) = l + 5
  BY <1>1, FrontType
<1>3. <<56, Equals>> \in Seq(Byte) /\ <<SOH, 57, Equals>> \in Seq(Byte) /\ <<SOH>> \in Seq(Byte)
  BY DEF Byte, Equals, SOH
<1>4. Reserved \in Seq(Byte) /\ Len(Reserved) = 6
  <2>1. 0 \in Byte
    BY DEF Byte
  <2> QED
    BY <2>1 DEF Reserved
<1>5. PICK f \in Seq(Byte), r \in Seq(Byte) : f = Front(v) /\ r = Reserved
  BY <1>2, <1>4
<1>6. PICK g \in Seq(Byte) : g = f \o r /\ Len(g) = l + 11
  <2>1. f \o r \in Seq(Byte) /\ Len(f \o r) = Len(f) + Len(r)
    BY AtOfConcat, Zenon
  <2>2. Len(f) = l + 5 /\ Len(r) = 6
    BY <1>2, <1>4, <1>5, Zenon
  <2>3. (l + 5) + 6 = l + 11
    OBVIOUS
  <2> QED
    BY <2>1, <2>2, <2>3, Zenon
<1>7. Spells(s, 0, g \o <<SOH>>)
  BY <1>5, <1>6, Zenon
<1>8. Spells(s, 0, g) /\ Spells(s, 0 + Len(g), <<SOH>>)
  BY <1>3, <1>7, SpellsParts
<1>9. At(s, l + 11) = SOH
  <2>1. Spells(s, l + 11, <<SOH>>)
    BY <1>6, <1>8
  <2> QED
    BY <2>1, SpellsOne
<1>10. Spells(s, 0, f)
  BY <1>6, <1>8, SpellsParts
<1>11. PICK a \in Seq(Byte), c \in Seq(Byte) :
         a = <<56, Equals>> /\ Len(a) = 2 /\ c = <<SOH, 57, Equals>> /\ Len(c) = 3
  BY <1>3
<1>12. f = (a \o v) \o c
  BY <1>5, <1>11, Zenon DEF Front
<1>13. PICK d \in Seq(Byte) : d = a \o v /\ Len(d) = 2 + l
  <2>1. a \o v \in Seq(Byte) /\ Len(a \o v) = Len(a) + Len(v)
    BY <1>2, AtOfConcat, Zenon
  <2> QED
    BY <1>1, <1>11, <2>1, Zenon
<1>14. Spells(s, 0, d \o c)
  BY <1>10, <1>12, <1>13, Zenon
<1>15. Spells(s, 0, d) /\ Spells(s, 2 + l, c)
  <2>1. Spells(s, 0, d) /\ Spells(s, 0 + Len(d), c)
    BY <1>14, SpellsParts
  <2> QED
    BY <1>13, <2>1
<1>16. Spells(s, 2, v)
  <2>1. Spells(s, 0 + Len(a), v)
    BY <1>2, <1>13, <1>15, SpellsParts
  <2> QED
    BY <1>11, <2>1
<1>17. At(s, l + 2) = SOH /\ At(s, l + 3) = 57
  <2>1. 1 \in 1 .. Len(c) /\ 2 \in 1 .. Len(c) /\ c[1] = SOH /\ c[2] = 57
        /\ 2 + l + 1 - 1 = l + 2 /\ 2 + l + 2 - 1 = l + 3
    BY <1>11
  <2> QED
    BY <1>15, <2>1 DEF Spells
<1>18. ASSUME NEW k \in 9 .. l + 1 PROVE At(s, k) # SOH
  <2>1. k - 1 \in 1 .. l /\ 2 + (k - 1) - 1 = k
    OBVIOUS
  <2>2. k - 1 \in DOMAIN v
    BY <1>1, <1>2, <2>1
  <2>3. At(s, 2 + (k - 1) - 1) = v[k - 1]
    BY <1>1, <1>16, <2>1 DEF Spells
  <2> QED
    BY <2>1, <2>2, <2>3
<1>19. /\ l + 12 \in 19 .. 22 /\ (l + 12) - 11 = l + 1 /\ (l + 12) - 10 = l + 2
       /\ (l + 12) - 9 = l + 3 /\ (l + 12) - 1 = l + 11
  <2>1. \A k \in 7 .. 10 :
          /\ k + 12 \in 19 .. 22 /\ (k + 12) - 11 = k + 1 /\ (k + 12) - 10 = k + 2
          /\ (k + 12) - 9 = k + 3 /\ (k + 12) - 1 = k + 11
    OBVIOUS
  <2> QED
    BY <1>1, <2>1, Zenon
<1> QED
  BY <1>1, <1>9, <1>17, <1>18, <1>19 DEF HeadAt

LEMMA HeaderHeld ==
  ASSUME CallsCounted, Tiled, Contents, HeaderPut
  PROVE  Contents'
<1>1. PICK v \in BeginStrings :
        /\ ~error /\ bodyLength = Null /\ Room(Len(Front(v)) + 7)
        /\ AppendSection("header", Front(v) \o Reserved \o <<SOH>>, <<>>,
                         Len(v) \in 7 .. 10 /\ \A i \in DOMAIN v : v[i] # SOH)
        /\ bodyLength' = Len(buffer) + Len(Front(v)) /\ UNCHANGED error
  BY DEF HeaderPut
<1>2. PICK bytes \in Seq(Byte), l \in Nat :
        /\ bytes = Front(v) \o Reserved \o <<SOH>> /\ l = Len(v)
        /\ Len(bytes) = l + 12 /\ Len(Front(v)) = l + 5
  BY FrontType
<1> DEFINE regular == Len(v) \in 7 .. 10 /\ \A i \in DOMAIN v : v[i] # SOH
           section == [kind |-> "header", at |-> Len(buffer), size |-> Len(bytes),
                       fields |-> <<>>, regular |-> regular]
<1>3. buffer' = buffer \o bytes /\ sections' = Append(sections, section)
  BY <1>1, <1>2 DEF AppendSection
<1>4. /\ section.kind = "header" /\ section.regular = regular /\ section.size = Len(bytes)
      /\ section.fields = <<>>
  OBVIOUS
<1> HIDE DEF section
<1>5. SUFFICES ASSUME Headed' PROVE Contents'
  BY DEF Contents, HeadWritten, FieldsHeld
<1>6. sections = <<>>
  <2>1. SUFFICES ASSUME sections # <<>> PROVE FALSE
    OBVIOUS
  <2>2. Headed
    BY <1>3, <1>5, <2>1, HeadedIsKept
  <2>3. sections[1].size \in 19 .. 22 /\ bodyLength = sections[1].size - 7
    BY <2>2 DEF Contents, HeadWritten, HeadAt
  <2> QED
    BY <1>1, <2>3 DEF Null
<1>7. buffer = <<>> /\ Len(buffer) = 0
  BY <1>6 DEF Tiled
<1>8. regular
  BY <1>3, <1>4, <1>5, <1>6, HeadedIsKept
<1>9. buffer' \in Seq(Byte) /\ Len(buffer') = l + 12 /\ Spells(buffer', 0, bytes)
  <2>1. buffer \in Seq(Byte)
    BY DEF CallsCounted
  <2>2. /\ buffer \o bytes \in Seq(Byte) /\ Len(buffer \o bytes) = Len(buffer) + Len(bytes)
        /\ Spells(buffer \o bytes, Len(buffer), bytes)
    BY <2>1, AtOfConcat, Zenon
  <2>3. 0 + (l + 12) = l + 12
    OBVIOUS
  <2> QED
    BY <1>2, <1>3, <1>7, <2>2, <2>3, Zenon
<1>10. HeadAt(buffer', l + 12) /\ At(buffer', l + 11) = SOH
  BY <1>2, <1>8, <1>9, FrontHolds
<1>11. Len(sections') = 1 /\ sections'[1] = section
  <2>1. Len(sections) = 0 /\ 0 + 1 = 1
    BY <1>6
  <2> QED
    BY <1>3, <2>1, HeadedIsKept, Zenon
<1>12. bodyLength' = l + 5 /\ l + 5 = (l + 12) - 7 /\ (l + 12) - 1 = l + 11
  BY <1>1, <1>2, <1>7
<1>13. HeadWritten'
  BY <1>2, <1>4, <1>9, <1>10, <1>11, <1>12, Zenon DEF HeadWritten
<1>14. FieldsHeld'
  BY <1>11 DEF FieldsHeld
<1> QED
  BY <1>13, <1>14 DEF Contents

\* The trailer is the last section; its sum and the digits of BodyLength are
\* those of the bytes before it.
HasSixDigits(n) == n \in Nat /\ n <= 999999
SumDigits(s, at) == Padded(ChecksumBytes(s, at), 3)
LengthDigits(at, h) == HasSixDigits(at - h) /\ Spells(buffer, h - 7, Padded(at - h, 6))
ClosedAt(at) ==
  /\ sections # <<>> /\ Len(buffer) = at + 7
  /\ sections[Len(sections)].at = at /\ sections[Len(sections)].size = 7
  /\ sections[Len(sections)].regular => Plain(10, SumDigits(buffer, at))
  /\ Spells(buffer, at, FieldText(10, SumDigits(buffer, at)))
  /\ Headed => LengthDigits(at, sections[1].size) /\ At(buffer, at - 1) = SOH
Closed == IsWritten => \E at \in Nat : ClosedAt(at)

LEMMA SumOfPrefix ==
  ASSUME NEW s \in Seq(Byte), NEW t \in Seq(Byte)
  PROVE  ChecksumBytes(s \o t, Len(s)) = ChecksumBytes(s, Len(s))
<1>1. Len(s) \in Nat /\ \A i \in 1 .. Len(s) : (s \o t)[i] = s[i]
  OBVIOUS
<1> QED
  BY <1>1, ChecksumAgree

LEMMA AgreeThrough ==
  ASSUME NEW s, NEW t, NEW u, NEW n \in Nat, NEW i \in Nat, NEW j \in Nat, j <= n,
         Agree(s, t, 0, n), Agree(t, u, i, j)
  PROVE  Agree(s, u, i, j)
<1>1. \A k \in i .. j - 1 : k \in 0 .. n - 1
  OBVIOUS
<1> QED
  BY <1>1 DEF Agree

LEMMA TrailerHeld ==
  ASSUME CallsCounted, Tiled, Contents, TrailerPut
  PROVE  Contents' /\ \E at \in Nat : ClosedAt(at)'
<1>1. /\ ~error /\ bodyLength # Null /\ Countable
      /\ buffer' = Patched \o FieldText(10, Padded(Sum, 3))
      /\ sections' = Append(sections, TrailerSection(Padded(Sum, 3)))
      /\ UNCHANGED <<bodyLength, error>>
  BY DEF TrailerPut
<1>2. PICK value \in Seq(Byte), text \in Seq(Byte) :
        /\ value = Padded(Sum, 3) /\ text = FieldText(10, value) /\ Len(text) = 7
  BY <1>1, TrailerTextType
<1>3. PICK p \in Seq(Byte), n \in Nat, b \in Nat :
        /\ p = Patched /\ n = Len(buffer) /\ Len(p) = n /\ b = bodyLength /\ b + 7 <= n
        /\ Agree(p, buffer, 0, b) /\ Agree(p, buffer, b + 6, n) /\ Spells(p, b, Padded(BodySize, 6))
        /\ BodySize \in Nat /\ b + 7 + BodySize = n
  <2>1. /\ bodyLength \in Nat /\ BodySize \in Nat /\ Len(buffer) \in Nat
        /\ bodyLength + 7 + BodySize = Len(buffer)
    BY <1>1, BodySizeType
  <2>2. bodyLength + 7 <= Len(buffer)
    BY <1>1 DEF CallsCounted
  <2> QED
    BY <1>1, <2>1, <2>2, PatchedType
<1>4. PICK s \in Seq(Byte) :
        /\ s = p \o text /\ Len(s) = n + 7 /\ Agree(s, p, 0, n) /\ Spells(s, n, text)
  <2>1. /\ p \o text \in Seq(Byte) /\ Len(p \o text) = Len(p) + Len(text)
        /\ Agree(p \o text, p, 0, Len(p)) /\ Spells(p \o text, Len(p), text)
    BY AtOfConcat, Zenon
  <2>2. Len(p) = n /\ Len(text) = 7
    BY <1>2, <1>3, Zenon
  <2> QED
    BY <2>1, <2>2, Zenon
<1>5. buffer' = s
  BY <1>1, <1>2, <1>3, <1>4
<1>6. PICK section : section = TrailerSection(Padded(Sum, 3))
  OBVIOUS
<1>7. /\ section.at = n /\ section.size = 7 /\ section.kind = "trailer"
      /\ section.fields = <<Placed(10, value, n)>> /\ section.regular = Plain(10, value)
  BY <1>2, <1>3, <1>6 DEF TrailerSection, TrailerRoom
<1>8. /\ sections # <<>> => sections'[1] = sections[1] /\ Headed' = Headed
      /\ sections = <<>> => Headed' = (section.kind = "header" /\ section.regular)
      /\ Len(sections') = Len(sections) + 1 /\ sections'[Len(sections) + 1] = section
      /\ \A i \in 1 .. Len(sections) : sections'[i] = sections[i]
  BY <1>1, <1>6, HeadedIsKept
<1>9. Headed' => Headed /\ sections'[1] = sections[1]
  BY <1>7, <1>8
<1>10. /\ Agree(s, buffer, 0, b) /\ Agree(s, buffer, b + 6, n) /\ b <= n /\ b + 6 \in Nat
  <2>1. b <= n /\ n <= n /\ b + 6 \in Nat
    BY <1>3
  <2> QED
    BY <1>3, <1>4, <2>1, AgreeThrough
<1>11. Headed => /\ HeadAt(s, sections[1].size)
                 /\ \A i \in 2 .. Len(sections) : sections[i].regular => Holds(s, sections[i])
                 /\ At(s, n - 1) = SOH
  BY <1>3, <1>10, ContentsAgree
<1>12. At(s, (n + 7) - 1) = SOH
  <2>1. text[7] = SOH
    BY <1>2, LastOfText
  <2>2. 7 \in 1 .. Len(text) /\ n + 7 - 1 = (n + 7) - 1
    <3>1. \A l \in Nat : l = 7 => 7 \in 1 .. l
      OBVIOUS
    <3>2. Len(text) \in Nat /\ Len(text) = 7
      BY <1>2
    <3>3. 7 \in 1 .. Len(text)
      BY <3>1, <3>2, Zenon
    <3> QED
      BY <3>3
  <2> QED
    BY <1>4, <2>1, <2>2 DEF Spells
<1>13. section.regular => Holds(s, section)
  <2>1. section.regular => HoldsText(s, section)
    <3>1. 10 \in Nat
      OBVIOUS
    <3> QED
      BY <1>2, <1>4, <1>7, <3>1, Zenon DEF HoldsText
  <2> QED
    BY <2>1 DEF Holds
<1>14. HeadWritten'
  <2>1. Headed => bodyLength = sections[1].size - 7 /\ sections[1].fields = <<>>
    BY DEF Contents, HeadWritten
  <2> QED
    BY <1>1, <1>4, <1>5, <1>9, <1>11, <1>12, <2>1 DEF HeadWritten
<1>15. FieldsHeld'
  <2>1. Len(sections) \in Nat
    BY SectionsAre
  <2>2. \A i \in 2 .. Len(sections) + 1 : i = Len(sections) + 1 \/ (i \in 2 .. Len(sections) /\ i \in 1 .. Len(sections))
    BY <2>1
  <2> QED
    BY <1>5, <1>8, <1>9, <1>11, <1>13, <2>2, Zenon DEF FieldsHeld
<1>16. value = SumDigits(s, n)
  <2>1. Sum = ChecksumBytes(p, n)
    BY <1>3 DEF Sum
  <2>2. ChecksumBytes(p \o text, Len(p)) = ChecksumBytes(p, Len(p))
    BY SumOfPrefix, Zenon
  <2> QED
    BY <1>2, <1>3, <1>4, <2>1, <2>2, Zenon DEF SumDigits
<1>17. Headed => HasSixDigits(n - sections[1].size) /\ Spells(s, sections[1].size - 7, Padded(n - sections[1].size, 6))
  <2>1. SUFFICES ASSUME Headed
                 PROVE  /\ HasSixDigits(n - sections[1].size)
                        /\ Spells(s, sections[1].size - 7, Padded(n - sections[1].size, 6))
    OBVIOUS
  <2>2. PICK h \in Nat : h = sections[1].size /\ b = h - 7
    <3>1. sections[1].size \in 19 .. 22 /\ bodyLength = sections[1].size - 7
      BY <2>1 DEF Contents, HeadWritten, HeadAt
    <3>2. \A h \in 19 .. 22 : h \in Nat
      OBVIOUS
    <3>3. b = bodyLength
      BY <1>3
    <3> QED
      BY <3>1, <3>2, <3>3, Zenon
  <2>3. n - h = BodySize
    <3>1. PICK x \in Nat : x = BodySize /\ b + 7 + x = n
      BY <1>3
    <3>2. b = h - 7
      BY <2>2
    <3>4. b + 7 + x = n
      BY <3>1
    <3>3. n - h = x
      BY <3>2, <3>4
    <3> QED
      BY <3>1, <3>3
  <2>4. HasSixDigits(BodySize)
    BY <1>1, <1>3 DEF HasSixDigits, Countable
  <2>5. Spells(s, b, Padded(BodySize, 6))
    <3>1. Len(Padded(BodySize, 6)) = 6
      BY <1>3, SixDigitsType
    <3>2. b + 6 <= n /\ 0 <= b /\ 6 \in Nat /\ 0 \in Nat
      <4>1. b + 7 <= n
        BY <1>3
      <4> QED
        BY <4>1
    <3>3. Agree(s, p, 0, n) /\ Spells(p, b, Padded(BodySize, 6))
      BY <1>3, <1>4
    <3>4. b + Len(Padded(BodySize, 6)) <= n /\ Len(Padded(BodySize, 6)) \in Nat
      BY <3>1, <3>2
    <3> QED
      BY <3>2, <3>3, <3>4, SpellsAgree
  <2> QED
    BY <2>2, <2>3, <2>4, <2>5
<1>18. ClosedAt(n)'
  <2>1. sections' # <<>> /\ Len(buffer') = n + 7
    BY <1>1, <1>4, <1>5, HeadedIsKept
  <2>2. /\ sections'[Len(sections')].at = n /\ sections'[Len(sections')].size = 7
        /\ sections'[Len(sections')].regular => Plain(10, SumDigits(s, n))
    BY <1>7, <1>8, <1>16
  <2>3. Spells(s, n, FieldText(10, SumDigits(s, n)))
    BY <1>2, <1>4, <1>16
  <2> QED
    BY <1>5, <1>9, <1>11, <1>17, <2>1, <2>2, <2>3 DEF ClosedAt, LengthDigits
<1>19. Contents'
  BY <1>14, <1>15 DEF Contents
<1> QED
  BY <1>18, <1>19

----------------------------------------------------------------------------
(* What a reader makes of it *)

LEMMA BodyIs ==
  ASSUME NEW s, NEW i, NEW stop \in Nat, NEW b \in Nat, b = stop + 1,
         NEW at \in Nat, b <= at, NEW e \in Nat, e = at + 7,
         Unsigned(s, i, stop, SizeModulus) = at - b, At(s, at - 1) = SOH, At(s, at + 6) = SOH,
         NEW v, v = BodyVerdict(s, i, stop, e)
  PROVE  /\ v \in {Invalid, Frame(b, FindSOH(s, b + 3, at), at)}
         /\ At(s, b) = 51 /\ At(s, b + 1) = 53 /\ FindSOH(s, b + 3, at) < at
              => v = Frame(b, FindSOH(s, b + 3, at), at)
<1> DEFINE length == Unsigned(s, i, stop, SizeModulus)
           checksum == (stop + 1) + length
           Closes[c \in Nat] == IsClosed(s, c) /\ FindSOH(s, (stop + 1) + 3, c) < c
<1>1. v = IF (stop + 1) + 3 >= e THEN Incomplete
          ELSE IF At(s, stop + 1) # 51 \/ At(s, (stop + 1) + 1) # 53 THEN Invalid
          ELSE IF ~HasArrived(length, checksum, stop + 1, e) THEN Incomplete
          ELSE IF Closes[checksum] THEN Frame(stop + 1, FindSOH(s, (stop + 1) + 3, checksum), checksum)
          ELSE Invalid
  BY DEF BodyVerdict
<1>2. length = at - b
  OBVIOUS
<1> HIDE DEF length, Closes
<1>3. checksum = at
  BY <1>2
<1> HIDE DEF checksum
<1>4. ~(b + 3 >= e) /\ at - b \in 0 .. e - b /\ at + 7 <= e
  OBVIOUS
<1>5. HasArrived(at - b, at, b, e)
  BY <1>4 DEF HasArrived
<1>6. Closes[at] = (FindSOH(s, b + 3, at) < at)
  <2>1. IsClosed(s, at)
    BY DEF IsClosed
  <2> QED
    BY <2>1 DEF Closes
<1>7. v = IF At(s, b) # 51 \/ At(s, b + 1) # 53 THEN Invalid
          ELSE IF FindSOH(s, b + 3, at) < at THEN Frame(b, FindSOH(s, b + 3, at), at)
          ELSE Invalid
  BY <1>1, <1>2, <1>3, <1>4, <1>5, <1>6, Zenon
<1> QED
  BY <1>7, Zenon

\* Between the end of BeginString, at h - 10, and the body, at h, BodyLength is read.
LEMMA VerdictIs ==
  ASSUME NEW s, NEW h \in Nat, HeadAt(s, h), NEW at \in Nat, h <= at,
         HasSixDigits(at - h), Spells(s, h - 7, Padded(at - h, 6)),
         At(s, at - 1) = SOH, At(s, at + 6) = SOH,
         NEW v, v = Verdict(s, 0, at + 7)
  PROVE  /\ v \in {Invalid, Frame(h, FindSOH(s, h + 3, at), at)}
         /\ At(s, h) = 51 /\ At(s, h + 1) = 53 /\ FindSOH(s, h + 3, at) < at
              => v = Frame(h, FindSOH(s, h + 3, at), at)
<1> DEFINE e == at + 7
<1>1. PICK g \in Nat : g = h - 10 /\ h = g + 10 /\ g \in 9 .. 12
  <2>1. h \in 19 .. 22
    BY DEF HeadAt
  <2>2. \A k \in 19 .. 22 : k - 10 \in Nat /\ k = (k - 10) + 10 /\ k - 10 \in 9 .. 12
    OBVIOUS
  <2> QED
    BY <2>1, <2>2, Zenon
<1>2. /\ e \in Nat /\ g + 10 <= at /\ g < e /\ g + 1 < e /\ g + 9 < e /\ 0 + 9 <= e
  BY <1>1
<1>3. /\ At(s, g) = SOH /\ At(s, g + 1) = 57 /\ At(s, g + 9) = SOH
      /\ \A k \in 9 .. g - 1 : At(s, k) # SOH
  <2>1. h - 9 = g + 1 /\ h - 1 = g + 9 /\ h - 11 = g - 1
    BY <1>1
  <2> QED
    BY <1>1, <2>1 DEF HeadAt
<1>4. PICK n \in Nat : n = at - h /\ n <= 999999
  BY DEF HasSixDigits
<1>5. PICK digits \in Seq(Digits) : digits = Padded(n, 6) /\ Len(digits) = 6 /\ Spells(s, g + 3, digits)
  <2>1. h - 7 = g + 3
    BY <1>1
  <2> QED
    BY <1>4, <2>1, SixDigitsType
<1>6. ASSUME NEW k \in g + 3 .. g + 8 PROVE At(s, k) \in Digits
  <2>1. k - g - 2 \in 1 .. 6 /\ (g + 3) + (k - g - 2) - 1 = k
    BY <1>1
  <2>2. At(s, (g + 3) + (k - g - 2) - 1) = digits[k - g - 2]
    BY <1>5, <2>1 DEF Spells
  <2>3. digits[k - g - 2] \in Digits
    BY <1>5, <2>1
  <2> QED
    BY <2>1, <2>2, <2>3
<1>7. Unsigned(s, g + 3, g + 9, SizeModulus) = n
  <2>1. SizeModulus \in Nat /\ n < SizeModulus
    BY <1>4, ModulusAssumption
  <2>2. Tenth(Tenth(Tenth(Tenth(Tenth(Tenth(n)))))) = 0
    BY <1>4, SixTenths
  <2>3. PICK p \in Nat : p = g + 3
    BY <1>1
  <2>4. p + 6 = g + 9
    BY <2>3
  <2>5. Unsigned(s, p, p + 6, SizeModulus) = n
    <3>1. Spells(s, p, Padded(n, 6))
      BY <1>5, <2>3
    <3> QED
      BY <2>1, <2>2, <3>1, SixDigitsRead, Zenon
  <2> QED
    BY <2>3, <2>4, <2>5
<1> HIDE DEF e
<1>8. LengthVerdict(s, g, e) = BodyVerdict(s, g + 3, g + 9, e)
  <2> DEFINE S == {j \in g + 3 .. e - 1 : At(s, j) \notin Digits}
             AtStop[x \in Nat] ==
               IF x >= e THEN Incomplete
               ELSE IF At(s, x) # SOH THEN Invalid
               ELSE BodyVerdict(s, g + 3, x, e)
  <2>1. LengthVerdict(s, g, e) =
          IF g + 1 >= e THEN Incomplete
          ELSE IF At(s, g + 1) # 57 THEN Invalid
          ELSE AtStop[FirstIn(S, g + 3, e)]
    BY DEF LengthVerdict
  <2>2. PICK stop \in Nat : stop = g + 9
    BY <1>1
  <2>3. stop \in g + 3 .. e - 1
    BY <1>1, <1>2, <2>2
  <2>4. stop \in S
    <3>1. SOH \notin Digits
      BY DEF SOH, Digits
    <3> QED
      BY <1>3, <2>2, <2>3, <3>1
  <2>5. \A k \in g + 3 .. stop - 1 : k \notin S
    <3>1. stop - 1 = g + 8
      BY <2>2
    <3> QED
      BY <1>6, <3>1
  <2>6. FirstIn(S, g + 3, e) = stop
    <3>1. g + 3 \in Nat
      BY <1>1
    <3> HIDE DEF S
    <3> QED
      BY <1>2, <2>3, <2>4, <2>5, <3>1, FirstInUnique
  <2>7. AtStop[stop] = BodyVerdict(s, g + 3, stop, e)
    <3>1. ~(stop >= e) /\ At(s, stop) = SOH
      BY <1>2, <1>3, <2>2
    <3> QED
      BY <3>1
  <2>8. ~(g + 1 >= e) /\ At(s, g + 1) = 57
    BY <1>2, <1>3
  <2> HIDE DEF S, AtStop
  <2> QED
    BY <2>1, <2>2, <2>6, <2>7, <2>8, Zenon
<1>9. Verdict(s, 0, e) = LengthVerdict(s, g, e)
  <2> DEFINE ends == {j \in 0 + 9 .. 0 + 12 : j < e /\ At(s, j) = SOH}
             From[x \in Nat] == LengthVerdict(s, x, e)
  <2>1. Verdict(s, 0, e) =
          IF ends # {} THEN From[FirstIn(ends, 0 + 9, e)]
          ELSE IF TooLong(0, e) THEN Invalid ELSE Incomplete
    BY DEF Verdict, PrefixEnds
  <2>2. g \in ends /\ g \in 0 + 9 .. e - 1
    BY <1>1, <1>2, <1>3
  <2>3. \A k \in 0 + 9 .. g - 1 : k \notin ends
    BY <1>3
  <2>4. FirstIn(ends, 0 + 9, e) = g
    <3>1. 0 + 9 \in Nat
      OBVIOUS
    <3> HIDE DEF ends
    <3> QED
      BY <1>2, <2>2, <2>3, <3>1, FirstInUnique
  <2>5. From[g] = LengthVerdict(s, g, e)
    OBVIOUS
  <2> HIDE DEF ends, From
  <2> QED
    BY <2>1, <2>2, <2>4, <2>5, Zenon
<1>10. PICK stop \in Nat : stop = g + 9 /\ h = stop + 1
  BY <1>1
<1>11. v = BodyVerdict(s, g + 3, stop, e)
  BY <1>8, <1>9, <1>10 DEF e
<1>12. Unsigned(s, g + 3, stop, SizeModulus) = at - h
  BY <1>4, <1>7, <1>10
<1>13. e = at + 7
  BY DEF e
<1> QED
  BY <1>2, <1>10, <1>11, <1>12, <1>13, BodyIs

\* prefix_end() is found where BeginString ends.
LEMMA PrefixEndIs ==
  ASSUME NEW m, NEW h \in Nat, HeadAt(m.bytes, h), Len(m.bytes) \in Nat, h <= Len(m.bytes)
  PROVE  PrefixEnd(m) = h - 10
<1>1. PICK g \in Nat : g = h - 10 /\ g \in 9 .. 12 /\ g - 1 = h - 11
  <2>1. h \in 19 .. 22
    BY DEF HeadAt
  <2>2. \A k \in 19 .. 22 : k - 10 \in Nat /\ k - 10 \in 9 .. 12 /\ (k - 10) - 1 = k - 11
    OBVIOUS
  <2> QED
    BY <2>1, <2>2, Zenon
<1> DEFINE S == {j \in 0 + 9 .. 0 + 12 : At(m.bytes, j) = SOH}
<1>2. PrefixEnd(m) = FirstIn(S, 0, Len(m.bytes))
  BY DEF PrefixEnd, PrefixEnds
<1>3. g \in S
  BY <1>1 DEF HeadAt
<1>4. \A k \in 0 .. g - 1 : k \notin S
  BY <1>1 DEF HeadAt
<1>5. g \in 0 .. Len(m.bytes) - 1
  BY <1>1
<1> HIDE DEF S
<1>6. FirstIn(S, 0, Len(m.bytes)) = g
  <2>1. 0 \in Nat
    OBVIOUS
  <2> QED
    BY <1>3, <1>4, <1>5, <2>1, FirstInUnique
<1> QED
  BY <1>1, <1>2, <1>6

----------------------------------------------------------------------------
(* A written message is read *)

\* The reader is opened on what was written, and keeps to it.
Opened ==
  /\ status \in {"reading", "unreadable"} /\ IsWritten =>
       (status = "reading") = IsFrame(Verdict(buffer, 0, endOut))
  /\ status = "reading" /\ IsWritten =>
       msg.bytes = buffer /\ messageEnd = Verdict(buffer, 0, endOut).end

Delivered == Accounted /\ Contents /\ Closed /\ Opened

\* Whatever follows the header, a reader finds the message invalid or finds
\* just this one.
LEMMA HeadedVerdict ==
  ASSUME Accounted, Contents, IsWritten, Headed, NEW at \in Nat, ClosedAt(at)
  PROVE  \E h \in Nat :
           /\ h = sections[1].size /\ HeadAt(buffer, h) /\ h <= at /\ endOut = at + 7
           /\ Verdict(buffer, 0, endOut) \in {Invalid, Frame(h, FindSOH(buffer, h + 3, at), at)}
           /\ At(buffer, h) = 51 /\ At(buffer, h + 1) = 53 /\ FindSOH(buffer, h + 3, at) < at
                => Verdict(buffer, 0, endOut) = Frame(h, FindSOH(buffer, h + 3, at), at)
<1>1. PICK h \in Nat : h = sections[1].size /\ HeadAt(buffer, h)
  <2>1. HeadAt(buffer, sections[1].size)
    BY DEF Contents, HeadWritten
  <2>2. sections[1].size \in 19 .. 22
    BY <2>1 DEF HeadAt
  <2>3. \A k \in 19 .. 22 : k \in Nat
    OBVIOUS
  <2> QED
    BY <2>1, <2>2, <2>3, Zenon
<1>2. /\ HasSixDigits(at - h) /\ Spells(buffer, h - 7, Padded(at - h, 6))
      /\ At(buffer, at - 1) = SOH
      /\ Len(buffer) = at + 7
  BY <1>1 DEF ClosedAt, LengthDigits
<1>3. endOut = at + 7
  BY <1>2 DEF Accounted, Finished, IsWritten
<1>4. h <= at
  BY <1>2 DEF HasSixDigits
<1>5. At(buffer, at + 6) = SOH
  <2>1. At(buffer, Len(buffer) - 1) = SOH
    BY DEF Contents, HeadWritten
  <2>2. (at + 7) - 1 = at + 6
    OBVIOUS
  <2> QED
    BY <1>2, <2>1, <2>2
<1> QED
  BY <1>1, <1>2, <1>3, <1>4, <1>5, VerdictIs

\* One put together by the rules begins with MsgType: it is valid.
LEMMA RegularVerdict ==
  ASSUME Accounted, Contents, IsWritten, Regular, NEW at \in Nat, ClosedAt(at)
  PROVE  LET h == sections[1].size
             f == sections[2].fields[1]
         IN  /\ Headed /\ h \in Nat /\ h <= at /\ endOut = at + 7 /\ HeadAt(buffer, h)
             /\ f.from = h + 3 /\ f.tag = 35 /\ f.to < at
             /\ Verdict(buffer, 0, endOut) = Frame(h, f.to, at)
<1> DEFINE f == sections[2].fields[1]
           m == [bytes |-> buffer]
           n == Len(sections)
<1>1. Headed /\ n >= 3 /\ StartsWithType(sections[2]) /\ \A i \in DOMAIN sections : sections[i].regular
  BY DEF Regular
<1>2. PICK h \in Nat :
        /\ h = sections[1].size /\ HeadAt(buffer, h) /\ h <= at /\ endOut = at + 7
        /\ At(buffer, h) = 51 /\ At(buffer, h + 1) = 53 /\ FindSOH(buffer, h + 3, at) < at
             => Verdict(buffer, 0, endOut) = Frame(h, FindSOH(buffer, h + 3, at), at)
  BY <1>1, HeadedVerdict
<1>3. /\ n \in Nat /\ 2 \in 1 .. n /\ 2 \in 2 .. n /\ n \in 1 .. n /\ 1 \in 1 .. n /\ 2 < n
      /\ DOMAIN sections = 1 .. n /\ sections # <<>>
  <2>1. n \in Nat /\ DOMAIN sections = 1 .. n
    BY SectionsAre DEF Accounted, CallsCounted
  <2> HIDE DEF n
  <2>2. 2 \in 1 .. n /\ 2 \in 2 .. n /\ n \in 1 .. n /\ 1 \in 1 .. n /\ 2 < n
    BY <1>1, <2>1
  <2>3. sections # <<>>
    BY <2>2 DEF n
  <2> QED
    BY <2>1, <2>2, <2>3
<1>4. PICK section \in SectionType, size \in Nat :
        section = sections[2] /\ size = section.size /\ section.at = h
  <2>1. sections[2] \in SectionType /\ sections[2].size \in Nat
    BY <1>3, SectionsAre DEF Accounted
  <2>2. sections[2].at = sections[1].at + sections[1].size /\ sections[1].at = 0
    <3>1. 2 = 1 + 1
      OBVIOUS
    <3> QED
      BY <1>3, <3>1 DEF Accounted, Tiled
  <2>3. 0 + h = h
    OBVIOUS
  <2> QED
    BY <1>2, <2>1, <2>2, <2>3
<1>5. Holds(m.bytes, section)
  BY <1>1, <1>3, <1>4 DEF Contents, FieldsHeld
<1>6. h + size <= at
  <2>1. sections[2].at + sections[2].size <= sections[n].at
    BY <1>3 DEF Accounted, Tiled
  <2> QED
    BY <1>4, <2>1 DEF ClosedAt
<1>7. f = section.fields[1] /\ f.tag = 35 /\ f.from = h + 3
  BY <1>1, <1>4 DEF StartsWithType
<1>8. At(buffer, h) = 51 /\ At(buffer, h + 1) = 53 /\ IsText(m, h, f)
  BY <1>1, <1>4, <1>5, <1>7, TypeIsText
<1>9. f.to \in Nat /\ f.to + 1 = h + size
  BY <1>4, <1>5, <1>7, HoldsIs
<1>10. h + 3 <= f.to /\ (\A k \in h + 3 .. f.to - 1 : At(buffer, k) # SOH) /\ At(buffer, f.to) = SOH
  <2>1. /\ f.from \in h + 1 .. f.to /\ Free(m, f.from, f.to, {SOH}) /\ At(m.bytes, f.to) = SOH
    BY <1>8 DEF IsText, IsPart
  <2>2. h + 3 <= f.to
    BY <1>7, <1>9, <2>1
  <2> QED
    BY <1>7, <2>1, <2>2 DEF Free
<1> HIDE DEF f, m, n
<1>11. PICK to \in Nat : to = f.to /\ to < at /\ h + 3 <= to
  BY <1>6, <1>9, <1>10
<1>12. FindSOH(buffer, h + 3, at) = to
  <2> DEFINE S == {j \in h + 3 .. at - 1 : At(buffer, j) = SOH}
  <2>1. FindSOH(buffer, h + 3, at) = FirstIn(S, h + 3, at)
    <3>1. ~(h + 3 >= at)
      BY <1>11
    <3> QED
      BY <3>1 DEF FindSOH
  <2>2. to \in h + 3 .. at - 1 /\ to \in S /\ \A k \in h + 3 .. to - 1 : k \notin S
    BY <1>10, <1>11
  <2> HIDE DEF S
  <2>3. h + 3 \in Nat
    OBVIOUS
  <2> QED
    BY <2>1, <2>2, <2>3, FirstInUnique
<1> QED
  BY <1>1, <1>2, <1>7, <1>8, <1>11, <1>12, Zenon DEF f

LEMMA NextKeepsMessage == Next => UNCHANGED <<msg, messageEnd>>
  BY DEF Next, NoSeparator, NoValue, PlainField, DataField, NoData, MoveTo

LEMMA DeliveredInit == WRInit => Delivered
<1> SUFFICES ASSUME WRInit PROVE Delivered
  OBVIOUS
<1>1. sections = <<>> /\ endOut = Null
  BY DEF WRInit
<1>2. ~Headed /\ ~IsWritten
  BY <1>1 DEF Headed, IsWritten
<1> QED
  BY <1>2, AccountedInit DEF Delivered, Contents, HeadWritten, FieldsHeld, Closed, Opened

LEMMA WriterKept ==
  ASSUME Delivered, UNCHANGED writerVars
  PROVE  Contents' /\ Closed'
<1>1. UNCHANGED <<buffer, bodyLength, endOut, sections>>
  BY DEF writerVars
<1> QED
  BY <1>1 DEF Delivered, Contents, HeadWritten, FieldsHeld, Headed, Closed, IsWritten, ClosedAt, LengthDigits

LEMMA ContentsKept ==
  ASSUME Accounted, Contents, Dropped \/ FieldPut \/ HeaderPut \/ DigitsPut \/ TrailerPut
  PROVE  Contents'
<1>1. Dropped => Contents'
  BY DEF Dropped, Contents, HeadWritten, FieldsHeld, Headed
<1> QED
  BY <1>1, FieldHeld, HeaderHeld, DigitsHeld, TrailerHeld DEF Accounted

LEMMA DeliveredKept == Delivered /\ [WRNext]_allVars => Delivered'
<1> SUFFICES ASSUME Delivered, [WRNext]_allVars PROVE Delivered'
  OBVIOUS
<1>0. Accounted'
  BY AccountedKept DEF Delivered
<1> USE DEF Delivered
<1>1. CASE Body
  <2>1. /\ status = "writing" /\ UNCHANGED <<status, endOut>>
        /\ Dropped \/ FieldPut \/ HeaderPut \/ DigitsPut \/ TrailerPut
    BY <1>1, BodySteps DEF Accounted
  <2>2. Contents'
    BY <2>1, ContentsKept
  <2>3. ~IsWritten'
    BY <2>1 DEF Accounted, Finished, IsWritten
  <2> QED
    BY <1>0, <2>2, <2>3 DEF Closed, Opened
<1>2. CASE TryWriteMessage
  <2>1. /\ status = "writing" /\ status' \in {"written", "refused"}
        /\ endOut' = IF told' = "ok" THEN Len(buffer') ELSE endOut
        /\ \/ (Dropped \/ DigitsPut) /\ told' = "failed"
           \/ TrailerPut /\ told' = "ok"
    BY <1>2, TrailerSteps DEF TryWriteMessage, End, Accounted
  <2>2. Contents'
    BY <2>1, ContentsKept
  <2>3. TrailerPut => Closed'
    BY TrailerHeld DEF Accounted, Closed
  <2>4. told' = "failed" => ~IsWritten'
    BY <2>1 DEF Accounted, Finished, IsWritten
  <2> QED
    BY <1>0, <2>1, <2>2, <2>3, <2>4 DEF Closed, Opened
<1>3. CASE OpenReader
  <2>1. UNCHANGED writerVars /\ buffer' = buffer /\ endOut' = endOut
    BY <1>3 DEF OpenReader, writerVars
  <2>2. \/ ~IsFrame(Verdict(buffer, 0, endOut)) /\ status' = "unreadable"
        \/ /\ IsFrame(Verdict(buffer, 0, endOut)) /\ status' = "reading"
           /\ msg' = [bytes |-> buffer, written |-> IF Regular THEN Pushed ELSE <<>>]
           /\ messageEnd' = Verdict(buffer, 0, endOut).end
    BY <1>3, Zenon DEF OpenReader
  <2>3. Opened'
    BY <2>1, <2>2 DEF Opened, IsWritten, IsFrame
  <2> QED
    BY <1>0, <2>1, <2>3, WriterKept
<1>4. CASE Increment
  <2>1. UNCHANGED <<writerVars, status>> /\ UNCHANGED <<msg, messageEnd>>
    BY <1>4, NextKeepsMessage DEF Increment
  <2>2. Opened'
    BY <2>1 DEF Opened, writerVars, IsWritten
  <2> QED
    BY <1>0, <2>1, <2>2, WriterKept
<1>5. CASE UNCHANGED allVars
  <2>1. UNCHANGED <<writerVars, status>> /\ UNCHANGED <<msg, messageEnd>>
    BY <1>5 DEF allVars, readerVars
  <2>2. Opened'
    BY <2>1 DEF Opened, writerVars, IsWritten
  <2> QED
    BY <1>0, <2>1, <2>2, WriterKept
<1> QED
  BY <1>1, <1>2, <1>3, <1>4, <1>5 DEF WRNext

\* The three digits of the checksum read as the sum of the bytes before them.
LEMMA SumIsRead ==
  ASSUME NEW s \in Seq(Byte), NEW at \in Nat, Len(s) = at + 7,
         Spells(s, at, FieldText(10, SumDigits(s, at)))
  PROVE  ChecksumBytes(s, at) = Unsigned(s, (at + 7) - 4, (at + 7) - 1, 256)
<1>1. PICK sum \in Nat : sum = ChecksumBytes(s, at) /\ sum <= 255
  <2>1. \A i \in 1 .. at : s[i] \in Byte
    OBVIOUS
  <2> QED
    BY <2>1, ChecksumType
<1>2. PICK value \in Seq(Byte) : value = Padded(sum, 3) /\ value = SumDigits(s, at)
  BY <1>1, ThreeDigitsType, DigitBytes DEF SumDigits
<1>3. Spells(s, at + Len(Numeral[10]) + 1, value)
  <2>1. 10 \in Nat
    OBVIOUS
  <2> QED
    BY <1>2, <2>1, FieldSpelled
<1>4. PICK p \in Nat : p = at + 3
  OBVIOUS
<1>5. Spells(s, p, Padded(sum, 3))
  <2>1. Len(Numeral[10]) = 2
    BY NumeralOfTen
  <2>2. at + 2 + 1 = p
    BY <1>4
  <2> QED
    BY <1>2, <1>3, <2>1, <2>2
<1>6. Unsigned(s, p, p + 3, 256) = sum
  <2>1. PICK modulus \in Nat : modulus = 256
    OBVIOUS
  <2>2. sum < modulus /\ sum <= 999
    BY <1>1, <2>1
  <2>3. Tenth(Tenth(Tenth(sum))) = 0
    BY <2>2, ThreeTenths
  <2>4. Unsigned(s, p, p + 3, modulus) = sum
    BY <1>5, <2>2, <2>3, ThreeDigitsRead
  <2> QED
    BY <2>1, <2>4
<1>7. (at + 7) - 4 = p /\ (at + 7) - 1 = p + 3
  BY <1>4
<1> QED
  BY <1>1, <1>6, <1>7

LEMMA DeliveredIsRead == Delivered => WrittenIsRead
<1> SUFFICES ASSUME Delivered PROVE WrittenIsRead
  OBVIOUS
<1> USE DEF Delivered
<1>1. ASSUME IsWritten, Regular
      PROVE  /\ status # "unreadable"
             /\ status = "reading" => messageEnd = endOut /\ 8 + PrefixEnd(msg) - 2 = sections[1].size - 4
  <2>1. PICK at \in Nat : ClosedAt(at)
    BY <1>1 DEF Closed
  <2>2. PICK h, to : /\ h \in Nat /\ h = sections[1].size /\ h <= at /\ endOut = at + 7
                      /\ HeadAt(buffer, h) /\ Verdict(buffer, 0, endOut) = Frame(h, to, at)
    BY <1>1, <2>1, RegularVerdict
  <2>3. IsFrame(Frame(h, to, at)) /\ Frame(h, to, at).end = at + 7
    BY DEF IsFrame, Frame
  <2>4. status # "unreadable"
    BY <1>1, <2>2, <2>3 DEF Opened
  <2>5. ASSUME status = "reading"
        PROVE  messageEnd = endOut /\ 8 + PrefixEnd(msg) - 2 = sections[1].size - 4
    <3>1. msg.bytes = buffer /\ messageEnd = endOut
      BY <1>1, <2>2, <2>3, <2>5 DEF Opened
    <3>2. Len(msg.bytes) \in Nat /\ h <= Len(msg.bytes)
      <4>1. Len(buffer) = at + 7
        BY <2>1 DEF ClosedAt
      <4> QED
        BY <2>2, <3>1, <4>1
    <3>3. PrefixEnd(msg) = h - 10
      BY <2>2, <3>1, <3>2, PrefixEndIs
    <3>4. 8 + (h - 10) - 2 = h - 4
      BY <2>2
    <3> QED
      BY <2>2, <3>1, <3>3, <3>4
  <2> QED
    BY <2>4, <2>5
<1>2. ASSUME IsWritten, Headed, status = "reading"
      PROVE  CalculateCheckSum = Unsigned(msg.bytes, CheckSumField.from, CheckSumField.to, 256)
  <2>1. PICK at \in Nat : ClosedAt(at)
    BY <1>2 DEF Closed
  <2>2. PICK h, to : endOut = at + 7 /\ Verdict(buffer, 0, endOut) \in {Invalid, Frame(h, to, at)}
    BY <1>2, <2>1, HeadedVerdict
  <2>3. ~IsFrame(Invalid) /\ Frame(h, to, at).end = at + 7
    BY DEF IsFrame, Invalid, Frame
  <2>4. msg.bytes = buffer /\ messageEnd = at + 7
    BY <1>2, <2>2, <2>3 DEF Opened
  <2>5. EndField = at
    BY <2>4 DEF EndField
  <2>6. CheckSumField.from = (at + 7) - 4 /\ CheckSumField.to = (at + 7) - 1
    BY <2>4 DEF CheckSumField, Field
  <2>7. buffer \in Seq(Byte)
    BY DEF Accounted, CallsCounted
  <2>8. ChecksumBytes(buffer, at) = Unsigned(buffer, (at + 7) - 4, (at + 7) - 1, 256)
    BY <2>1, <2>7, SumIsRead DEF ClosedAt
  <2> QED
    BY <2>4, <2>5, <2>6, <2>8, Zenon DEF CalculateCheckSum
<1> QED
  BY <1>1, <1>2 DEF WrittenIsRead

\* Of everything written: the header, the fields and the trailer are in the
\* buffer as they were pushed, the length and the sum are those of its bytes, and
\* the reader's verdict is on just that buffer.
THEOREM WrittenMessagesDelivered == WRSpec => []Delivered
<1> QED
  BY DeliveredInit, DeliveredKept, PTL DEF WRSpec

\* A message put together by the rules is valid for the reader and ends at
\* end_out, and the checksum the reader calculates is the one the trailer has,
\* whatever bytes the body put behind the header.
THEOREM WrittenMessagesAreRead == WRSpec => []WrittenIsRead
<1> QED
  BY WrittenMessagesDelivered, DeliveredIsRead, PTL

----------------------------------------------------------------------------
(* The fields of a written message *)

\* The fields of the first sections, one behind the other.
Joined(f, n) == f = [i \in 1 .. n |-> IF i = 1 THEN <<>> ELSE f[i - 1] \o sections[i - 1].fields]

LEMMA JoinedExist == \A n \in Nat : \E f : Joined(f, n)
<1> DEFINE T == {n \in Nat : ~ \E f : Joined(f, n)}
<1> SUFFICES ASSUME T # {} PROVE FALSE
  OBVIOUS
<1>1. T \subseteq Nat
  OBVIOUS
<1>2. PICK x \in T : \A y \in T : x <= y
  <2> HIDE DEF T
  <2> QED
    BY <1>1, LeastNumber
<1>3. CASE x = 0
  <2>1. Joined([i \in 1 .. x |-> <<>>], x)
    BY <1>3 DEF Joined
  <2> QED
    BY <2>1
<1>4. CASE x # 0
  <2>1. x \in Nat /\ x - 1 \in Nat
    BY <1>4
  <2>2. x - 1 \notin T
    BY <1>2, <2>1
  <2>3. PICK g : Joined(g, x - 1)
    BY <2>1, <2>2
  <2> DEFINE next == IF x = 1 THEN <<>> ELSE g[x - 1] \o sections[x - 1].fields
             h == [i \in 1 .. x |-> IF i = x THEN next ELSE g[i]]
  <2>4. ASSUME NEW i \in 1 .. x
        PROVE  h[i] = IF i = 1 THEN <<>> ELSE h[i - 1] \o sections[i - 1].fields
    <3>1. CASE i = x
      <4>1. h[i] = next /\ (x # 1 => h[i - 1] = g[x - 1])
        BY <2>1, <3>1
      <4> HIDE DEF h
      <4> QED
        BY <3>1, <4>1
    <3>2. CASE i # x
      <4>1. i \in 1 .. x - 1 /\ h[i] = g[i]
        BY <2>1, <3>2
      <4>2. i # 1 => h[i - 1] = g[i - 1]
        BY <2>1, <4>1
      <4>3. g[i] = IF i = 1 THEN <<>> ELSE g[i - 1] \o sections[i - 1].fields
        BY <2>3, <4>1 DEF Joined
      <4> HIDE DEF h
      <4> QED
        BY <4>1, <4>2, <4>3
    <3> QED
      BY <3>1, <3>2
  <2>5. h = [i \in 1 .. x |-> h[i]]
    OBVIOUS
  <2>6. Joined(h, x)
    <3> HIDE DEF h
    <3> QED
      BY <2>4, <2>5 DEF Joined
  <2> QED
    BY <2>6
<1> QED
  BY <1>3, <1>4

LEMMA PushedIs ==
  ASSUME NEW n \in Nat, n = Len(sections), n >= 3, sections[1].fields = <<>>,
         \A i \in 2 .. n : sections[i].fields = <<sections[i].fields[1]>> /\ sections[i].fields[1] \in PartType
  PROVE  /\ Pushed \in Seq(PartType) /\ Len(Pushed) = n - 2
         /\ \A k \in 1 .. n - 2 : Pushed[k] = sections[k + 1].fields[1]
<1> DEFINE f == CHOOSE f : Joined(f, n)
<1>1. Joined(f, n)
  BY JoinedExist
<1>2. Pushed = f[n]
  BY DEF Pushed, Joined
<1> HIDE DEF f
<1>3. \A i \in 1 .. n : f[i] = IF i = 1 THEN <<>> ELSE f[i - 1] \o sections[i - 1].fields
  BY <1>1 DEF Joined
<1> DEFINE Good(i) == /\ f[i] \in Seq(PartType) /\ Len(f[i]) = i - 2
                      /\ \A k \in 1 .. i - 2 : f[i][k] = sections[k + 1].fields[1]
           T == {i \in 2 .. n : ~Good(i)}
<1>4. T = {}
  <2> SUFFICES ASSUME T # {} PROVE FALSE
    OBVIOUS
  <2>1. T \subseteq Nat
    OBVIOUS
  <2>2. PICK x \in T : \A y \in T : x <= y
    <3> HIDE DEF T
    <3> QED
      BY <2>1, LeastNumber
  <2>3. x \in 2 .. n /\ ~Good(x)
    OBVIOUS
  <2>4. x = 2 \/ (x - 1 \in 2 .. n /\ Good(x - 1))
    <3>1. x # 2 => x - 1 \in 2 .. n
      BY <2>3
    <3>2. x - 1 \notin T
      <4> HIDE DEF T, Good
      <4>1. x - 1 \in T => x <= x - 1
        BY <2>2
      <4> QED
        BY <2>3, <4>1
    <3> QED
      BY <3>1, <3>2
  <2>5. CASE x = 2
    <3>1. f[1] = <<>>
      BY <1>3
    <3>2. 2 \in 1 .. n /\ 2 - 1 = 1
      OBVIOUS
    <3>4. f[2] = f[2 - 1] \o sections[2 - 1].fields
      <4>1. 2 # 1
        OBVIOUS
      <4> QED
        BY <1>3, <3>2, <4>1, Zenon
    <3>3. f[2] = <<>> \o <<>>
      BY <3>1, <3>2, <3>4, Zenon
    <3> QED
      BY <2>3, <2>5, <3>3
  <2>6. CASE x - 1 \in 2 .. n /\ Good(x - 1)
    <3>1. PICK part \in PartType : part = sections[x - 1].fields[1] /\ sections[x - 1].fields = <<part>>
      BY <2>6
    <3>2. f[x] = f[x - 1] \o <<part>>
      <4>1. x \in 1 .. n /\ x # 1
        BY <2>3
      <4>2. f[x] = f[x - 1] \o sections[x - 1].fields
        BY <1>3, <4>1, Zenon
      <4> QED
        BY <3>1, <4>2, Zenon
    <3>3. PICK before \in Seq(PartType) : before = f[x - 1] /\ Len(before) = (x - 1) - 2
      BY <2>6
    <3>4. /\ before \o <<part>> \in Seq(PartType) /\ Len(before \o <<part>>) = Len(before) + 1
          /\ \A k \in 1 .. Len(before) : (before \o <<part>>)[k] = before[k]
          /\ (before \o <<part>>)[Len(before) + 1] = part
      OBVIOUS
    <3>5. /\ ((x - 1) - 2) + 1 = x - 2 /\ (x - 2) + 1 = x - 1
          /\ \A k \in 1 .. x - 2 : k \in 1 .. (x - 1) - 2 \/ k = x - 2
      BY <2>3
    <3>6. \A k \in 1 .. x - 2 : f[x][k] = sections[k + 1].fields[1]
      <4> SUFFICES ASSUME NEW k \in 1 .. x - 2 PROVE f[x][k] = sections[k + 1].fields[1]
        OBVIOUS
      <4>1. CASE k \in 1 .. (x - 1) - 2
        BY <2>6, <3>2, <3>3, <3>4, <4>1
      <4>2. CASE k = x - 2
        BY <3>1, <3>2, <3>3, <3>4, <3>5, <4>2
      <4> QED
        BY <3>5, <4>1, <4>2
    <3> QED
      BY <2>3, <3>2, <3>3, <3>4, <3>5, <3>6
  <2> QED
    BY <2>4, <2>5, <2>6
<1>5. Good(n)
  BY <1>4
<1> QED
  BY <1>2, <1>5

LEMMA RegularKeepsTheRules ==
  ASSUME Accounted, Contents, IsWritten, Regular, NEW at \in Nat, ClosedAt(at),
         NEW m, m.bytes = buffer, m.written = Pushed
  PROVE  KeepsTheRules(m) /\ IsFrame(Whole(m)) /\ m.bytes \in Seq(Byte) /\ Len(buffer) = endOut
<1>1. PICK h, f :
        /\ h \in Nat /\ h = sections[1].size /\ f = sections[2].fields[1] /\ Headed /\ h <= at
        /\ endOut = at + 7
        /\ f.from = h + 3 /\ f.tag = 35 /\ f.to < at
        /\ Verdict(buffer, 0, endOut) = Frame(h, f.to, at)
  BY RegularVerdict
<1>2. Len(buffer) = endOut /\ m.bytes \in Seq(Byte)
  BY <1>1 DEF ClosedAt, Accounted, CallsCounted
<1>3. Whole(m) = Frame(h, f.to, at)
  BY <1>1, <1>2 DEF Whole
<1>4. /\ Whole(m).body = h /\ Whole(m).typeEnd = f.to /\ Whole(m).checksum = at
      /\ Whole(m).end = at + 7
      /\ IsFrame(Whole(m))
  BY <1>3 DEF Frame, IsFrame
<1>5. PICK n \in Nat : n = Len(sections) /\ n >= 3 /\ DOMAIN sections = 1 .. n
  BY SectionsAre DEF Regular, Accounted, CallsCounted
<1>6. \A i \in 1 .. n : sections[i].regular /\ sections[i].at \in Nat /\ sections[i].size \in Nat
  BY <1>5, SectionsAre DEF Regular, Accounted
<1>7. ASSUME NEW i \in 2 .. n
      PROVE  LET g == sections[i].fields[1]
             IN  /\ sections[i].fields = <<g>> /\ g \in PartType
                 /\ IsText(m, sections[i].at, g) \/ IsData(m, sections[i].at, g)
                 /\ g.to + 1 = sections[i].at + sections[i].size
  <2>3. PICK section : section = sections[i]
    OBVIOUS
  <2>1. section.at \in Nat /\ section.size \in Nat
    <3>1. i \in 1 .. n
      BY <1>5
    <3> QED
      BY <1>6, <2>3, <3>1
  <2>2. Holds(m.bytes, section)
    <3>1. i \in 1 .. n
      BY <1>5
    <3> QED
      BY <1>1, <1>5, <1>6, <2>3, <3>1 DEF Contents, FieldsHeld
  <2> QED
    BY <2>1, <2>2, <2>3, HoldsIs DEF PartType
<1>8. /\ Pushed \in Seq(PartType) /\ Len(Pushed) = n - 2
      /\ \A k \in 1 .. n - 2 : Pushed[k] = sections[k + 1].fields[1]
  <2>1. sections[1].fields = <<>>
    BY <1>1 DEF Contents, HeadWritten
  <2> QED
    BY <1>5, <1>7, <2>1, PushedIs
<1>9. \A i \in 2 .. n : i < n => sections[i].at + sections[i].size <= at
  <2>1. n \in 1 .. n /\ \A i \in 2 .. n : i \in 1 .. n
    BY <1>5
  <2>2. sections[n].at = at
    BY <1>5 DEF ClosedAt
  <2> QED
    BY <1>5, <2>1, <2>2 DEF Accounted, Tiled
<1>10. ASSUME NEW k \in 1 .. n - 2
       PROVE  Pushed[k] \in [tag : Nat, from : Nat, to : 0 .. at - 1]
  <2>1. k + 1 \in 2 .. n /\ k + 1 < n
    BY <1>5
  <2>2. PICK g \in PartType : g = Pushed[k] /\ g.to + 1 = sections[k + 1].at + sections[k + 1].size
    BY <1>7, <1>8, <2>1
  <2>3. g.to + 1 <= at /\ g.to \in Nat
    BY <1>9, <2>1, <2>2 DEF PartType
  <2> QED
    BY <2>2, <2>3 DEF PartType
<1>11. ASSUME NEW k \in 2 .. n - 2
       PROVE  \/ IsText(m, Pushed[k - 1].to + 1, Pushed[k])
              \/ IsData(m, Pushed[k - 1].to + 1, Pushed[k])
  <2>1. PICK i \in Nat : i = k + 1 /\ i \in 2 .. n /\ i - 1 \in 2 .. n /\ (k - 1) + 1 = i - 1
                         /\ i \in 1 .. n /\ i - 1 \in 1 .. n /\ i = (i - 1) + 1
    BY <1>5
  <2>2. k \in 1 .. n - 2 /\ k - 1 \in 1 .. n - 2
    BY <1>5
  <2>3. Pushed[k] = sections[i].fields[1] /\ Pushed[k - 1] = sections[i - 1].fields[1]
    BY <1>8, <2>1, <2>2
  <2>4. sections[i].at = sections[i - 1].at + sections[i - 1].size
    BY <1>5, <2>1 DEF Accounted, Tiled
  <2>5. Pushed[k - 1].to + 1 = sections[i].at
    BY <1>7, <2>1, <2>3, <2>4
  <2> QED
    BY <1>7, <2>1, <2>3, <2>5
<1>12. Pushed[1] = [tag |-> 35, from |-> h + 3, to |-> f.to]
  <2>1. 1 \in 1 .. n - 2 /\ 1 + 1 = 2 /\ 2 \in 2 .. n
    BY <1>5
  <2>2. Pushed[1] = f /\ f \in PartType
    BY <1>1, <1>7, <1>8, <2>1
  <2>3. f = [tag |-> f.tag, from |-> f.from, to |-> f.to]
    BY <2>2 DEF PartType
  <2> QED
    BY <1>1, <2>2, <2>3
<1>13. Pushed[n - 2].to = at - 1
  <2>1. /\ n - 2 \in 1 .. n - 2 /\ (n - 2) + 1 = n - 1 /\ n - 1 \in 2 .. n /\ n - 1 \in 1 .. n
        /\ n \in 1 .. n
        /\ n = (n - 1) + 1
    BY <1>5
  <2>2. Pushed[n - 2] = sections[n - 1].fields[1]
    BY <1>8, <2>1
  <2>3. sections[n].at = sections[n - 1].at + sections[n - 1].size
    BY <1>5, <2>1 DEF Accounted, Tiled
  <2>4. sections[n].at = at
    BY <1>5 DEF ClosedAt
  <2>5. PICK g \in PartType : g = Pushed[n - 2] /\ g.to + 1 = at
    BY <1>7, <2>1, <2>2, <2>3, <2>4
  <2>6. g.to \in Nat
    BY DEF PartType
  <2>7. g.to = at - 1
    BY <2>5, <2>6
  <2> QED
    BY <2>5, <2>7
<1>14. IsText(m, at, [tag |-> 10, from |-> (at + 7) - 4, to |-> (at + 7) - 1])
  <2>1. /\ Plain(10, SumDigits(buffer, at))
        /\ Spells(m.bytes, at, FieldText(10, SumDigits(buffer, at)))
    BY <1>5, <1>6 DEF ClosedAt
  <2>2. PICK value \in Seq(Byte) : value = SumDigits(buffer, at) /\ Len(value) = 3
    <3>1. \A i \in 1 .. at : buffer[i] \in Byte
      BY <1>1, <1>2 DEF Accounted, CallsCounted
    <3>2. ChecksumBytes(buffer, at) \in Nat
      BY <3>1, ChecksumType
    <3> QED
      BY <3>2, ThreeDigitsType, DigitBytes DEF SumDigits
  <2>3. IsText(m, at, Placed(10, value, at))
    <3>1. 10 \in Nat
      OBVIOUS
    <3> QED
      BY <2>1, <2>2, <3>1, TextIsText
  <2>4. Placed(10, value, at) = [tag |-> 10, from |-> (at + 7) - 4, to |-> (at + 7) - 1]
    <3>1. Len(Numeral[10]) = 2
      BY NumeralOfTen
    <3>2. at + 2 + 1 = (at + 7) - 4 /\ at + 2 + 1 + 3 = (at + 7) - 1
      OBVIOUS
    <3> QED
      BY <2>2, <3>1, <3>2 DEF Placed
  <2> QED
    BY <2>3, <2>4
<1>15. n - 2 \in Nat \ {0}
  BY <1>5
<1>16. KeepsTheRules(m)
  BY <1>4, <1>8, <1>10, <1>11, <1>12, <1>13, <1>14, <1>15, Zenon DEF KeepsTheRules
<1> QED
  BY <1>2, <1>4, <1>16

----------------------------------------------------------------------------
(* From the writer's first byte to the reader's last field *)

LEMMA NextBegunIsShaped == Begun' => IInv'
  BY BegunIsShaped, PTL

\* What the reader's variables are while there is no reader.
Idle ==
  /\ msg = NothingRead /\ messageEnd = 0 /\ field = Field(0, 0, 0, 0) /\ seen = <<Visit(field)>>
Read == IF status = "reading" THEN IInv ELSE Idle
ReadInv == Delivered /\ Read

LEMMA OpenedIsBegun ==
  ASSUME Delivered, OpenReader, status' = "reading"
  PROVE  Begun'
<1>1. /\ IsFrame(Verdict(buffer, 0, endOut)) /\ status = "written"
      /\ msg' = [bytes |-> buffer, written |-> IF Regular THEN Pushed ELSE <<>>]
      /\ messageEnd' = Verdict(buffer, 0, endOut).end
      /\ field' = Field(Verdict(buffer, 0, endOut).body, 35, Verdict(buffer, 0, endOut).body + 3,
                        Verdict(buffer, 0, endOut).typeEnd)
      /\ seen' = <<Visit(field')>>
  BY Zenon DEF OpenReader
<1>2. IsWritten /\ endOut = Len(buffer) /\ buffer \in Seq(Byte)
  BY <1>1 DEF Delivered, Accounted, Finished, CallsCounted, IsWritten
<1>3. msg'.bytes = buffer /\ msg'.written = IF Regular THEN Pushed ELSE <<>>
  BY <1>1
<1>4. Whole(msg') = Verdict(buffer, 0, endOut)
  BY <1>2, <1>3 DEF Whole
<1>5. Regular => KeepsTheRules(msg')
  <2>1. PICK at \in Nat : ClosedAt(at)
    BY <1>2 DEF Delivered, Closed
  <2> QED
    BY <1>2, <1>3, <2>1, RegularKeepsTheRules DEF Delivered
<1>6. IsMessage(msg')
  BY <1>1, <1>2, <1>3, <1>4, <1>5 DEF IsMessage
<1> QED
  BY <1>1, <1>4, <1>6 DEF Begun

LEMMA ReadInit == WRInit => ReadInv
<1> SUFFICES ASSUME WRInit PROVE ReadInv
  OBVIOUS
<1>1. Delivered
  BY DeliveredInit
<1>2. CASE status = "reading" /\ Init
  BY <1>1, <1>2, InitIsBegun, BegunIsShaped DEF ReadInv, Read
<1>3. CASE WriteInit
  BY <1>1, <1>3 DEF WriteInit, ReadInv, Read, Idle
<1> QED
  BY <1>2, <1>3 DEF WRInit

LEMMA ReadKept == ReadInv /\ [WRNext]_allVars => ReadInv'
<1> SUFFICES ASSUME ReadInv, [WRNext]_allVars PROVE ReadInv'
  OBVIOUS
<1>0. Delivered'
  BY DeliveredKept DEF ReadInv
<1>1. CASE Body
  <2>1. status = "writing" /\ UNCHANGED <<readerVars, status>>
    BY <1>1 DEF Body
  <2> QED
    BY <1>0, <2>1 DEF readerVars, ReadInv, Read, Idle, Visit
<1>2. CASE TryWriteMessage
  <2>1. status = "writing" /\ status' # "reading" /\ UNCHANGED readerVars
    BY <1>2 DEF TryWriteMessage
  <2> QED
    BY <1>0, <2>1 DEF readerVars, ReadInv, Read, Idle, Visit
<1>3. CASE OpenReader
  <2>1. CASE status' = "reading"
    BY <1>0, <1>3, <2>1, OpenedIsBegun, NextBegunIsShaped DEF ReadInv, Read
  <2>2. CASE status' # "reading"
    <3>1. status = "written" /\ UNCHANGED readerVars
      BY <1>3, <2>2, Zenon DEF OpenReader
    <3> QED
      BY <1>0, <2>2, <3>1 DEF readerVars, ReadInv, Read, Idle, Visit
  <2> QED
    BY <2>1, <2>2
<1>4. CASE Increment
  <2>1. status = "reading" /\ status' = "reading" /\ Next
    BY <1>4 DEF Increment
  <2>2. IInv'
    BY <2>1, StepKeeps DEF ReadInv, Read
  <2> QED
    BY <1>0, <2>1, <2>2 DEF ReadInv, Read
<1>5. CASE UNCHANGED allVars
  <2>1. UNCHANGED vars /\ status' = status
    BY <1>5 DEF allVars, readerVars, vars
  <2>2. IInv => IInv'
    BY <2>1, StepKeeps
  <2>3. Idle => Idle'
    BY <2>1 DEF vars, Idle, Visit
  <2> QED
    BY <1>0, <2>1, <2>2, <2>3 DEF ReadInv, Read
<1> QED
  BY <1>1, <1>2, <1>3, <1>4, <1>5 DEF WRNext

\* The loop's invariant of FieldIterator holds of a reader opened on what was
\* written as of one opened on what was received.
THEOREM WrittenOrReceived == WRSpec => []ReadInv
<1> QED
  BY ReadInit, ReadKept, PTL DEF WRSpec

LEMMA IdleIsTyped == Idle => TypeOK /\ ValueInMessage /\ SeesTheFields
<1> SUFFICES ASSUME Idle PROVE TypeOK /\ ValueInMessage /\ SeesTheFields
  OBVIOUS
<1>1. /\ msg.bytes = <<>> /\ msg.written = <<>> /\ messageEnd = 0 /\ Len(seen) = 1
      /\ field.at = 0 /\ field.tag = 0 /\ field.from = 0 /\ field.to = 0
  BY DEF Idle, NothingRead, Field
<1>2. <<>> \in Seq(Byte) /\ Len(<<>>) = 0 /\ 0 \in 0 .. TagModulus - 1
  BY TagAssumption
<1> QED
  BY <1>1, <1>2 DEF TypeOK, ValueInMessage, SeesTheFields

\* The reader of a written message keeps to its types.
THEOREM WRTypeCorrect == WRSpec => []TypeOK
<1>1. ReadInv => TypeOK
  BY ShapedIsTyped, IdleIsTyped DEF ReadInv, Read
<1> QED
  BY WrittenOrReceived, <1>1, PTL

\* No value handed out of a written or a received message leaves it.
THEOREM WRValuesStayInside == WRSpec => []ValueInMessage
<1>1. ReadInv => ValueInMessage
  BY IdleIsTyped DEF ReadInv, Read, IInv, Shaped
<1> QED
  BY WrittenOrReceived, <1>1, PTL

\* What the body pushed is what the loop visits, data with separators in it
\* included: no field is lost, none is made up, and each has its value.
THEOREM WRFieldsAsWritten == WRSpec => []SeesTheFields
<1>1. ReadInv => SeesTheFields
  BY IdleIsTyped DEF ReadInv, Read, IInv, Sees, SeesTheFields
<1> QED
  BY WrittenOrReceived, <1>1, PTL

----------------------------------------------------------------------------
(* The digits of a count *)

\* A number has as many digits as powers of ten it reaches, and one.
Longer(unit, k) == \A n \in Nat : n >= unit <=> Len(Numeral[n]) >= k

LEMMA NumeralLength ==
  ASSUME NEW n \in Nat
  PROVE  Len(Numeral[n]) = IF n >= 10 THEN Len(Numeral[n \div 10]) + 1 ELSE 1
<1> DEFINE front == IF n >= 10 THEN Numeral[n \div 10] ELSE <<>>
<1>1. Numeral[n] = front \o <<Zero + (n % 10)>>
  BY NumeralSteps DEF NumeralOf
<1>2. n \div 10 \in Nat
  BY TenthIsLess
<1>3. front \in Seq(Digits)
  BY <1>2, NumeralType
<1>4. Len(front) = IF n >= 10 THEN Len(Numeral[n \div 10]) ELSE 0
  OBVIOUS
<1>5. Zero + (n % 10) \in Digits
  BY DigitType
<1> HIDE DEF front
<1>6. Len(front \o <<Zero + (n % 10)>>) = Len(front) + 1
  BY <1>3, <1>5
<1> QED
  BY <1>1, <1>4, <1>6

LEMMA LongerByOne ==
  ASSUME NEW unit \in Nat \ {0}, NEW k \in Nat, Longer(unit, k), NEW ten, ten = 10 * unit
  PROVE  Longer(ten, k + 1)
<1> SUFFICES ASSUME NEW n \in Nat
             PROVE  n >= ten <=> Len(Numeral[n]) >= k + 1
  BY DEF Longer
<1>1. n \div 10 \in Nat /\ n = 10 * (n \div 10) + (n % 10) /\ n % 10 \in 0 .. 9
  BY TenthIsLess
<1>2. PICK t \in Nat : t = n \div 10 /\ 10 * t <= n /\ n < 10 * t + 10
  BY <1>1
<1>3. n >= ten <=> t >= unit
  BY <1>2
<1>4. t >= unit <=> Len(Numeral[t]) >= k
  BY DEF Longer
<1>5. Len(Numeral[t]) \in Nat \ {0} /\ Len(Numeral[n]) \in Nat \ {0}
  BY NumeralType
<1>6. Len(Numeral[n]) = IF n >= 10 THEN Len(Numeral[t]) + 1 ELSE 1
  BY <1>2, NumeralLength
<1>7. n < 10 => t = 0
  BY <1>2
<1>8. t = 0 => Len(Numeral[t]) < k
  BY <1>4, <1>5
<1>9. Len(Numeral[t]) >= 1
  BY <1>5
<1>10. n < 10 => n < ten
  BY <1>2
<1> QED
  BY <1>3, <1>4, <1>5, <1>6, <1>7, <1>8, <1>9, <1>10

\* The first nine powers of ten.
LEMMA LongerThanTens == \A k \in 1 .. 9 : Longer(10 ^ k, k + 1)
<1>1. Longer(10 ^ 1, 1 + 1)
  <2> SUFFICES ASSUME NEW n \in Nat PROVE n >= 10 <=> Len(Numeral[n]) >= 2
    <3>1. 10 ^ 1 = 10 /\ 1 + 1 = 2
      BY SMT
    <3> QED
      BY <3>1 DEF Longer
  <2>1. n \div 10 \in Nat
    BY TenthIsLess
  <2>2. Len(Numeral[n \div 10]) \in Nat \ {0}
    BY <2>1, NumeralType
  <2> QED
    BY <2>2, NumeralLength
<1>2. Longer(10 ^ 2, 2 + 1)
  <2>1. 10 ^ 1 \in Nat \ {0} /\ 10 ^ 2 = 10 * 10 ^ 1 /\ 1 + 1 = 2 /\ 2 \in Nat
    BY SMT
  <2> QED
    BY <1>1, <2>1, LongerByOne
<1>3. Longer(10 ^ 3, 3 + 1)
  <2>1. 10 ^ 2 \in Nat \ {0} /\ 10 ^ 3 = 10 * 10 ^ 2 /\ 2 + 1 = 3 /\ 3 \in Nat
    BY SMT
  <2> QED
    BY <1>2, <2>1, LongerByOne
<1>4. Longer(10 ^ 4, 4 + 1)
  <2>1. 10 ^ 3 \in Nat \ {0} /\ 10 ^ 4 = 10 * 10 ^ 3 /\ 3 + 1 = 4 /\ 4 \in Nat
    BY SMT
  <2> QED
    BY <1>3, <2>1, LongerByOne
<1>5. Longer(10 ^ 5, 5 + 1)
  <2>1. 10 ^ 4 \in Nat \ {0} /\ 10 ^ 5 = 10 * 10 ^ 4 /\ 4 + 1 = 5 /\ 5 \in Nat
    BY SMT
  <2> QED
    BY <1>4, <2>1, LongerByOne
<1>6. Longer(10 ^ 6, 6 + 1)
  <2>1. 10 ^ 5 \in Nat \ {0} /\ 10 ^ 6 = 10 * 10 ^ 5 /\ 5 + 1 = 6 /\ 6 \in Nat
    BY SMT
  <2> QED
    BY <1>5, <2>1, LongerByOne
<1>7. Longer(10 ^ 7, 7 + 1)
  <2>1. 10 ^ 6 \in Nat \ {0} /\ 10 ^ 7 = 10 * 10 ^ 6 /\ 6 + 1 = 7 /\ 7 \in Nat
    BY SMT
  <2> QED
    BY <1>6, <2>1, LongerByOne
<1>8. Longer(10 ^ 8, 8 + 1)
  <2>1. 10 ^ 7 \in Nat \ {0} /\ 10 ^ 8 = 10 * 10 ^ 7 /\ 7 + 1 = 8 /\ 8 \in Nat
    BY SMT
  <2> QED
    BY <1>7, <2>1, LongerByOne
<1>9. Longer(10 ^ 9, 9 + 1)
  <2>1. 10 ^ 8 \in Nat \ {0} /\ 10 ^ 9 = 10 * 10 ^ 8 /\ 8 + 1 = 9 /\ 9 \in Nat
    BY SMT
  <2> QED
    BY <1>8, <2>1, LongerByOne
<1>10. \A k \in 1 .. 9 : \/ k = 1 \/ k = 2 \/ k = 3 \/ k = 4 \/ k = 5 \/ k = 6 \/ k = 7 \/ k = 8
                          \/ k = 9
  OBVIOUS
<1> QED
  BY <1>1, <1>2, <1>3, <1>4, <1>5, <1>6, <1>7, <1>8, <1>9, <1>10, Zenon

\* CountSize, the powers of ten a count reaches, is the number of its digits.
LEMMA CountSizeIs ==
  ASSUME NEW n \in Nat, Len(Numeral[n]) <= 10
  PROVE  W!CountSize(n) = Len(Numeral[n])
<1> DEFINE powers == {k \in 1 .. 9 : n >= 10 ^ k}
<1>1. PICK m \in Nat : Len(Numeral[n]) = m + 1 /\ m <= 9
  <2>1. Len(Numeral[n]) \in Nat \ {0}
    BY NumeralType
  <2> QED
    BY <2>1
<1>2. ASSUME NEW k \in 1 .. 9 PROVE n >= 10 ^ k <=> k <= m
  <2>1. n >= 10 ^ k <=> Len(Numeral[n]) >= k + 1
    BY LongerThanTens DEF Longer
  <2> QED
    BY <1>1, <2>1
<1>3. powers = {k \in 1 .. 9 : k <= m}
  BY <1>2
<1>4. {k \in 1 .. 9 : k <= m} = 1 .. m
  BY <1>1
<1>5. Cardinality(1 .. m) = m
  <2>1. 1 \in Int /\ m \in Int
    BY <1>1
  <2>2. Cardinality(1 .. m) = IF 1 > m THEN 0 ELSE m - 1 + 1
    BY <2>1, FS_Interval, Zenon
  <2> QED
    BY <1>1, <2>2
<1>6. W!CountSize(n) = 1 + Cardinality(powers)
  BY Zenon DEF W!CountSize, W!Cardinality, Cardinality
<1>7. powers = 1 .. m
  BY <1>3, <1>4
<1> HIDE DEF powers
<1>8. W!CountSize(n) = 1 + m
  BY <1>5, <1>6, <1>7, Zenon
<1> QED
  BY <1>1, <1>8

----------------------------------------------------------------------------
(* The two readings of digits *)

LEMMA UnsignedAgree ==
  ASSUME NEW s, NEW t, NEW i \in Nat, NEW j \in Nat, i <= j, NEW modulus, Agree(s, t, i, j)
  PROVE  Unsigned(s, i, j, modulus) = Unsigned(t, i, j, modulus)
<1>1. PICK f : Reads(f, s, i, j, modulus) /\ Unsigned(s, i, j, modulus) = f[j]
  BY UnsignedReads
<1>2. PICK g : Reads(g, t, i, j, modulus) /\ Unsigned(t, i, j, modulus) = g[j]
  BY UnsignedReads
<1>3. ASSUME NEW k \in i .. j, k # i PROVE At(s, k - 1) = At(t, k - 1)
  <2>1. k - 1 \in i .. j - 1
    BY <1>3
  <2> QED
    BY <2>1 DEF Agree
<1>4. Reads(f, t, i, j, modulus)
  BY <1>1, <1>3 DEF Reads
<1>5. f[j] = g[j]
  <2>1. j <= j /\ j \in i .. j
    OBVIOUS
  <2> QED
    BY <1>2, <1>4, <2>1, ReadsAgree
<1> QED
  BY <1>1, <1>2, <1>5

LEMMA SliceSpelled ==
  ASSUME NEW s \in Seq(Byte), NEW p \in Nat, NEW t, NEW n \in Nat,
         t = [i \in 1 .. n |-> t[i]], p + n <= Len(s), Spells(s, p, t), Len(t) = n
  PROVE  Slice(s, p, p + n) = t
<1>1. Len(s) \in Nat
  OBVIOUS
<1>2. SubSeq(s, p + 1, p + n) = [i \in 1 .. n |-> s[p + i]]
  OBVIOUS
<1>3. ASSUME NEW i \in 1 .. n PROVE s[p + i] = t[i]
  <2>1. p + i - 1 + 1 = p + i /\ p + i \in 1 .. Len(s)
    BY <1>1
  <2>2. At(s, p + i - 1) = t[i]
    BY DEF Spells
  <2> QED
    BY <2>1, <2>2 DEF At
<1> QED
  BY <1>2, <1>3 DEF Slice

LEMMA SliceAgree ==
  ASSUME NEW s \in Seq(Byte), NEW t \in Seq(Byte), NEW p \in Nat, NEW n \in Nat,
         p + n <= Len(s), p + n <= Len(t), Agree(s, t, p, p + n)
  PROVE  Slice(s, p, p + n) = Slice(t, p, p + n)
<1>1. Len(s) \in Nat /\ Len(t) \in Nat
  OBVIOUS
<1>2. SubSeq(s, p + 1, p + n) = [i \in 1 .. n |-> s[p + i]]
  OBVIOUS
<1>3. SubSeq(t, p + 1, p + n) = [i \in 1 .. n |-> t[p + i]]
  OBVIOUS
<1>4. ASSUME NEW i \in 1 .. n PROVE s[p + i] = t[p + i]
  <2>1. /\ (p + i - 1) + 1 = p + i /\ p + i \in 1 .. Len(s) /\ p + i \in 1 .. Len(t)
        /\ p + i - 1 \in p .. p + n - 1
    BY <1>1
  <2>2. At(s, p + i - 1) = At(t, p + i - 1)
    BY <2>1 DEF Agree
  <2> QED
    BY <2>1, <2>2 DEF At
<1> QED
  BY <1>2, <1>3, <1>4 DEF Slice

----------------------------------------------------------------------------
(* The histories and BodyLength, seen by offsets and sizes *)

\* The histories and the digits of BodyLength as Writer.tla has them.
Outline(section) == [kind |-> section.kind, at |-> section.at, size |-> section.size]
Outlines(s) == [i \in DOMAIN s |-> [kind |-> s[i].kind, at |-> s[i].at, size |-> s[i].size]]
DigitsSay(s, b) ==
  IF b = Null \/ Slice(s, b, b + 6) = Reserved THEN -1 ELSE Unsigned(s, b, b + 6, SizeModulus)

LEMMA OutlinesGrow ==
  ASSUME sections \in Seq(SectionType), NEW x \in SectionType
  PROVE  Outlines(Append(sections, x)) = Append(Outlines(sections), Outline(x))
<1> DEFINE n == Len(sections)
           old == Outlines(sections)
           longer == Append(sections, x)
           new == Outlines(longer)
<1>1. /\ n \in Nat /\ longer \in Seq(SectionType) /\ Len(longer) = n + 1
      /\ \A i \in 1 .. n : longer[i] = sections[i]
      /\ longer[n + 1] = x
  OBVIOUS
<1>2. DOMAIN sections = 1 .. n /\ DOMAIN longer = 1 .. n + 1
  BY <1>1
<1>3. old = [i \in 1 .. n |-> Outline(sections[i])] /\ new = [i \in 1 .. n + 1 |-> Outline(longer[i])]
  BY <1>2 DEF Outlines, Outline
<1> DEFINE e == Outline(x)
           T == [kind : {"header", "field", "trailer"}, at : Nat, size : Nat]
<1>4. e \in T /\ \A i \in 1 .. n : Outline(sections[i]) \in T
  <2>1. \A y \in SectionType : Outline(y) \in T
    BY DEF Outline, SectionType
  <2>2. \A i \in 1 .. n : sections[i] \in SectionType
    OBVIOUS
  <2> QED
    BY <2>1, <2>2
<1> HIDE DEF old, new, longer, n, e, T
<1>5. old \in Seq(T) /\ Len(old) = n
  BY <1>1, <1>3, <1>4
<1> DEFINE more == Append(old, e)
<1>6. /\ more \in Seq(T) /\ Len(more) = n + 1 /\ more[n + 1] = e
      /\ \A i \in 1 .. n : more[i] = old[i]
  BY <1>1, <1>4, <1>5
<1> HIDE DEF more
<1>7. more = [i \in 1 .. n + 1 |-> more[i]]
  BY <1>6
<1>8. ASSUME NEW i \in 1 .. n + 1 PROVE Outline(longer[i]) = more[i]
  <2>1. CASE i = n + 1
    <3>1. Outline(longer[i]) = e
      <4>1. longer[i] = x
        BY <1>1, <2>1
      <4> QED
        BY <4>1, Zenon DEF e
    <3> QED
      BY <1>6, <2>1, <3>1
  <2>2. CASE i \in 1 .. n
    BY <1>1, <1>3, <1>6, <2>2
  <2>3. i = n + 1 \/ i \in 1 .. n
    BY <1>1
  <2> QED
    BY <2>1, <2>2, <2>3
<1>9. new = [i \in 1 .. n + 1 |-> more[i]]
  BY <1>3, <1>8
<1> QED
  BY <1>7, <1>9 DEF new, e, longer, old, more

\* What lies behind BodyLength says nothing of its digits.
LEMMA DigitsStay ==
  ASSUME CallsCounted, NEW s \in Seq(Byte), Len(buffer) <= Len(s), Agree(s, buffer, 0, Len(buffer))
  PROVE  DigitsSay(s, bodyLength) = DigitsSay(buffer, bodyLength)
<1> SUFFICES ASSUME bodyLength # Null PROVE DigitsSay(s, bodyLength) = DigitsSay(buffer, bodyLength)
  BY DEF DigitsSay
<1>1. PICK b \in Nat : b = bodyLength /\ b + 7 <= Len(buffer) /\ Len(buffer) \in Nat /\ Len(s) \in Nat
  BY DEF CallsCounted
<1>2. /\ b + 6 \in Nat /\ b <= b + 6 /\ b + 6 <= Len(buffer) /\ b + 6 <= Len(s)
      /\ \A k \in b .. b + 6 - 1 : k \in 0 .. Len(buffer) - 1
  BY <1>1
<1>3. Agree(s, buffer, b, b + 6)
  BY <1>2 DEF Agree
<1>4. Slice(s, b, b + 6) = Slice(buffer, b, b + 6)
  BY <1>2, <1>3, SliceAgree DEF CallsCounted
<1>5. Unsigned(s, b, b + 6, SizeModulus) = Unsigned(buffer, b, b + 6, SizeModulus)
  BY <1>2, <1>3, UnsignedAgree
<1> QED
  BY <1>1, <1>4, <1>5 DEF DigitsSay

\* The digits the trailer puts there say the size of the body.
LEMMA DigitsPutSay ==
  ASSUME CallsCounted, bodyLength # Null, Countable, NEW s \in Seq(Byte),
         Len(buffer) <= Len(s), Spells(s, bodyLength, Padded(BodySize, 6))
  PROVE  DigitsSay(s, bodyLength) = BodySize
<1>1. PICK b \in Nat : b = bodyLength /\ b + 6 <= Len(s)
  <2>1. bodyLength \in Nat /\ bodyLength + 7 <= Len(buffer) /\ Len(buffer) \in Nat /\ Len(s) \in Nat
    BY DEF CallsCounted
  <2> QED
    BY <2>1
<1>2. PICK n \in Nat : n = BodySize /\ HasSixDigits(n) /\ n < SizeModulus
  <2>1. BodySize \in Nat
    BY BodySizeType
  <2>2. BodySize <= 999999
    BY SMT DEF Countable
  <2>3. SizeModulus \in Nat /\ SizeModulus > 999999
    BY ModulusAssumption, SMT
  <2>4. BodySize < SizeModulus
    BY <2>1, <2>2, <2>3, SMT
  <2> QED
    BY <2>1, <2>2, <2>4, SMT DEF HasSixDigits
<1>3. Spells(s, b, Padded(n, 6))
  BY <1>1, <1>2
<1>4. Slice(s, b, b + 6) # Reserved
  <2> DEFINE t == Padded(n, 6)
  <2>1. t = [i \in 1 .. 6 |-> t[i]] /\ Len(t) = 6 /\ t \in Seq(Digits)
    BY PaddedFunction, SixDigitsType, Zenon
  <2> HIDE DEF t
  <2>5. Spells(s, b, t) /\ 6 \in Nat
    BY <1>3 DEF t
  <2>2. Slice(s, b, b + 6) = t
    BY <1>1, <2>1, <2>5, SliceSpelled, ZenonT(60)
  <2>3. t[1] \in Digits /\ Reserved[1] = 0
    BY <2>1 DEF Reserved
  <2>4. 0 \notin Digits
    BY DEF Digits
  <2> QED
    BY <2>2, <2>3, <2>4
<1>5. Unsigned(s, b, b + 6, SizeModulus) = n
  <2>1. SizeModulus \in Nat
    BY ModulusAssumption, SMT
  <2>2. Tenth(Tenth(Tenth(Tenth(Tenth(Tenth(n)))))) = 0
    BY <1>2, SixTenths, SMT DEF HasSixDigits
  <2> QED
    BY <1>2, <1>3, <2>1, <2>2, SixDigitsRead, ZenonT(60)
<1>6. bodyLength # Null
  OBVIOUS
<1> QED
  BY <1>1, <1>2, <1>4, <1>5, <1>6, Zenon DEF DigitsSay

\* A header leaves its six bytes for them.
LEMMA DigitsReserved ==
  ASSUME CallsCounted, NEW v \in BeginStrings,
         NEW s, s = buffer \o (Front(v) \o Reserved \o <<SOH>>)
  PROVE  DigitsSay(s, Len(buffer) + Len(Front(v))) = -1
<1>1. /\ Front(v) \in Seq(Byte) /\ Len(Front(v)) = Len(v) + 5 /\ Len(v) \in Nat
      /\ Front(v) \o Reserved \o <<SOH>> \in Seq(Byte)
      /\ Len(Front(v) \o Reserved \o <<SOH>>) = Len(v) + 12
  BY FrontType
<1>2. /\ Reserved \in Seq(Byte) /\ Len(Reserved) = 6 /\ <<SOH>> \in Seq(Byte)
      /\ Reserved = [i \in 1 .. 6 |-> Reserved[i]]
  BY DEF Reserved, Byte, SOH
<1>3. buffer \in Seq(Byte) /\ Len(buffer) \in Nat
  BY DEF CallsCounted
<1>4. /\ s \in Seq(Byte) /\ Len(s) = Len(buffer) + (Len(v) + 12)
      /\ Spells(s, Len(buffer), Front(v) \o Reserved \o <<SOH>>)
  BY <1>1, <1>3, AtOfConcat
<1>5. Spells(s, Len(buffer) + Len(Front(v)), Reserved)
  <2>1. Front(v) \o Reserved \in Seq(Byte)
    BY <1>1, <1>2
  <2>2. Spells(s, Len(buffer), Front(v) \o Reserved)
    BY <1>2, <1>3, <1>4, <2>1, SpellsParts
  <2> QED
    BY <1>1, <1>2, <1>3, <2>2, SpellsParts
<1>6. Slice(s, Len(buffer) + Len(Front(v)), (Len(buffer) + Len(Front(v))) + 6) = Reserved
  <2>1. PICK p \in Nat : p = Len(buffer) + Len(Front(v)) /\ p + 6 <= Len(s)
    BY <1>1, <1>3, <1>4
  <2>2. 6 \in Nat
    OBVIOUS
  <2>3. Slice(s, p, p + 6) = Reserved
    BY <1>2, <1>4, <1>5, <2>1, <2>2, SliceSpelled, ZenonT(60)
  <2> QED
    BY <2>1, <2>3
<1> QED
  BY <1>6 DEF DigitsSay

----------------------------------------------------------------------------
(* A call, seen by offsets and sizes *)

\* Writer.tla counts the trailer of try_write_message as one call more.
InCalls == calls < MaxCalls + 1

LEMMA CalledIs == InCalls /\ Called => W!Called
  BY DEF InCalls, Called, W!Called

LEMMA KeptIs ==
  ASSUME UNCHANGED <<buffer, bodyLength, sections>>
  PROVE  UNCHANGED W!bufferVars
  BY DEF W!bufferVars

LEMMA RoomIs == \A need : Room(need) <=> W!Fits(need)
  BY DEF Room, W!Fits

LEMMA PlacedIs ==
  ASSUME CallsCounted, NEW x \in SectionType, x.at = Len(buffer), sections' = Append(sections, x),
         NEW kind, kind = x.kind, NEW size, size = x.size, Len(buffer') = Len(buffer) + size
  PROVE  W!Place(kind, size)
<1>1. Outlines(sections') = Append(Outlines(sections), Outline(x))
  BY OutlinesGrow DEF CallsCounted
<1>2. Outline(x) = [kind |-> kind, at |-> Len(buffer), size |-> size]
  BY DEF Outline
<1> QED
  BY <1>1, <1>2 DEF W!Place, Outlines

LEMMA DigitsAre ==
  /\ DigitsSay(buffer, bodyLength) =
       IF bodyLength = Null \/ Slice(buffer, bodyLength, bodyLength + 6) = Reserved
       THEN -1 ELSE Unsigned(buffer, bodyLength, bodyLength + 6, SizeModulus)
  /\ DigitsSay(buffer', bodyLength') =
       IF bodyLength' = Null \/ Slice(buffer', bodyLength', bodyLength' + 6) = Reserved
       THEN -1 ELSE Unsigned(buffer', bodyLength', bodyLength' + 6, SizeModulus)
  BY DEF DigitsSay

LEMMA DroppedIs ==
  ASSUME Dropped
  PROVE  W!Fail
  BY KeptIs DEF Dropped, W!Fail

\* A field appended is a field placed.
LEMMA FieldIs ==
  ASSUME CallsCounted, InCalls, NEW need, NEW bytes, NEW parts, NEW regular,
         Pushes(need, bytes, parts, regular), PushBack(need, bytes, parts, regular)
  PROVE  W!PushField(need, Len(bytes))
<1>1. W!Called /\ told' = "none"
  BY CalledIs DEF PushBack
<1>2. CASE ~Usable /\ UNCHANGED <<buffer, error, sections>>
  <2>1. UNCHANGED W!bufferVars /\ error' = error /\ error
    BY <1>2, KeptIs DEF PushBack, Usable
  <2> QED
    BY <1>1, <2>1 DEF W!PushField, W!Ignored
<1>3. CASE Usable /\ ~Room(need) /\ Refuse
  <2>1. W!Fail
    BY <1>3, DroppedIs DEF PushBack, Refuse, Dropped
  <2> QED
    BY <1>1, <1>3, <2>1, RoomIs DEF W!PushField, W!Usable, Usable
<1>4. CASE Usable /\ Room(need) /\ AppendSection("field", bytes, parts, regular) /\ UNCHANGED error
  <2> DEFINE x == FieldSection(bytes, parts, regular)
  <2>1. buffer' = buffer \o bytes /\ sections' = Append(sections, x) /\ bodyLength' = bodyLength
    BY <1>4 DEF AppendSection, FieldSection, PushBack
  <2>2. buffer \in Seq(Byte) /\ bytes \in Seq(Byte) /\ parts \in Seq(PartType) /\ regular \in BOOLEAN
    BY DEF CallsCounted, Pushes
  <2>3. Len(buffer) \in Nat /\ Len(bytes) \in Nat /\ Len(buffer') = Len(buffer) + Len(bytes)
    BY <2>1, <2>2
  <2>4. x \in SectionType /\ x.at = Len(buffer) /\ x.size = Len(bytes) /\ x.kind = "field"
    BY <2>2, <2>3 DEF FieldSection, SectionType
  <2> HIDE DEF x
  <2>5. W!Place("field", Len(bytes))
    BY <2>1, <2>3, <2>4, PlacedIs
  <2>6. DigitsSay(buffer', bodyLength') = DigitsSay(buffer, bodyLength)
    <3>1. buffer' \in Seq(Byte) /\ Len(buffer) <= Len(buffer') /\ Agree(buffer', buffer, 0, Len(buffer))
      BY <2>1, <2>2, <2>3, AtOfConcat
    <3> QED
      BY <2>1, <3>1, DigitsStay
  <2>7. W!Usable /\ W!Fits(need) /\ error' = error
    BY <1>4, RoomIs DEF W!Usable, Usable
  <2> QED
    BY <1>1, <2>1, <2>5, <2>6, <2>7, DigitsAre DEF W!PushField
<1> QED
  BY <1>2, <1>3, <1>4 DEF PushBack

----------------------------------------------------------------------------
(* The header and the trailer, seen by offsets and sizes *)

LEMMA HeaderIs ==
  ASSUME CallsCounted, InCalls, NEW v \in BeginStrings, PushBackHeader(v)
  PROVE  W!PushBackHeader(Len(v))
<1> DEFINE bytes == Front(v) \o Reserved \o <<SOH>>
           regular == Len(v) \in 7 .. 10 /\ \A i \in DOMAIN v : v[i] # SOH
<1>1. W!Called /\ told' = "none"
  BY CalledIs DEF PushBackHeader
<1>2. /\ Len(v) \in Nat /\ Len(Front(v)) = Len(v) + 5 /\ bytes \in Seq(Byte)
      /\ Len(bytes) = Len(v) + 12 /\ buffer \in Seq(Byte) /\ Len(buffer) \in Nat
  BY FrontType DEF CallsCounted
<1>3. Room(Len(Front(v)) + 7) <=> W!Fits(2 + Len(v) + 3 + W!BodyArea)
  <2>1. Len(Front(v)) + 7 = 2 + Len(v) + 3 + W!BodyArea
    BY <1>2 DEF W!BodyArea
  <2> QED
    BY <2>1, RoomIs
<1>4. bodyLength = Null <=> W!NoHeaderYet
  BY DEF Null, W!Null, W!NoHeaderYet
<1>5. CASE error /\ UNCHANGED <<buffer, bodyLength, error, sections>>
  <2>1. W!Ignored
    BY <1>5, KeptIs DEF W!Ignored
  <2> QED
    BY <1>1, <2>1 DEF W!PushBackHeader
<1>6. CASE ~error /\ (bodyLength # Null \/ ~Room(Len(Front(v)) + 7)) /\ Refuse /\ UNCHANGED bodyLength
  <2>1. W!Fail
    BY <1>6, DroppedIs DEF Refuse, Dropped
  <2> QED
    BY <1>1, <1>3, <1>4, <1>6, <2>1, Zenon DEF W!PushBackHeader, W!Usable
<1>7. CASE /\ ~error /\ bodyLength = Null /\ Room(Len(Front(v)) + 7)
           /\ AppendSection("header", bytes, <<>>, regular)
           /\ bodyLength' = Len(buffer) + Len(Front(v)) /\ UNCHANGED error
  <2> DEFINE x == [kind |-> "header", at |-> Len(buffer), size |-> Len(bytes), fields |-> <<>>,
                   regular |-> regular]
  <2>1. buffer' = buffer \o bytes /\ sections' = Append(sections, x)
    BY <1>7 DEF AppendSection
  <2>2. x \in SectionType /\ x.at = Len(buffer) /\ x.size = Len(v) + 12 /\ x.kind = "header"
    <3>1. regular \in BOOLEAN
      OBVIOUS
    <3> HIDE DEF regular, bytes
    <3> QED
      BY <1>2, <3>1 DEF SectionType
  <2>3. Len(buffer') = Len(buffer) + (Len(v) + 12)
    <3> HIDE DEF bytes, x, regular
    <3>1. Len(buffer \o bytes) = Len(buffer) + Len(bytes)
      BY <1>2
    <3> QED
      BY <1>2, <2>1, <3>1
  <2>4. DigitsSay(buffer', bodyLength') = -1
    BY <1>7, <2>1, DigitsReserved
  <2>5. DigitsSay(buffer, bodyLength) = -1
    BY <1>7 DEF DigitsSay
  <2> HIDE DEF x, bytes, regular
  <2>6. W!Place("header", Len(v) + 12)
    BY <2>1, <2>2, <2>3, PlacedIs
  <2>7. 2 + Len(v) + 3 + W!BodyArea = Len(v) + 12 /\ bodyLength' = Len(buffer) + 2 + Len(v) + 3
    BY <1>2, <1>7 DEF W!BodyArea
  <2>8. W!Place("header", 2 + Len(v) + 3 + W!BodyArea)
    BY <2>6, <2>7
  <2>9. W!Usable /\ W!NoHeaderYet /\ W!Fits(2 + Len(v) + 3 + W!BodyArea) /\ error' = error
    BY <1>3, <1>4, <1>7 DEF W!Usable
  <2> QED
    BY <1>1, <2>4, <2>5, <2>7, <2>8, <2>9, DigitsAre, Zenon DEF W!PushBackHeader
<1> QED
  BY <1>5, <1>6, <1>7, Zenon DEF PushBackHeader, Front

LEMMA CountableIs ==
  ASSUME CallsCounted, bodyLength # Null
  PROVE  /\ Countable => W!BodySize <= W!MaxBody /\ W!SixDigits(W!BodySize) = BodySize
         /\ ~Countable => W!BodySize > W!MaxBody
<1>1. BodySize \in Nat
  BY BodySizeType
<1>2. W!BodySize = BodySize
  BY DEF BodySize, W!BodySize, W!BodyArea
<1> HIDE DEF BodySize
<1>3. Countable => BodySize <= W!MaxBody /\ BodySize < 1000000
  BY <1>1, SMT DEF Countable, W!MaxBody
<1>4. ~Countable => BodySize > W!MaxBody
  BY <1>1, SMT DEF Countable, W!MaxBody
<1>5. BodySize < 1000000 => BodySize % 1000000 = BodySize
  BY <1>1, SMT
<1>6. W!SixDigits(BodySize) = BodySize % 1000000
  BY <1>1, SMT DEF W!SixDigits
<1> QED
  BY <1>2, <1>3, <1>4, <1>5, <1>6, SMT

LEMMA TrailerIs ==
  ASSUME CallsCounted, InCalls, PushBackTrailer
  PROVE  W!PushBackTrailer
<1>1. W!Called /\ UNCHANGED bodyLength
  BY CalledIs DEF PushBackTrailer
<1>2. bodyLength = Null <=> W!NoHeaderYet
  BY DEF Null, W!Null, W!NoHeaderYet
<1>3. Room(TrailerRoom) <=> W!Fits(W!TrailerSize)
  BY RoomIs DEF TrailerRoom, W!TrailerSize
<1>4. CASE (error \/ bodyLength = Null \/ ~Countable) /\ Refuse /\ told' = "failed"
  <2>1. W!Fail
    BY <1>1, <1>4, DroppedIs DEF Refuse, Dropped
  <2>2. CASE error
    <3>1. W!Ignored
      BY <2>1, <2>2 DEF W!Ignored, W!Fail, CallsCounted
    <3> QED
      BY <1>1, <1>4, <3>1 DEF W!PushBackTrailer, W!TrailerRefused
  <2>3. CASE ~error
    <3>1. W!NoHeaderYet \/ (~W!NoHeaderYet /\ W!BodySize > W!MaxBody)
      BY <1>2, <1>4, <2>3, CountableIs, Zenon
    <3> QED
      BY <1>1, <1>4, <2>1, <2>3, <3>1, Zenon DEF W!PushBackTrailer, W!TrailerRefused, W!Usable
  <2> QED
    BY <2>2, <2>3
<1>5. CASE /\ ~error /\ bodyLength # Null /\ Countable /\ ~Room(TrailerRoom)
           /\ buffer' = Patched
           /\ error' = TRUE /\ UNCHANGED sections /\ told' = "failed"
  <2>1. buffer' \in Seq(Byte) /\ Len(buffer') = Len(buffer) /\ Len(buffer) <= Len(buffer')
        /\ Spells(buffer', bodyLength, Padded(BodySize, 6))
    BY <1>5, PatchedType, BodySizeType
  <2>2. DigitsSay(buffer', bodyLength') = BodySize
    BY <1>1, <1>5, <2>1, DigitsPutSay
  <2>3. /\ W!Usable /\ ~W!NoHeaderYet /\ W!BodySize <= W!MaxBody /\ ~W!Fits(W!TrailerSize)
        /\ W!SixDigits(W!BodySize) = BodySize
    BY <1>2, <1>3, <1>5, CountableIs, Zenon DEF W!Usable
  <2> HIDE DEF BodySize
  <2>4. W!TrailerRefused
    BY <1>1, <1>5, <2>1, <2>2, <2>3, DigitsAre, Zenon DEF W!TrailerRefused
  <2> QED
    BY <1>1, <2>4 DEF W!PushBackTrailer
<1>6. CASE /\ ~error /\ bodyLength # Null /\ Countable /\ Room(TrailerRoom)
           /\ buffer' = Patched \o FieldText(10, Padded(Sum, 3))
           /\ sections' = Append(sections, TrailerSection(Padded(Sum, 3)))
           /\ UNCHANGED error /\ told' = "ok"
  <2>1. /\ Patched \in Seq(Byte) /\ Len(Patched) = Len(buffer) /\ Len(buffer) \in Nat
        /\ Spells(Patched, bodyLength, Padded(BodySize, 6)) /\ bodyLength \in Nat
        /\ bodyLength + 7 <= Len(buffer)
    BY <1>6, PatchedType, BodySizeType DEF CallsCounted
  <2>2. FieldText(10, Padded(Sum, 3)) \in Seq(Byte) /\ Len(FieldText(10, Padded(Sum, 3))) = 7
    BY <1>6, TrailerTextType
  <2>3. /\ buffer' \in Seq(Byte) /\ Len(buffer') = Len(buffer) + 7
        /\ Agree(buffer', Patched, 0, Len(Patched))
    BY <1>6, <2>1, <2>2, AtOfConcat
  <2>4. Spells(buffer', bodyLength, Padded(BodySize, 6))
    <3>1. Len(Padded(BodySize, 6)) = 6
      BY <1>6, BodySizeType, SixDigitsType
    <3>2. /\ 0 <= bodyLength /\ 0 \in Nat /\ Len(Patched) \in Nat /\ 6 \in Nat
          /\ bodyLength + 6 <= Len(Patched)
      BY <2>1
    <3> QED
      BY <2>1, <2>3, <3>1, <3>2, SpellsAgree
  <2>5. DigitsSay(buffer', bodyLength') = BodySize
    <3>1. Len(buffer) <= Len(buffer')
      BY <2>1, <2>3
    <3> QED
      BY <1>1, <1>6, <2>3, <2>4, <3>1, DigitsPutSay
  <2>6. /\ W!Usable /\ ~W!NoHeaderYet /\ W!BodySize <= W!MaxBody /\ W!Fits(W!TrailerSize)
        /\ W!SixDigits(W!BodySize) = BodySize
    BY <1>2, <1>3, <1>6, CountableIs, Zenon DEF W!Usable
  <2>7. W!Place("trailer", W!TrailerSize)
    <3> DEFINE x == TrailerSection(Padded(Sum, 3))
    <3>1. x \in SectionType
      BY <1>6, TrailerSectionType
    <3>2. x.at = Len(buffer) /\ x.kind = "trailer" /\ x.size = W!TrailerSize /\ W!TrailerSize = 7
      BY DEF TrailerSection, TrailerRoom, W!TrailerSize
    <3>3. sections' = Append(sections, x)
      BY <1>6
    <3> HIDE DEF x
    <3> QED
      BY <2>3, <3>1, <3>2, <3>3, PlacedIs
  <2> HIDE DEF BodySize
  <2>8. W!TrailerWritten
    BY <1>1, <1>6, <2>5, <2>6, <2>7, DigitsAre, Zenon DEF W!TrailerWritten
  <2> QED
    BY <1>1, <2>8 DEF W!PushBackTrailer
<1> QED
  BY <1>4, <1>5, <1>6, Zenon DEF PushBackTrailer, TrailerSection

----------------------------------------------------------------------------
(* The writer implements Writer *)

LEMMA WidestTag == W!TagNeed = 12 /\ W!MaxChars(9) = 11
  BY DEF W!TagNeed, W!MaxChars

LEMMA StringIs ==
  ASSUME CallsCounted, InCalls, NEW f \in Strings, PushBackString(f)
  PROVE  W!PushBackString(Len(Numeral[f.tag]), Len(f.value))
<1>1. f.tag \in Nat /\ f.value \in Seq(Byte) /\ Len(buffer) \in Nat
  BY PushesAssumption DEF Prints, CallsCounted
<1>2. W!PushField(12 + Len(f.value) + 1, Len(FieldText(f.tag, f.value)))
  <2>1. Pushes(12 + Len(f.value) + 1, FieldText(f.tag, f.value),
               <<Placed(f.tag, f.value, Len(buffer))>>, Plain(f.tag, f.value))
    BY <1>1, StringPushes
  <2> QED
    BY <2>1, FieldIs, Zenon DEF PushBackString
<1>3. Len(FieldText(f.tag, f.value)) = Len(Numeral[f.tag]) + 1 + Len(f.value) + 1
  BY <1>1, FieldTextType
<1> QED
  BY <1>2, <1>3, WidestTag DEF W!PushBackString

LEMMA IntIs ==
  ASSUME CallsCounted, InCalls, NEW f \in Ints, PushBackInt(f)
  PROVE  W!PushBackInt(Len(Numeral[f.tag]),
                       [digits10 |-> 9, neg |-> f.value < 0, digits |-> Len(Numeral[Size(f.value)])])
<1> DEFINE value == Itoa(f.value)
           n == [digits10 |-> 9, neg |-> f.value < 0, digits |-> Len(Numeral[Size(f.value)])]
<1>1. f.tag \in Nat /\ f.value \in Int /\ Len(Numeral[Size(f.value)]) <= 10 /\ Len(buffer) \in Nat
  BY PushesAssumption DEF Prints, CallsCounted
<1>2. W!PushField(12 + 11 + 1, Len(FieldText(f.tag, value)))
  <2>1. Pushes(12 + 11 + 1, FieldText(f.tag, value),
               <<Placed(f.tag, value, Len(buffer))>>, Plain(f.tag, value))
    BY <1>1, IntPushes
  <2> QED
    BY <2>1, FieldIs, Zenon DEF PushBackInt
<1>3. value \in Seq(Byte) /\ Len(value) = (IF f.value < 0 THEN 1 ELSE 0) + Len(Numeral[Size(f.value)])
      /\ Size(f.value) \in Nat
  <2>1. 10 \in Nat
    OBVIOUS
  <2> QED
    BY <1>1, <2>1, ItoaType
<1> HIDE DEF value
<1>4. Len(FieldText(f.tag, value)) = Len(Numeral[f.tag]) + 1 + Len(value) + 1
  BY <1>1, <1>3, FieldTextType
<1>5. Len(value) = W!IntSize(n)
  <2>1. PICK k \in Nat : k = Len(Numeral[Size(f.value)])
    BY <1>3, NumeralType
  <2>2. Len(value) = (IF f.value < 0 THEN 1 ELSE 0) + k
    BY <1>3, <2>1
  <2>3. W!IntSize(n) = k + (IF f.value < 0 THEN 1 ELSE 0)
    BY <2>1, Zenon DEF W!IntSize, n
  <2>4. CASE f.value < 0
    <3>1. Len(value) = 1 + k /\ W!IntSize(n) = k + 1
      BY <2>2, <2>3, <2>4
    <3> QED
      BY <2>1, <3>1
  <2>5. CASE ~(f.value < 0)
    <3>1. Len(value) = 0 + k /\ W!IntSize(n) = k + 0
      BY <2>2, <2>3, <2>5
    <3> QED
      BY <2>1, <3>1
  <2> QED
    BY <2>4, <2>5
<1>6. W!TagNeed + W!MaxChars(n.digits10) + 1 = 12 + 11 + 1
  BY WidestTag
<1> HIDE DEF n
<1>7. W!PushBackInt(Len(Numeral[f.tag]), n)
  BY <1>2, <1>4, <1>5, <1>6 DEF W!PushBackInt
<1> QED
  BY <1>7 DEF n

LEMMA DataIs ==
  ASSUME CallsCounted, InCalls, NEW d \in Data, PushBackData(d)
  PROVE  W!PushBackData(Len(Numeral[d.lengthTag]), Len(Numeral[d.tag]), Len(d.value))
<1>1. /\ d.lengthTag \in Nat /\ d.tag \in Nat /\ d.value \in Seq(Byte) /\ Len(d.value) \in Nat
      /\ Len(Numeral[Len(d.value)]) <= 10 /\ Len(buffer) \in Nat
  BY PushesAssumption DEF Prints, CallsCounted
<1> DEFINE length == FieldText(d.lengthTag, Itoa(Len(d.value)))
           bytes == length \o FieldText(d.tag, d.value)
<1>2. W!PushField(12 + 11 + 1 + 12 + Len(d.value) + 1, Len(bytes))
  <2>1. Pushes(12 + 11 + 1 + 12 + Len(d.value) + 1, bytes,
               <<Placed(d.tag, d.value, Len(buffer) + Len(length))>>, Announced(d))
    BY <1>1, DataPushes
  <2> QED
    BY <2>1, FieldIs, Zenon DEF PushBackData
<1>3. /\ length \in Seq(Byte)
      /\ Len(length) = Len(Numeral[d.lengthTag]) + 1 + Len(Numeral[Len(d.value)]) + 1
  <2>1. length = FieldText(d.lengthTag, Numeral[Len(d.value)])
    BY <1>1, ItoaOfCount
  <2>2. Numeral[Len(d.value)] \in Seq(Byte)
    BY <1>1, NumeralBytes
  <2> HIDE DEF length
  <2> QED
    BY <1>1, <2>1, <2>2, FieldTextType
<1>4. /\ FieldText(d.tag, d.value) \in Seq(Byte)
      /\ Len(FieldText(d.tag, d.value)) = Len(Numeral[d.tag]) + 1 + Len(d.value) + 1
  BY <1>1, FieldTextType
<1>5. Len(bytes) = Len(length) + Len(FieldText(d.tag, d.value))
  <2> HIDE DEF length
  <2> QED
    BY <1>3, <1>4, AtOfConcat
<1>6. W!CountSize(Len(d.value)) = Len(Numeral[Len(d.value)])
  BY <1>1, CountSizeIs
<1> HIDE DEF length, bytes
<1>7. /\ Len(Numeral[d.lengthTag]) \in Nat /\ Len(Numeral[d.tag]) \in Nat
      /\ Len(Numeral[Len(d.value)]) \in Nat
  BY <1>1, NumeralType
<1>8. Len(bytes) = Len(Numeral[d.lengthTag]) + 1 + W!CountSize(Len(d.value)) + 1
                     + Len(Numeral[d.tag]) + 1 + Len(d.value) + 1
  <2>1. PICK a, b, c, n \in Nat :
          /\ a = Len(Numeral[d.lengthTag]) /\ b = Len(Numeral[Len(d.value)])
          /\ c = Len(Numeral[d.tag]) /\ n = Len(d.value)
    BY <1>1, <1>7
  <2>2. Len(length) = a + 1 + b + 1 /\ Len(FieldText(d.tag, d.value)) = c + 1 + n + 1
    BY <1>3, <1>4, <2>1
  <2>3. Len(bytes) = (a + 1 + b + 1) + (c + 1 + n + 1)
    BY <1>5, <2>2
  <2>4. (a + 1 + b + 1) + (c + 1 + n + 1) = a + 1 + b + 1 + c + 1 + n + 1
    OBVIOUS
  <2> QED
    BY <1>6, <2>1, <2>3, <2>4
<1>9. W!TagNeed + W!MaxChars(9) + 1 + W!TagNeed + Len(d.value) + 1
        = 12 + 11 + 1 + 12 + Len(d.value) + 1
  BY WidestTag
<1> QED
  BY <1>2, <1>8, <1>9 DEF W!PushBackData

LEMMA BodyIsWriter ==
  ASSUME CallsCounted, InCalls, Body
  PROVE  W!Next
<1>1. CASE \E v \in BeginStrings : PushBackHeader(v)
  <2>1. PICK v \in BeginStrings : PushBackHeader(v)
    BY <1>1
  <2>2. W!PushBackHeader(Len(v))
    BY <2>1, HeaderIs
  <2> QED
    BY <2>2, Zenon DEF W!Next
<1>2. CASE \E f \in Strings : PushBackString(f)
  <2>1. PICK f \in Strings : PushBackString(f)
    BY <1>2
  <2>2. W!PushBackString(Len(Numeral[f.tag]), Len(f.value))
    BY <2>1, StringIs
  <2>3. W!PushBackAny
    BY <2>2, Zenon DEF W!PushBackAny
  <2> QED
    BY <2>3, Zenon DEF W!Next
<1>3. CASE \E f \in Ints : PushBackInt(f)
  <2>1. PICK f \in Ints : PushBackInt(f)
    BY <1>3
  <2>2. W!PushBackInt(Len(Numeral[f.tag]),
                      [digits10 |-> 9, neg |-> f.value < 0, digits |-> Len(Numeral[Size(f.value)])])
    BY <2>1, IntIs
  <2>3. W!PushBackAny
    BY <2>2, Zenon DEF W!PushBackAny
  <2> QED
    BY <2>3, Zenon DEF W!Next
<1>4. CASE \E d \in Data : PushBackData(d)
  <2>1. PICK d \in Data : PushBackData(d)
    BY <1>4
  <2>2. W!PushBackData(Len(Numeral[d.lengthTag]), Len(Numeral[d.tag]), Len(d.value))
    BY <2>1, DataIs
  <2>3. W!PushBackAny
    BY <2>2, Zenon DEF W!PushBackAny
  <2> QED
    BY <2>3, Zenon DEF W!Next
<1>5. CASE PushBackTrailer
  BY <1>5, TrailerIs, Zenon DEF W!Next
<1> QED
  BY <1>1, <1>2, <1>3, <1>4, <1>5, Zenon DEF Body

\* The body makes its calls, and try_write_message one more.
InBounds == calls <= MaxCalls + 1 /\ (status = "writing" => calls <= MaxCalls)

LEMMA InBoundsInit == WRInit => InBounds
  BY CallsAssumption DEF WRInit, InBounds

LEMMA InBoundsKept == Accounted /\ InBounds /\ [WRNext]_allVars => InBounds'
<1> SUFFICES ASSUME Accounted, InBounds, [WRNext]_allVars PROVE InBounds'
  OBVIOUS
<1>0. calls \in Nat /\ MaxCalls \in Nat
  BY CallsAssumption DEF Accounted, CallsCounted
<1>1. CASE Body
  <2>1. calls' = calls + 1 /\ calls < MaxCalls /\ status' = status
    BY <1>1, BodySteps DEF Accounted, Body, Called
  <2> QED
    BY <1>0, <2>1 DEF InBounds
<1>2. CASE TryWriteMessage
  <2>1. calls' = calls + 1 /\ status = "writing" /\ status' # "writing"
    BY <1>2, TrailerSteps DEF Accounted, TryWriteMessage, Called
  <2> QED
    BY <1>0, <2>1 DEF InBounds
<1>3. CASE OpenReader
  BY <1>3 DEF OpenReader, writerVars, InBounds
<1>4. CASE Increment
  BY <1>4 DEF Increment, writerVars, InBounds
<1>5. CASE UNCHANGED allVars
  BY <1>5 DEF allVars, writerVars, InBounds
<1> QED
  BY <1>1, <1>2, <1>3, <1>4, <1>5 DEF WRNext

LEMMA InitIs == WRInit => W!Init
<1> SUFFICES ASSUME WRInit PROVE W!Init
  OBVIOUS
<1>1. /\ cap \in Capacities /\ buffer = <<>> /\ bodyLength = Null /\ error = FALSE
      /\ sections = <<>> /\ calls = 0 /\ told = "none"
  BY DEF WRInit
<1>2. Outlines(sections) = <<>> /\ Len(buffer) = 0
  BY <1>1 DEF Outlines
<1>3. DigitsSay(buffer, bodyLength) = -1
  BY <1>1 DEF DigitsSay
<1> QED
  BY <1>1, <1>2, <1>3, DigitsAre DEF W!Init, Outlines, Null, W!Null, W!Unset

LEMMA StepIs ==
  Accounted /\ InBounds /\ [WRNext]_allVars => [W!Next]_(W!vars)
<1> SUFFICES ASSUME Accounted, InBounds, [WRNext]_allVars PROVE [W!Next]_(W!vars)
  OBVIOUS
<1>1. CallsCounted /\ calls \in Nat /\ MaxCalls \in Nat
  BY CallsAssumption DEF Accounted, CallsCounted
<1>2. CASE Body
  <2>1. InCalls
    BY <1>1, <1>2 DEF Body, InBounds, InCalls
  <2> QED
    BY <1>1, <1>2, <2>1, BodyIsWriter
<1>3. CASE TryWriteMessage
  <2>1. InCalls
    BY <1>1, <1>3 DEF TryWriteMessage, InBounds, InCalls
  <2>2. W!PushBackTrailer
    BY <1>1, <1>3, <2>1, TrailerIs DEF TryWriteMessage
  <2> QED
    BY <2>2, Zenon DEF W!Next
<1>4. ASSUME UNCHANGED writerVars PROVE UNCHANGED W!vars
  BY <1>4 DEF writerVars, W!vars
<1>5. CASE OpenReader
  BY <1>4, <1>5 DEF OpenReader
<1>6. CASE Increment
  BY <1>4, <1>6 DEF Increment
<1>7. CASE UNCHANGED allVars
  BY <1>4, <1>7 DEF allVars
<1> QED
  BY <1>2, <1>3, <1>5, <1>6, <1>7 DEF WRNext

\* ImplementsWriter: every step of message_writer, of try_write_message and of
\* the reader is, by offsets and sizes, a call of Writer.tla or none: the same
\* calls are refused, the same fields are placed, and BodyLength's digits say
\* what Writer declares; for every tag, value and capacity.
THEOREM WritesAsWriter == WRSpec => ImplementsWriter
<1> QED
  BY InitIs, InBoundsInit, InBoundsKept, StepIs, WriterAccounted, PTL
     DEF WRSpec, ImplementsWriter, W!Spec
============================================================================
