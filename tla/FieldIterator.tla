--------------------------- MODULE FieldIterator ---------------------------
(***************************************************************************)
(* Iteration over the fields of one valid message:                         *)
(* basic_message_reader_const_iterator::increment(), from begin() as the   *)
(* reader leaves it to end(), the checksum field.  Offsets count from the  *)
(* message's first byte.                                                   *)
(***************************************************************************)
EXTENDS Framing

CONSTANTS
  Messages,     \* what a reader may hold: [bytes, written]
  LengthTags,   \* length_fields: the tags whose value counts the data behind it
  BitmapSize,   \* kBitmapSize: tags below it are looked up in a bitmap
  TagModulus    \* 2^32 in the code: a tag is read into an unsigned int

\* begin() and end() may be asked of valid messages only.
Whole(m) == Verdict(m.bytes, 0, Len(m.bytes))

ASSUME MessagesAssumption ==
  \A m \in Messages : m.bytes \in Seq(Byte) /\ IsFrame(Whole(m))
ASSUME TagAssumption ==
  /\ TagModulus \in Nat \ {0}
  /\ BitmapSize \in Nat
  /\ LengthTags \subseteq 0 .. TagModulus - 1

\* A field written at p, tag=value|, with any tag.
Free(m, i, j, bytes) == \A k \in i .. j - 1 : At(m.bytes, k) \notin bytes
IsPart(m, p, f) ==
  /\ f.from \in p + 1 .. f.to
  /\ Free(m, p, f.from - 1, {Equals, SOH}) /\ At(m.bytes, f.from - 1) = Equals
  /\ f.tag = Unsigned(m.bytes, p, f.from - 1, TagModulus)
  /\ Free(m, f.from, f.to, {SOH}) /\ At(m.bytes, f.to) = SOH
IsText(m, p, f) == IsPart(m, p, f) /\ f.tag \notin LengthTags

\* A length and, behind it, as many bytes of data as it says, of any kind.
IsData(m, p, f) ==
  \E length \in [tag : LengthTags, from : p .. f.from, to : p .. f.from] :
    /\ IsPart(m, p, length)
    /\ f.from \in length.to + 2 .. f.to
    /\ Free(m, length.to + 1, f.from - 1, {Equals}) /\ At(m.bytes, f.from - 1) = Equals
    /\ f.tag = Unsigned(m.bytes, length.to + 1, f.from - 1, TagModulus)
    /\ f.to - f.from = Unsigned(m.bytes, length.from, length.to, SizeModulus)

\* A message written by the rules names the fields its writer put in, as
\* [tag, from, to]: MsgType, then one behind the other up to the checksum
\* field.  In one that breaks them (written is empty) anything may stand there.
KeepsTheRules(m) ==
  LET n == Len(m.written)
      v == Whole(m)
  IN  /\ n \in Nat \ {0}
      /\ m.written[1] = [tag |-> 35, from |-> v.body + 3, to |-> v.typeEnd]
      /\ \A i \in 1 .. n : m.written[i] \in [tag : Nat, from : Nat, to : 0 .. v.checksum - 1]
      /\ \A i \in 2 .. n : \/ IsText(m, m.written[i - 1].to + 1, m.written[i])
                           \/ IsData(m, m.written[i - 1].to + 1, m.written[i])
      /\ m.written[n].to = v.checksum - 1
      /\ IsText(m, v.checksum, [tag |-> 10, from |-> v.end - 4, to |-> v.end - 1])
ASSUME WrittenAssumption ==
  \A m \in Messages : m.written # <<>> => KeepsTheRules(m)

VARIABLES
  msg,          \* the message
  messageEnd,   \* message_end_ of the iterator
  field,        \* its buffer_, and the tag and value of the current field
  seen          \* history: the fields the loop `i != end(); ++i` has visited

vars == <<msg, messageEnd, field, seen>>

EndField   == messageEnd - 7              \* buffer_ of end()
AtEnd      == field.at = EndField         \* operator== compares buffer_ only

Field(at, tag, from, to) == [at |-> at, tag |-> tag, from |-> from, to |-> to]
Visit(f) == [tag |-> f.tag, from |-> f.from, to |-> f.to]

Init ==
  /\ msg \in Messages
  /\ messageEnd = Whole(msg).end
  /\ field = Field(Whole(msg).body, 35, Whole(msg).body + 3, Whole(msg).typeEnd)
  /\ seen = <<Visit(field)>>

----------------------------------------------------------------------------
(* Where the next field's parts are *)

\* The next field begins behind the SOH that ends this one.  Faulty: at it.
NextFieldAtSOH    == field.to
NextField         == field.to + 1

\* From a position on: the first '=' or SOH, the first '=' alone, and the
\* first SOH before the message's end.
SeparatorFrom[i \in Nat] ==
  FirstIn({j \in i .. messageEnd - 1 : At(msg.bytes, j) = Equals \/ At(msg.bytes, j) = SOH},
          i, messageEnd)
EqualsFrom[i \in Nat] ==
  FirstIn({j \in i .. messageEnd - 1 : At(msg.bytes, j) = Equals}, i, messageEnd)
SOHFrom[i \in Nat] == FindSOH(msg.bytes, i, messageEnd)

\* utag = utag * 10u + (c - '0'), whatever the bytes are.  Faulty: the
\* arithmetic of size_t.
WideTag(i, j)   == Unsigned(msg.bytes, i, j, SizeModulus)
TagNumber(i, j) == Unsigned(msg.bytes, i, j, TagModulus)
LengthNumber(i, j) == Unsigned(msg.bytes, i, j, SizeModulus)

\* is_tag_a_data_length: the bitmap, or a search of the tags beyond it.
\* Faulty: only the bitmap.
InBitmap(tag)     == tag < BitmapSize /\ tag \in LengthTags
IsDataLength(tag) == InBitmap(tag) \/ (tag >= BitmapSize /\ tag \in LengthTags)

\* data_len <= message_end_ - p.  Faulty: counted from the message's start.
DataFitsTheMessage(length, p) == length \in 0 .. messageEnd
DataFits(length, p)         == length \in 0 .. messageEnd - p

\* set_at_end: the field that end() is.
CheckSumField == Field(EndField, 10, messageEnd - 4, messageEnd - 1)

----------------------------------------------------------------------------
(* increment() *)

MoveTo(f) ==
  /\ field' = f
  /\ seen' = IF AtEnd \/ field'.at \in {EndField, field.at} THEN seen ELSE Append(seen, Visit(field'))
  /\ UNCHANGED <<msg, messageEnd>>

Separator == SeparatorFrom[NextField]
Tag       == TagNumber(NextField, Separator)
ValueEnd  == SOHFrom[Separator + 1]

\* Nothing but the rest of the message is left of the field.
NoSeparator == Separator >= messageEnd /\ MoveTo(CheckSumField)

\* A field without '=' has an empty value.
NoValue ==
  /\ Separator < messageEnd /\ At(msg.bytes, Separator) = SOH
  /\ MoveTo(Field(NextField, Tag, Separator, Separator))

HasValue == Separator < messageEnd /\ At(msg.bytes, Separator) # SOH

PlainField ==
  /\ HasValue /\ ~IsDataLength(Tag)
  /\ MoveTo(Field(NextField, Tag, Separator + 1, ValueEnd))

\* A length and the data behind it are one field, with the tag of the data and
\* as many bytes as the length says, SOH among them or not.
DataTagBegin == ValueEnd + 1
DataBegin    == EqualsFrom[DataTagBegin] + 1
DataLength   == LengthNumber(Separator + 1, ValueEnd)
DataIsThere  == DataBegin - 1 < messageEnd /\ DataFits(DataLength, DataBegin)

DataField ==
  /\ HasValue /\ IsDataLength(Tag) /\ DataIsThere
  /\ MoveTo(Field(DataTagBegin, TagNumber(DataTagBegin, DataBegin - 1),
                  DataBegin, DataBegin + DataLength))

\* No field follows the length, or not as much data as it says.
NoData ==
  /\ HasValue /\ IsDataLength(Tag) /\ ~DataIsThere
  /\ MoveTo(CheckSumField)

Next == NoSeparator \/ NoValue \/ PlainField \/ DataField \/ NoData

\* `for (; i != end(); ++i)` in one thread keeps incrementing.  Increments
\* past the end are not excluded: operator+ makes them.
Spec == Init /\ [][Next]_vars /\ WF_vars(Next)

----------------------------------------------------------------------------
(* Properties *)

TypeOK ==
  /\ msg.bytes \in Seq(Byte)
  /\ messageEnd \in 0 .. Len(msg.bytes)
  /\ field.at \in Nat /\ field.from \in Nat /\ field.to \in Nat
  /\ field.tag \in 0 .. TagModulus - 1 \cup {35, 10}
  /\ Len(seen) \in Nat \ {0}

\* Whatever the bytes of the message, the value handed out lies in it.
ValueInMessage == field.at <= field.from /\ field.from <= field.to /\ field.to <= messageEnd

\* Of a message written by the rules, with any bytes in its data fields, the
\* loop visits the fields that were written and no others, in order.
SeesTheFields ==
  msg.written # <<>> =>
    /\ Len(seen) <= Len(msg.written)
    /\ \A i \in 1 .. Len(seen) : seen[i] = msg.written[i]
    /\ AtEnd => Len(seen) = Len(msg.written)
=============================================================================
