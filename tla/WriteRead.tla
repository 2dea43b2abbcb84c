----------------------------- MODULE WriteRead -----------------------------
(***************************************************************************)
(* A message written by try_write_message, byte for byte, and read back:   *)
(* the writer's bytes, the reader's verdict on them, its checksum and      *)
(* prefix, and the iterator over the fields.  Writer.tla has all of the    *)
(* writer's functions by the sizes of what they write; the ones here stand *)
(* for those of the other values, whose texts Values.tla prints.           *)
(*                                                                         *)
(* A behavior begins with a message to be written or, as in FieldIterator, *)
(* with one that was received.                                             *)
(***************************************************************************)
EXTENDS FieldIterator, Numbers, FiniteSets

CONSTANTS
  Capacities,    \* sizes of the span given to try_write_message
  BeginStrings,  \* what the body may pass to push_back_header
  Strings,       \* to push_back_string: [tag, value]
  Ints,          \* to push_back_int: [tag, value]
  Data,          \* to push_back_data: [lengthTag, tag, value]
  MaxCalls       \* bound: calls the body makes

\* An int, or its absolute value, prints as ten digits at most; data of more
\* bytes than an int counts is not pushed.
Prints(n) == n \in Nat /\ Len(Numeral[n]) <= 10
ASSUME PushesAssumption ==
  /\ BeginStrings \subseteq Seq(Byte)
  /\ \A f \in Strings : Prints(f.tag) /\ f.value \in Seq(Byte)
  /\ \A f \in Ints : Prints(f.tag) /\ f.value \in Int /\ Prints(Size(f.value))
  /\ \A d \in Data : /\ Prints(d.lengthTag) /\ Prints(d.tag)
                      /\ d.value \in Seq(Byte) /\ Prints(Len(d.value))
\* The size of a span is a size_t.
ASSUME CapacitiesAssumption == Capacities \subseteq 0 .. SizeModulus - 1
ASSUME CallsAssumption == MaxCalls \in Nat

VARIABLES
  cap,         \* buffer_end_ - buffer_
  buffer,      \* the bytes from buffer_ to next_
  bodyLength,  \* body_length_ - buffer_, or Null
  error,       \* error_
  told,        \* what the last call returned
  status,      \* "writing", then "refused" or "written", "unreadable" or "reading"
  endOut,      \* end_out, or Null
  sections,    \* history: [kind, at, size, fields, regular]
  calls        \* history: calls made on the writer

readerVars == <<msg, messageEnd, field, seen>>
writerVars == <<cap, buffer, bodyLength, error, told, endOut, sections, calls>>
allVars    == <<readerVars, writerVars, status>>

Null == -1

----------------------------------------------------------------------------
(* The writer *)

Called == calls' = calls + 1 /\ UNCHANGED cap
Room(size) == cap - Len(buffer) >= size

\* A field as bytes, and where its value is when it is put at a position.
FieldText(tag, value) == Numeral[tag] \o <<Equals>> \o value \o <<SOH>>
Placed(tag, value, at) ==
  LET from == at + Len(Numeral[tag]) + 1
  IN  [tag |-> tag, from |-> from, to |-> from + Len(value)]

\* The field can be told from the bytes around it: its value has no separator,
\* and its tag does not announce data.
Plain(tag, value) ==
  tag \in 1 .. TagModulus - 1 /\ tag \notin LengthTags /\ \A i \in DOMAIN value : value[i] # SOH
Announced(d) == d.lengthTag \in LengthTags /\ d.tag \in 1 .. TagModulus - 1

AppendSection(kind, bytes, parts, regular) ==
  /\ buffer' = buffer \o bytes
  /\ sections' = Append(sections, [kind |-> kind, at |-> Len(buffer), size |-> Len(bytes),
                                   fields |-> parts, regular |-> regular])

Refuse == error' = TRUE /\ UNCHANGED <<buffer, sections>>

\* Faulty: a writer that has failed goes on with what fits.
Resuming == TRUE
Usable   == ~error

\* A push_back function that appends: checked against the widest it may need.
PushBack(need, bytes, parts, regular) ==
  /\ Called
  /\ told' = "none"
  /\ \/ ~Usable /\ UNCHANGED <<buffer, error, sections>>
     \/ Usable /\ ~Room(need) /\ Refuse
     \/ Usable /\ Room(need) /\ AppendSection("field", bytes, parts, regular) /\ UNCHANGED error
  /\ UNCHANGED bodyLength

\* Eleven characters are the widest an int prints as.
PushBackString(f) ==
  PushBack(12 + Len(f.value) + 1, FieldText(f.tag, f.value),
           <<Placed(f.tag, f.value, Len(buffer))>>, Plain(f.tag, f.value))
PushBackInt(f) ==
  LET value == Itoa(f.value)
  IN  PushBack(12 + 11 + 1, FieldText(f.tag, value),
               <<Placed(f.tag, value, Len(buffer))>>, Plain(f.tag, value))

\* The iterator makes one field of the length and the data.
PushBackData(d) ==
  LET length == FieldText(d.lengthTag, Itoa(Len(d.value)))
  IN  PushBack(12 + 11 + 1 + 12 + Len(d.value) + 1, length \o FieldText(d.tag, d.value),
               <<Placed(d.tag, d.value, Len(buffer) + Len(length))>>, Announced(d))

\* The six bytes of BodyLength are left as they are; these stand for anything.
Reserved == [i \in 1 .. 6 |-> 0]

PushBackHeader(v) ==
  LET front == <<56, Equals>> \o v \o <<SOH, 57, Equals>>
  IN  /\ Called
      /\ told' = "none"
      /\ \/ error /\ UNCHANGED <<buffer, bodyLength, error, sections>>
         \/ /\ ~error /\ (bodyLength # Null \/ ~Room(Len(front) + 7))
            /\ Refuse /\ UNCHANGED bodyLength
         \/ /\ ~error /\ bodyLength = Null /\ Room(Len(front) + 7)
            /\ AppendSection("header", front \o Reserved \o <<SOH>>, <<>>,
                       Len(v) \in 7 .. 10 /\ \A i \in DOMAIN v : v[i] # SOH)
            /\ bodyLength' = Len(buffer) + Len(front)
            /\ UNCHANGED error

\* details::checksum_bytes of the first bytes of a buffer, a sum in eight bits.
ChecksumBytes(s, n) ==
  LET sum[i \in 0 .. n] == IF i = 0 THEN 0 ELSE (sum[i - 1] + s[i]) % 256
  IN  sum[n]

BodySize  == Len(buffer) - (bodyLength + 7)
Countable == BodySize <= 999999   \* in the six digits of BodyLength

\* The digits of BodyLength put where they belong.
Patched ==
  LET digits == Padded(BodySize, 6)
  IN  [i \in DOMAIN buffer |->
        IF i - bodyLength \in 1 .. 6 THEN digits[i - bodyLength] ELSE buffer[i]]

\* The trailer's checksum covers the digits.  Faulty: it is taken before they
\* are there.
SumOfReserved == ChecksumBytes(buffer, Len(buffer))
Sum           == ChecksumBytes(Patched, Len(buffer))

TrailerRoom == 7
PushBackTrailer ==
  /\ Called
  /\ UNCHANGED bodyLength
  /\ \/ /\ error \/ bodyLength = Null \/ ~Countable
        /\ Refuse /\ told' = "failed"
     \/ /\ ~error /\ bodyLength # Null /\ Countable /\ ~Room(TrailerRoom)
        /\ buffer' = Patched
        /\ error' = TRUE /\ UNCHANGED sections /\ told' = "failed"
     \/ /\ ~error /\ bodyLength # Null /\ Countable /\ Room(TrailerRoom)
        /\ LET sum == Padded(Sum, 3)
           IN  /\ buffer' = Patched \o FieldText(10, sum)
               /\ sections' = Append(sections,
                    [kind |-> "trailer", at |-> Len(buffer), size |-> TrailerRoom,
                     fields |-> <<Placed(10, sum, Len(buffer))>>, regular |-> Plain(10, sum)])
        /\ UNCHANGED error /\ told' = "ok"

----------------------------------------------------------------------------
(* try_write_message, and a reader of what it wrote *)

NothingRead == [bytes |-> <<>>, written |-> <<>>]

WriteInit ==
  /\ status = "writing"
  /\ msg = NothingRead /\ messageEnd = 0 /\ field = Field(0, 0, 0, 0) /\ seen = <<Visit(field)>>

WRInit ==
  /\ cap \in Capacities
  /\ buffer = <<>> /\ bodyLength = Null /\ error = FALSE /\ told = "none"
  /\ endOut = Null /\ sections = <<>> /\ calls = 0
  /\ WriteInit \/ (status = "reading" /\ Init)

\* body(w): any calls, a trailer of its own among them.
Body ==
  /\ status = "writing" /\ calls < MaxCalls
  /\ \/ \E v \in BeginStrings : PushBackHeader(v)
     \/ \E f \in Strings : PushBackString(f)
     \/ \E f \in Ints : PushBackInt(f)
     \/ \E d \in Data : PushBackData(d)
     \/ PushBackTrailer
  /\ UNCHANGED <<readerVars, status, endOut>>

\* `if (!w.push_back_trailer()) return false;`  Faulty: end_out is set first.
EndSetFirst == Len(buffer')
End         == IF told' = "ok" THEN Len(buffer') ELSE endOut

TryWriteMessage ==
  /\ status = "writing"
  /\ PushBackTrailer
  /\ status' = IF told' = "ok" THEN "written" ELSE "refused"
  /\ endOut' = End
  /\ UNCHANGED readerVars

\* The fields of the message, if they were written by the rules: a header with
\* a BeginString, then MsgType, and every field regular.  The inner trailers are
\* fields as others.
Headed == sections # <<>> /\ sections[1].kind = "header" /\ sections[1].regular
StartsWithType(section) ==
  section.fields[1].tag = 35 /\ section.fields[1].from = section.at + 3
Regular ==
  /\ Headed /\ Len(sections) >= 3
  /\ StartsWithType(sections[2])
  /\ \A i \in DOMAIN sections : sections[i].regular
Pushed ==
  LET before[i \in 1 .. Len(sections)] ==
        IF i = 1 THEN <<>> ELSE before[i - 1] \o sections[i - 1].fields
  IN  before[Len(sections)]

\* basic_message_reader(begin, end_out), and begin() if it is valid.
OpenReader ==
  LET v == Verdict(buffer, 0, endOut)
  IN  /\ status = "written"
      /\ \/ /\ ~IsFrame(v) /\ status' = "unreadable"
            /\ UNCHANGED readerVars
         \/ /\ IsFrame(v) /\ status' = "reading"
            /\ msg' = [bytes |-> buffer, written |-> IF Regular THEN Pushed ELSE <<>>]
            /\ messageEnd' = v.end
            /\ field' = Field(v.body, 35, v.body + 3, v.typeEnd)
            /\ seen' = <<Visit(field')>>
      /\ UNCHANGED writerVars

Increment == status = "reading" /\ Next /\ UNCHANGED <<writerVars, status>>

WRNext == Body \/ TryWriteMessage \/ OpenReader \/ Increment

\* One thread writes, then reads and keeps incrementing.
WRSpec == WRInit /\ [][WRNext]_allVars /\ WF_allVars(WRNext)

----------------------------------------------------------------------------
(* Properties *)

IsWritten  == endOut # Null
PrefixEnd(m) == FirstIn({j \in PrefixEnds(0) : At(m.bytes, j) = SOH}, 0, Len(m.bytes))

\* A message put together by the rules is read whole: the reader finds it valid
\* and ending at end_out, with the BeginString that was pushed between
\* prefix_begin() and prefix_end().  Of every written message with a header at its
\* front that is read as valid, whatever is in its body, calculate_check_sum() is
\* what its CheckSum field says: the trailer sums exactly the bytes the reader
\* sums, the late digits of BodyLength included.
CalculateCheckSum == ChecksumBytes(msg.bytes, EndField)
WrittenIsRead ==
  /\ IsWritten /\ Regular => status # "unreadable"
  /\ IsWritten /\ Regular /\ status = "reading" =>
       messageEnd = endOut /\ 8 + PrefixEnd(msg) - 2 = sections[1].size - 4
  /\ IsWritten /\ Headed /\ status = "reading" =>
       CalculateCheckSum = Unsigned(msg.bytes, CheckSumField.from, CheckSumField.to, 256)

\* "`end_out` set to one past the last byte on success": on failure it is left
\* alone, and on success the buffer up to it holds a section for every call of
\* the body, none dropped for lack of room.
EndOut ==
  /\ status = "refused" => endOut = Null
  /\ status \in {"written", "unreadable"} => endOut = Len(buffer)
  /\ IsWritten => Len(sections) = calls /\ endOut <= cap

\* The loop over the fields meets end() and stays there, whatever the lengths
\* and separators in the message say; writing comes to an end.
Ends == <>[](AtEnd \/ status \in {"refused", "unreadable"})

\* Byte for byte the writer does what Writer.tla says of offsets and sizes.
W == INSTANCE Writer WITH
       BufferSizes <- Capacities,
       TagDigits <- {Len(Numeral[x.tag]) : x \in Strings \cup Ints \cup Data}
                      \cup {Len(Numeral[x.lengthTag]) : x \in Data},
       Lengths <- {Len(x.value) : x \in Strings \cup Data} \cup {Len(v) : v \in BeginStrings},
       IntShapes <- {[digits10 |-> 9, neg |-> x.value < 0,
                      digits |-> Len(Numeral[Size(x.value)])] : x \in Ints},
       DecimalShapes <- {},
       MaxCalls <- MaxCalls + 1,
       next <- Len(buffer),
       placed <- [i \in DOMAIN sections |-> [kind |-> sections[i].kind, at |-> sections[i].at,
                                             size |-> sections[i].size]],
       declared <- IF bodyLength = Null \/ Slice(buffer, bodyLength, bodyLength + 6) = Reserved
                   THEN -1
                   ELSE Unsigned(buffer, bodyLength, bodyLength + 6, SizeModulus)
ImplementsWriter == W!Spec
=============================================================================
