------------------------------- MODULE Writer -------------------------------
(***************************************************************************)
(* hffix::message_writer (src/include/hffix.hpp) at the level of offsets:  *)
(* where the next byte goes, where the BodyLength digits were reserved,    *)
(* the sticky error flag, and which sections the buffer holds.  Contents   *)
(* are abstracted to the number of bytes they take.                        *)
(*                                                                         *)
(* Every operation may be called at any time and in any order, as the      *)
(* class allows: before the header, after an error, after a trailer.       *)
(***************************************************************************)
EXTENDS Integers, Sequences, FiniteSets

CONSTANTS
  BufferSizes,    \* sizes the caller may give the buffer
  TagDigits,      \* numbers of digits a tag may print as
  Lengths,        \* lengths of BeginString, string and data values
  IntShapes,      \* integers: type width and printed form
  DecimalShapes,  \* decimals: type width, printed mantissa, exponent
  MaxCalls        \* bound: calls made on one writer

\* An integer is abstracted to numeric_limits<Int_type>::digits10, how many
\* digits its absolute value has, and whether it has a sign.  No integer
\* type holds a number of more than digits10 + 1 digits.
IsShape(n) ==
  /\ n.digits10 \in Nat
  /\ n.digits \in 1 .. n.digits10 + 1
  /\ n.neg \in BOOLEAN

ASSUME SizesAssumption  == BufferSizes \subseteq Nat
ASSUME TagAssumption    == TagDigits \subseteq 1 .. 10   \* digits of an unsigned
\* push_back_data casts the length of its data to int, which must hold it.
MaxInt == 2147483647
ASSUME LengthAssumption == Lengths \subseteq 0 .. MaxInt
ASSUME IntAssumption    == \A n \in IntShapes : IsShape(n)
ASSUME DecimalAssumption ==
  \A n \in DecimalShapes : IsShape(n) /\ n.exponent \in Int
ASSUME CallsAssumption  == MaxCalls \in Nat

VARIABLES
  cap,         \* buffer_end_ - buffer_
  next,        \* next_ - buffer_
  bodyLength,  \* body_length_ - buffer_, or Null
  error,       \* error_
  declared,    \* what the BodyLength digits say, or Unset
  placed,      \* history: the sections written, [kind, at, size]
  calls,       \* history: sections asked for
  told         \* what the last call returned

bufferVars == <<next, bodyLength, declared, placed>>
vars == <<cap, next, bodyLength, error, declared, placed, calls, told>>

Null  == -1   \* body_length_ == nullptr
Unset == -1   \* BodyLength digits reserved or not, but never written

----------------------------------------------------------------------------
(* Sizes *)

\* Some definitions are preceded by faulty variants of them, each with one
\* mistake that a property below must notice.

\* Faulty: no room for the sign, nor for the digit digits10 does not count.
MaxCharsShort(digits10) == digits10

\* details::max_ascii_chars: the digits and the sign of an integer type.
MaxChars(digits10) == digits10 + 2

\* Room for a tag of any int (digits10 of a 32-bit int is 9), and '='.
TagNeed == MaxChars(9) + 1

\* itoa_unchecked: the digits and the minus sign.
IntSize(n) == n.digits + (IF n.neg THEN 1 ELSE 0)

\* dtoa_unchecked: digits are printed until the mantissa is used up and one
\* digit stands before the point, so a small mantissa is padded with zeros.
\* Faulty: the zeros are not counted.
DecimalSizeUnpadded(n) ==
  n.digits + (IF n.exponent < 0 THEN 1 ELSE 0) + (IF n.neg THEN 1 ELSE 0)
DecimalSize(n) ==
  LET printed == IF n.digits >= 1 - n.exponent THEN n.digits ELSE 1 - n.exponent
  IN  printed + (IF n.exponent < 0 THEN 1 ELSE 0) + (IF n.neg THEN 1 ELSE 0)

\* itoa_unchecked of the int that counts the data bytes: one digit, and one
\* more for every power of ten up to 10^9 it reaches.
CountSize(n) == 1 + Cardinality({k \in 1 .. 9 : n >= 10 ^ k})

\* Faulty: the guard lets seven digits through.
MaxBodyLoose == 9999999
MaxBody      == 999999   \* six digits
BodyArea     == 7        \* the six digits and their SOH
TrailerSize  == 7        \* "10=ccc" and SOH

\* itoa_padded_unchecked into six bytes: the low six digits, and characters
\* that are no digits when the number is negative.
NoDigits == -2
SixDigits(n) == IF n < 0 THEN NoDigits ELSE n % 1000000

----------------------------------------------------------------------------
(* State changes shared by the operations *)

Fits(need) == cap - next >= need

Place(kind, size) ==
  /\ next' = next + size
  /\ placed' = Append(placed, [kind |-> kind, at |-> next, size |-> size])

\* Faulty: error_ is not looked at.
UsableAnyway == TRUE
\* Every operation returns at once on a writer that has failed.
Usable  == ~error
Ignored == error /\ UNCHANGED <<error, bufferVars>>

\* Faulty: a header is never missed.
HeaderTaken == FALSE
NoHeaderYet == bodyLength = Null

\* Faulty: the flag is not set.
FailQuietly == UNCHANGED <<error, bufferVars>>
Fail        == error' = TRUE /\ UNCHANGED bufferVars

Called == calls < MaxCalls /\ calls' = calls + 1 /\ UNCHANGED cap

\* The common body of the push_back functions that append a field: check the
\* room it may need, then write what it does need.
PushField(need, size) ==
  /\ Called
  /\ told' = "none"
  /\ \/ Ignored
     \/ Usable /\ ~Fits(need) /\ Fail
     \/ /\ Usable /\ Fits(need)
        /\ Place("field", size)
        /\ UNCHANGED <<bodyLength, declared, error>>

----------------------------------------------------------------------------
(* Operations *)

\* "8=", BeginString, SOH, "9=", six digits to be filled in, SOH.
PushBackHeader(vlen) ==
  /\ Called
  /\ told' = "none"
  /\ \/ Ignored
     \/ Usable /\ ~NoHeaderYet /\ Fail
     \/ Usable /\ NoHeaderYet /\ ~Fits(2 + vlen + 3 + BodyArea) /\ Fail
     \/ /\ Usable /\ NoHeaderYet /\ Fits(2 + vlen + 3 + BodyArea)
        /\ Place("header", 2 + vlen + 3 + BodyArea)
        /\ bodyLength' = next + 2 + vlen + 3
        /\ UNCHANGED <<declared, error>>

\* A field is its tag, '=', its value and SOH; the value of each function
\* below has a fixed width or is checked against the widest of its type.
PushBackString(t, slen)     == PushField(TagNeed + slen + 1, t + 1 + slen + 1)
PushBackChar(t)             == PushField(TagNeed + 1 + 1, t + 1 + 1 + 1)
PushBackInt(t, n)           == PushField(TagNeed + MaxChars(n.digits10) + 1,
                                         t + 1 + IntSize(n) + 1)
PushBackDecimal(t, n)       == PushField(TagNeed + MaxChars(n.digits10) + 1 + 1,
                                         t + 1 + DecimalSize(n) + 1)
PushBackDate(t)             == PushField(TagNeed + 8 + 1, t + 1 + 8 + 1)
PushBackMonthYear(t)        == PushField(TagNeed + 6 + 1, t + 1 + 6 + 1)
PushBackTimeOnly(t)         == PushField(TagNeed + 8 + 1, t + 1 + 8 + 1)
PushBackTimeOnlyMillis(t)   == PushField(TagNeed + 12 + 1, t + 1 + 12 + 1)
PushBackTimeOnlyNano(t)     == PushField(TagNeed + 18 + 1, t + 1 + 18 + 1)
PushBackTimestamp(t)        == PushField(TagNeed + 17 + 1, t + 1 + 17 + 1)
PushBackTimestampMillis(t)  == PushField(TagNeed + 21 + 1, t + 1 + 21 + 1)
PushBackTimestampNano(t)    == PushField(TagNeed + 27 + 1, t + 1 + 27 + 1)

\* Two fields behind one bounds check: the length, then the data.
PushBackData(lengthTag, dataTag, dlen) ==
  PushField(TagNeed + MaxChars(9) + 1 + TagNeed + dlen + 1,
            lengthTag + 1 + CountSize(dlen) + 1 + dataTag + 1 + dlen + 1)

\* push_back_data with end < begin.
PushBackDataBackwards ==
  /\ Called
  /\ told' = "none"
  /\ Ignored \/ (Usable /\ Fail)

\* push_back_trailer: the BodyLength digits are written before the room for
\* the trailer itself is checked.
\* Faulty: the six digits and their SOH are counted too.
BodySizeWithDigits == next - bodyLength
BodySize           == next - (bodyLength + BodyArea)

TrailerRefused ==
  /\ \/ Ignored
     \/ Usable /\ NoHeaderYet /\ Fail
     \/ Usable /\ ~NoHeaderYet /\ BodySize > MaxBody /\ Fail
     \/ /\ Usable /\ ~NoHeaderYet /\ BodySize <= MaxBody
        /\ declared' = SixDigits(BodySize)
        /\ ~Fits(TrailerSize)
        /\ error' = TRUE
        /\ UNCHANGED <<next, bodyLength, placed>>
  /\ told' = "failed"

TrailerWritten ==
  /\ Usable /\ ~NoHeaderYet /\ BodySize <= MaxBody
  /\ declared' = SixDigits(BodySize)
  /\ Fits(TrailerSize)
  /\ Place("trailer", TrailerSize)
  /\ told' = "ok"
  /\ UNCHANGED <<bodyLength, error>>

PushBackTrailer == Called /\ (TrailerRefused \/ TrailerWritten)

----------------------------------------------------------------------------
(* The specification *)

Init ==
  /\ cap \in BufferSizes
  /\ next = 0
  /\ bodyLength = Null
  /\ error = FALSE
  /\ declared = Unset
  /\ placed = <<>>
  /\ calls = 0
  /\ told = "none"

PushBackAny ==
  \E t \in TagDigits :
    \/ PushBackChar(t)
    \/ PushBackDate(t) \/ PushBackMonthYear(t)
    \/ PushBackTimeOnly(t) \/ PushBackTimeOnlyMillis(t) \/ PushBackTimeOnlyNano(t)
    \/ PushBackTimestamp(t) \/ PushBackTimestampMillis(t) \/ PushBackTimestampNano(t)
    \/ \E slen \in Lengths : PushBackString(t, slen)
    \/ \E n \in IntShapes : PushBackInt(t, n)
    \/ \E n \in DecimalShapes : PushBackDecimal(t, n)
    \/ \E u \in TagDigits, dlen \in Lengths : PushBackData(t, u, dlen)

Next ==
  \/ \E vlen \in Lengths : PushBackHeader(vlen)
  \/ PushBackAny
  \/ PushBackDataBackwards
  \/ PushBackTrailer

Spec == Init /\ [][Next]_vars

----------------------------------------------------------------------------
(* Properties *)

Section == [kind : {"header", "field", "trailer"}, at : Int, size : Int]

\* No decimal needs more zeros before its point than its type has digits.
ModestExponents == \A n \in DecimalShapes : n.exponent >= -n.digits10

\* The types of the writer's members and of the histories.
TypeOK ==
  /\ cap \in BufferSizes
  /\ next \in Nat
  /\ bodyLength = Null \/ bodyLength \in Nat
  /\ error \in BOOLEAN
  /\ declared = Unset \/ declared \in 0 .. MaxBody
  /\ placed \in Seq(Section)
  /\ calls \in 0 .. MaxCalls
  /\ told \in {"none", "ok", "failed"}

\* The check of the worst case is enough: no operation writes past the end of
\* the buffer, whatever the field prints as (README: "one bounds check
\* against the field's worst-case byte count, then unchecked writes").  It needs
\* ModestExponents: the worst case of a decimal does not look at its exponent.
NoOverrun == next <= cap

\* A trailer that reports success closes a message in which every section the
\* caller asked for is present: an operation that was dropped on the way, for
\* lack of room or for being out of order, can not be missed by the caller.
NothingMissing == told = "ok" => Len(placed) = calls

EndOf(i) == placed[i].at + placed[i].size

\* The sections lie end to end from the first byte to message_end(): no
\* operation that gave up half-way left bytes or a gap behind.
EndToEnd ==
  IF placed = <<>> THEN next = 0
  ELSE /\ placed[1].at = 0
       /\ \A i \in 1 .. Len(placed) - 1 : placed[i + 1].at = EndOf(i)
       /\ EndOf(Len(placed)) = next

\* Once a trailer is written, the BodyLength digits count exactly the bytes
\* between the header and that trailer, and they fit in six digits, also when
\* fields were pushed before the header or after an earlier trailer.
ExactBodyLength ==
  told = "ok" =>
    \E h \in 1 .. Len(placed) - 1 :
      /\ placed[h].kind = "header"
      /\ declared = placed[Len(placed)].at - EndOf(h)

\* There is at most one header, and body_length_ points at the seven bytes it
\* reserved at the header's end, so the digits a trailer writes through that
\* pointer can not land in any other section.
PatchInsideHeader ==
  \A i \in 1 .. Len(placed) :
    placed[i].kind = "header" <=> bodyLength # Null /\ EndOf(i) = bodyLength + BodyArea

\* An error is for good: after one, no operation changes the buffer, not even
\* the BodyLength digits, and success is never reported again.
ErrorIsSticky ==
  [][error => error' /\ UNCHANGED bufferVars /\ told' # "ok"]_vars

\* What was written stays: an operation appends one section or none.
AppendOnly ==
  [][/\ Len(placed') - Len(placed) \in {0, 1}
     /\ \A i \in 1 .. Len(placed) : placed'[i] = placed[i]]_vars

\* The writer implements the log of sections it promises to its caller.
Log == INSTANCE FieldLog WITH
         log <- [i \in 1 .. Len(placed) |-> placed[i].size],
         calls <- calls, failed <- error, told <- told
ImplementsFieldLog == Log!Spec
=============================================================================
