---------------------------- MODULE WriterProofs ----------------------------
(***************************************************************************)
(* Proofs about Writer, for every buffer size, field length, integer type  *)
(* and number of calls.                                                    *)
(***************************************************************************)
EXTENDS Writer, FiniteSetTheorems, TLAPS

\* What every state satisfies, strong enough to be inductive: the properties
\* themselves, that all sections end at or before next, and that the reserved
\* digits lie in a header that is there.
Tiling ==
  /\ Len(placed) = 0 => next = 0
  /\ Len(placed) > 0 => placed[1].at = 0 /\ EndOf(Len(placed)) = next
  /\ \A i \in 1 .. Len(placed) - 1 : placed[i + 1].at = EndOf(i)
  /\ \A i \in 1 .. Len(placed) : EndOf(i) <= next

Accounting ==
  /\ ~error => Len(placed) = calls
  /\ told = "ok" => ~error

HeaderPlaced ==
  bodyLength # Null =>
    /\ bodyLength + BodyArea <= next
    /\ \E h \in 1 .. Len(placed) : EndOf(h) = bodyLength + BodyArea

IInv ==
  /\ TypeOK
  /\ Tiling
  /\ Accounting
  /\ HeaderPlaced
  /\ PatchInsideHeader
  /\ ExactBodyLength

----------------------------------------------------------------------------
(* Sizes *)

\* The count of the data bytes prints in one to ten digits.
LEMMA CountSizeRange ==
  ASSUME NEW n \in Nat
  PROVE  CountSize(n) \in 1 .. 10
<1> DEFINE powers == {k \in 1 .. 9 : n >= 10 ^ k}
<1>1. IsFiniteSet(1 .. 9) /\ Cardinality(1 .. 9) = 9
  <2>1. IsFiniteSet(1 .. 9) /\ Cardinality(1 .. 9) = IF 1 > 9 THEN 0 ELSE 9 - 1 + 1
    <3>1. 1 \in Int /\ 9 \in Int
      OBVIOUS
    <3> QED
      BY <3>1, FS_Interval, Zenon
  <2> QED
    BY <2>1
<1>2. Cardinality(powers) \in Nat /\ Cardinality(powers) <= 9
  BY <1>1, FS_Subset, FS_CardinalityType
<1> QED
  BY <1>2 DEF CountSize

\* An integer prints within the worst case of its type.
LEMMA IntSizeFits ==
  ASSUME NEW n, IsShape(n)
  PROVE  IntSize(n) \in 1 .. MaxChars(n.digits10)
  BY DEF IsShape, IntSize, MaxChars

\* A decimal prints at least one digit.
LEMMA DecimalSizeType ==
  ASSUME NEW n, IsShape(n), n.exponent \in Int
  PROVE  DecimalSize(n) \in Nat \ {0}
  BY DEF IsShape, DecimalSize

\* With an exponent no smaller than minus the digits of its type, a decimal
\* prints within the worst case: the type's digits and sign, and the point.
LEMMA DecimalSizeFits ==
  ASSUME NEW n, IsShape(n), n.exponent \in Int, n.exponent >= -n.digits10
  PROVE  DecimalSize(n) <= MaxChars(n.digits10) + 1
  BY DEF IsShape, DecimalSize, MaxChars

\* Six digits hold every body length the writer accepts.
LEMMA SixDigitsHold ==
  ASSUME NEW n \in Nat
  PROVE  SixDigits(n) \in 0 .. MaxBody /\ (n <= MaxBody => SixDigits(n) = n)
<1>1. n % 1000000 >= 0 /\ n % 1000000 < 1000000
  BY SMT
<1>2. n < 1000000 => n % 1000000 = n
  BY SMT
<1>3. MaxBody + 1 = 1000000
  BY SMT DEF MaxBody
<1>4. n % 1000000 \in Int /\ MaxBody \in Int
  BY SMT DEF MaxBody
<1>5. SixDigits(n) = n % 1000000
  BY SMT DEF SixDigits
<1> QED
  BY <1>1, <1>2, <1>3, <1>4, <1>5, SMT

----------------------------------------------------------------------------
(* The invariant is inductive *)

\* A step that places a section of some bytes at the end, given what becomes
\* of the header.
LEMMA PlaceTiling ==
  ASSUME IInv, NEW kind \in {"header", "field", "trailer"}, NEW size \in Nat \ {0},
         Place(kind, size)
  PROVE  /\ next' \in Nat /\ next' = next + size
         /\ placed' \in Seq(Section)
         /\ Len(placed') = Len(placed) + 1
         /\ \A i \in 1 .. Len(placed) : placed'[i] = placed[i] /\ EndOf(i)' = EndOf(i)
         /\ placed'[Len(placed) + 1] = [kind |-> kind, at |-> next, size |-> size]
         /\ placed'[Len(placed) + 1].kind = kind
         /\ EndOf(Len(placed))' = next'
         /\ Tiling'
<1>1. placed \in Seq(Section) /\ next \in Nat
  BY DEF IInv, TypeOK
<1>2. [kind |-> kind, at |-> next, size |-> size] \in Section
  BY <1>1 DEF Section
<1>3. /\ placed' = Append(placed, [kind |-> kind, at |-> next, size |-> size])
      /\ next' = next + size
  BY DEF Place
<1>4. /\ placed' \in Seq(Section)
      /\ Len(placed') = Len(placed) + 1
      /\ \A i \in 1 .. Len(placed) : placed'[i] = placed[i]
      /\ placed'[Len(placed) + 1] = [kind |-> kind, at |-> next, size |-> size]
  BY <1>1, <1>2, <1>3
<1>5. \A i \in 1 .. Len(placed) : EndOf(i)' = EndOf(i)
  BY <1>4 DEF EndOf
<1>6. EndOf(Len(placed))' = next'
  BY <1>1, <1>3, <1>4 DEF EndOf
<1>7. \A i \in 1 .. Len(placed) : EndOf(i) \in Int
  <2>1. \A i \in 1 .. Len(placed) : placed[i] \in Section
    BY <1>1
  <2>2. \A s \in Section : s.at \in Int /\ s.size \in Int
    BY DEF Section
  <2> QED
    BY <2>1, <2>2 DEF EndOf
<1>8. Tiling'
  <2>1. \A i \in 1 .. Len(placed') : EndOf(i)' <= next'
    BY <1>1, <1>3, <1>4, <1>5, <1>6, <1>7 DEF IInv, Tiling
  <2>2. ASSUME NEW i \in 1 .. Len(placed') - 1
        PROVE  placed'[i + 1].at = EndOf(i)'
    <3>1. CASE i = Len(placed)
      BY <1>1, <1>4, <1>5, <3>1 DEF IInv, Tiling
    <3>2. CASE i < Len(placed)
      BY <1>1, <1>4, <1>5, <3>2 DEF IInv, Tiling
    <3> QED
      BY <1>1, <1>4, <3>1, <3>2
  <2>3. placed'[1].at = 0
    <3>1. CASE Len(placed) = 0
      BY <1>4, <3>1 DEF IInv, Tiling
    <3>2. CASE Len(placed) > 0
      BY <1>1, <1>4, <3>2 DEF IInv, Tiling
    <3> QED
      BY <1>1, <3>1, <3>2
  <2> QED
    BY <1>1, <1>4, <1>6, <2>1, <2>2, <2>3 DEF Tiling
<1>9. placed'[Len(placed) + 1].kind = kind
  BY <1>4
<1> QED
  BY <1>1, <1>3, <1>4, <1>5, <1>6, <1>8, <1>9

\* Sections that are not the header leave body_length_ where it is.
LEMMA PlaceBesideHeader ==
  ASSUME IInv, NEW kind \in {"field", "trailer"}, NEW size \in Nat \ {0},
         Place(kind, size), UNCHANGED bodyLength
  PROVE  HeaderPlaced' /\ PatchInsideHeader'
<1>1. /\ next' = next + size /\ Len(placed') = Len(placed) + 1
      /\ \A i \in 1 .. Len(placed) : placed'[i] = placed[i] /\ EndOf(i)' = EndOf(i)
      /\ placed'[Len(placed) + 1].kind = kind
      /\ EndOf(Len(placed))' = next'
  <2>1. kind \in {"header", "field", "trailer"}
    OBVIOUS
  <2> QED
    BY <2>1, PlaceTiling
<1>2. next \in Nat /\ Len(placed) \in Nat /\ bodyLength \in Nat \cup {Null}
  BY DEF IInv, TypeOK
<1>3. HeaderPlaced'
  BY <1>1, <1>2 DEF IInv, HeaderPlaced, BodyArea, Null
<1>4. ASSUME NEW i \in 1 .. Len(placed')
      PROVE  placed'[i].kind = "header" <=>
               bodyLength' # Null /\ EndOf(i)' = bodyLength' + BodyArea
  <2>1. CASE i \in 1 .. Len(placed)
    BY <1>1, <2>1 DEF IInv, PatchInsideHeader
  <2>2. CASE i = Len(placed) + 1
    BY <1>1, <1>2, <2>2 DEF IInv, HeaderPlaced, BodyArea, Null
  <2> QED
    BY <1>1, <1>2, <2>1, <2>2
<1> QED
  BY <1>3, <1>4 DEF PatchInsideHeader

\* A step that leaves the buffer alone keeps the invariant, when an error or
\* the end of the calls accounts for the section it did not place.
LEMMA UntouchedStep ==
  ASSUME IInv, Called, UNCHANGED bufferVars, error', told' \in {"none", "failed"}
  PROVE  IInv'
<1>1. TypeOK'
  BY CallsAssumption DEF IInv, TypeOK, Called, bufferVars
<1>2. Tiling' /\ HeaderPlaced' /\ PatchInsideHeader'
  BY DEF IInv, Tiling, HeaderPlaced, PatchInsideHeader, EndOf, bufferVars
<1>3. Accounting' /\ ExactBodyLength'
  BY DEF Accounting, ExactBodyLength
<1> QED
  BY <1>1, <1>2, <1>3 DEF IInv

\* Every function that appends a field keeps the invariant.
LEMMA PushFieldStep ==
  ASSUME IInv, NEW need \in Nat, NEW size \in Nat \ {0}, PushField(need, size)
  PROVE  IInv'
<1>1. CASE Ignored
  BY <1>1, UntouchedStep DEF PushField, Ignored, IInv, TypeOK
<1>2. CASE Fail
  BY <1>2, UntouchedStep DEF PushField, Fail
<1>3. CASE Usable /\ Place("field", size) /\ UNCHANGED <<bodyLength, declared, error>>
  <2>1. Called /\ told' = "none"
    BY DEF PushField
  <2>2. Tiling' /\ HeaderPlaced' /\ PatchInsideHeader'
    BY <1>3, PlaceTiling, PlaceBesideHeader
  <2>3. TypeOK'
    <3>1. next' \in Nat /\ placed' \in Seq(Section)
      BY <1>3, PlaceTiling
    <3> QED
      BY <1>3, <2>1, <3>1, CallsAssumption DEF IInv, TypeOK, Called
  <2>4. Accounting' /\ ExactBodyLength'
    BY <1>3, <2>1, PlaceTiling DEF IInv, Accounting, ExactBodyLength, Called, Usable
  <2> QED
    BY <2>2, <2>3, <2>4 DEF IInv
<1> QED
  BY <1>1, <1>2, <1>3 DEF PushField

\* The header is placed once, and body_length_ is set to its reserved digits.
LEMMA HeaderStep ==
  ASSUME IInv, NEW vlen \in Nat, PushBackHeader(vlen)
  PROVE  IInv'
<1> DEFINE size == 2 + vlen + 3 + BodyArea
<1>0. Called /\ told' = "none"
  BY DEF PushBackHeader
<1>1. CASE Ignored
  BY <1>0, <1>1, UntouchedStep DEF Ignored, IInv, TypeOK
<1>2. CASE Fail
  BY <1>0, <1>2, UntouchedStep DEF Fail
<1>3. CASE /\ Usable /\ NoHeaderYet /\ Place("header", size)
           /\ bodyLength' = next + 2 + vlen + 3
           /\ UNCHANGED <<declared, error>>
  <2>1. size \in Nat \ {0} /\ next \in Nat /\ Len(placed) \in Nat
    BY DEF BodyArea, IInv, TypeOK
  <2>2. /\ next' \in Nat /\ next' = next + size
        /\ placed' \in Seq(Section)
        /\ Len(placed') = Len(placed) + 1
        /\ \A i \in 1 .. Len(placed) : placed'[i] = placed[i] /\ EndOf(i)' = EndOf(i)
        /\ placed'[Len(placed) + 1].kind = "header"
        /\ EndOf(Len(placed))' = next'
        /\ Tiling'
    BY <1>3, <2>1, PlaceTiling
  <2>3. bodyLength' \in Nat /\ bodyLength' + BodyArea = next'
    BY <1>3, <2>1, <2>2 DEF BodyArea
  <2>4. TypeOK'
    BY <1>0, <1>3, <2>2, <2>3, CallsAssumption DEF IInv, TypeOK, Called
  <2>5. HeaderPlaced'
    <3>1. Len(placed') \in 1 .. Len(placed')
      BY <2>1, <2>2
    <3> QED
      BY <2>2, <2>3, <3>1 DEF HeaderPlaced
  <2>6. ASSUME NEW i \in 1 .. Len(placed')
        PROVE  placed'[i].kind = "header" <=>
                 bodyLength' # Null /\ EndOf(i)' = bodyLength' + BodyArea
    <3>1. CASE i \in 1 .. Len(placed)
      <4>1. placed[i].kind # "header"
        BY <1>3, <3>1 DEF NoHeaderYet, IInv, PatchInsideHeader
      <4>2. EndOf(i) <= next
        BY <3>1 DEF IInv, Tiling
      <4>3. EndOf(i)' # next'
        BY <2>1, <2>2, <3>1, <4>2
      <4> QED
        BY <2>2, <2>3, <3>1, <4>1, <4>3
    <3>2. CASE i = Len(placed) + 1
      BY <2>1, <2>2, <2>3, <3>2 DEF Null
    <3> QED
      BY <2>1, <2>2, <3>1, <3>2
  <2>7. Accounting' /\ ExactBodyLength'
    BY <1>0, <1>3, <2>2 DEF IInv, Accounting, ExactBodyLength, Called, Usable
  <2> QED
    BY <2>2, <2>4, <2>5, <2>6, <2>7 DEF IInv, PatchInsideHeader
<1> QED
  BY <1>1, <1>2, <1>3 DEF PushBackHeader

\* A trailer that fails may have written the digits, and nothing else.
LEMMA TrailerRefusedStep ==
  ASSUME IInv, Called, TrailerRefused
  PROVE  IInv'
<1>0. told' = "failed" /\ BodySize \in Int
  BY DEF TrailerRefused, BodySize, IInv, TypeOK, BodyArea, Null
<1>1. CASE Ignored
  BY <1>0, <1>1, UntouchedStep DEF Ignored, IInv, TypeOK
<1>2. CASE Fail
  BY <1>0, <1>2, UntouchedStep DEF Fail
<1>3. CASE /\ ~NoHeaderYet /\ declared' = SixDigits(BodySize)
           /\ error' = TRUE /\ UNCHANGED <<next, bodyLength, placed>>
  <2>1. BodySize >= 0
    BY <1>3 DEF IInv, TypeOK, HeaderPlaced, NoHeaderYet, BodySize, BodyArea, Null
  <2>2. declared' \in 0 .. MaxBody
    BY <1>0, <1>3, <2>1, SixDigitsHold
  <2>3. TypeOK'
    BY <1>0, <1>3, <2>2, CallsAssumption DEF IInv, TypeOK, Called
  <2>4. Tiling' /\ HeaderPlaced' /\ PatchInsideHeader'
    BY <1>3 DEF IInv, Tiling, HeaderPlaced, PatchInsideHeader, EndOf
  <2>5. Accounting' /\ ExactBodyLength'
    BY <1>0, <1>3 DEF Accounting, ExactBodyLength
  <2> QED
    BY <2>3, <2>4, <2>5 DEF IInv
<1> QED
  BY <1>1, <1>2, <1>3 DEF TrailerRefused

\* A trailer that succeeds declares the distance from the header to itself.
LEMMA TrailerWrittenStep ==
  ASSUME IInv, Called, TrailerWritten
  PROVE  IInv'
<1>1. /\ Usable /\ bodyLength # Null /\ BodySize <= MaxBody
      /\ declared' = SixDigits(BodySize)
      /\ Place("trailer", TrailerSize)
      /\ told' = "ok" /\ UNCHANGED <<bodyLength, error>>
  BY DEF TrailerWritten, NoHeaderYet
<1>2. TrailerSize \in Nat \ {0} /\ next \in Nat /\ Len(placed) \in Nat
  BY DEF TrailerSize, IInv, TypeOK
<1>3. /\ next' \in Nat /\ placed' \in Seq(Section)
      /\ Len(placed') = Len(placed) + 1
      /\ \A i \in 1 .. Len(placed) : placed'[i] = placed[i] /\ EndOf(i)' = EndOf(i)
      /\ placed'[Len(placed) + 1] = [kind |-> "trailer", at |-> next, size |-> TrailerSize]
      /\ Tiling'
  BY <1>1, <1>2, PlaceTiling
<1>4. HeaderPlaced' /\ PatchInsideHeader'
  BY <1>1, <1>2, PlaceBesideHeader
<1>5. BodySize \in Nat
  BY <1>1, <1>2 DEF IInv, TypeOK, HeaderPlaced, BodySize, BodyArea, Null
<1>6. declared' = BodySize /\ declared' \in 0 .. MaxBody
  BY <1>1, <1>5, SixDigitsHold
<1>7. TypeOK'
  BY <1>1, <1>3, <1>6, CallsAssumption DEF IInv, TypeOK, Called
<1>8. Accounting'
  BY <1>1, <1>3 DEF IInv, Accounting, Called, Usable
<1>9. ExactBodyLength'
  <2>1. PICK h \in 1 .. Len(placed) : EndOf(h) = bodyLength + BodyArea
    BY <1>1 DEF IInv, HeaderPlaced
  <2>2. placed[h].kind = "header"
    BY <1>1, <2>1 DEF IInv, PatchInsideHeader
  <2>3. h \in 1 .. Len(placed') - 1
    BY <1>2, <1>3, <2>1
  <2>4. placed'[h].kind = "header" /\ EndOf(h)' = bodyLength + BodyArea
    BY <1>3, <2>1, <2>2
  <2>5. placed'[Len(placed')].at = next
    BY <1>3
  <2>6. declared' = placed'[Len(placed')].at - EndOf(h)'
    BY <1>6, <2>4, <2>5 DEF BodySize
  <2> QED
    BY <2>3, <2>4, <2>6 DEF ExactBodyLength
<1> QED
  BY <1>3, <1>4, <1>7, <1>8, <1>9 DEF IInv

\* Every operation that appends a field is PushField of a natural need and a
\* positive size.
LEMMA FieldStep ==
  ASSUME IInv, PushBackAny
  PROVE  IInv'
<1>1. PICK t \in TagDigits :
        \/ PushBackChar(t)
        \/ PushBackDate(t) \/ PushBackMonthYear(t)
        \/ PushBackTimeOnly(t) \/ PushBackTimeOnlyMillis(t) \/ PushBackTimeOnlyNano(t)
        \/ PushBackTimestamp(t) \/ PushBackTimestampMillis(t) \/ PushBackTimestampNano(t)
        \/ \E slen \in Lengths : PushBackString(t, slen)
        \/ \E n \in IntShapes : PushBackInt(t, n)
        \/ \E n \in DecimalShapes : PushBackDecimal(t, n)
        \/ \E u \in TagDigits, dlen \in Lengths : PushBackData(t, u, dlen)
  BY DEF PushBackAny
<1>2. t \in 1 .. 10
  BY TagAssumption
<1>3. CASE \/ PushBackChar(t)
           \/ PushBackDate(t) \/ PushBackMonthYear(t)
           \/ PushBackTimeOnly(t) \/ PushBackTimeOnlyMillis(t) \/ PushBackTimeOnlyNano(t)
           \/ PushBackTimestamp(t) \/ PushBackTimestampMillis(t) \/ PushBackTimestampNano(t)
  <2>1. PICK width \in Nat : PushField(TagNeed + width + 1, t + 1 + width + 1)
    <3>1. \E width \in {1, 6, 8, 12, 17, 18, 21, 27} :
            PushField(TagNeed + width + 1, t + 1 + width + 1)
      BY <1>3 DEF PushBackChar, PushBackDate, PushBackMonthYear, PushBackTimeOnly,
                  PushBackTimeOnlyMillis, PushBackTimeOnlyNano, PushBackTimestamp,
                  PushBackTimestampMillis, PushBackTimestampNano
    <3> QED
      BY <3>1
  <2>2. TagNeed + width + 1 \in Nat /\ t + 1 + width + 1 \in Nat \ {0}
    BY <1>2 DEF TagNeed, MaxChars
  <2> QED
    BY <2>1, <2>2, PushFieldStep
<1>4. CASE \E slen \in Lengths : PushBackString(t, slen)
  <2>1. PICK slen \in Lengths : PushField(TagNeed + slen + 1, t + 1 + slen + 1)
    BY <1>4 DEF PushBackString
  <2>2. TagNeed + slen + 1 \in Nat /\ t + 1 + slen + 1 \in Nat \ {0}
    BY <1>2, LengthAssumption DEF TagNeed, MaxChars
  <2> QED
    BY <2>1, <2>2, PushFieldStep
<1>5. CASE \E n \in IntShapes : PushBackInt(t, n)
  <2>1. PICK n \in IntShapes :
          PushField(TagNeed + MaxChars(n.digits10) + 1, t + 1 + IntSize(n) + 1)
    BY <1>5 DEF PushBackInt
  <2>2. IsShape(n)
    BY IntAssumption
  <2>3. n.digits10 \in Nat /\ IntSize(n) \in Nat
    BY <2>2, IntSizeFits DEF IsShape, MaxChars
  <2>4. /\ TagNeed + MaxChars(n.digits10) + 1 \in Nat
        /\ t + 1 + IntSize(n) + 1 \in Nat \ {0}
    BY <1>2, <2>3 DEF TagNeed, MaxChars
  <2> QED
    BY <2>1, <2>4, PushFieldStep
<1>6. CASE \E n \in DecimalShapes : PushBackDecimal(t, n)
  <2>1. PICK n \in DecimalShapes :
          PushField(TagNeed + MaxChars(n.digits10) + 1 + 1, t + 1 + DecimalSize(n) + 1)
    BY <1>6 DEF PushBackDecimal
  <2>2. IsShape(n) /\ n.exponent \in Int
    BY DecimalAssumption
  <2>3. n.digits10 \in Nat /\ DecimalSize(n) \in Nat
    BY <2>2, DecimalSizeType DEF IsShape
  <2>4. /\ TagNeed + MaxChars(n.digits10) + 1 + 1 \in Nat
        /\ t + 1 + DecimalSize(n) + 1 \in Nat \ {0}
    BY <1>2, <2>3 DEF TagNeed, MaxChars
  <2> QED
    BY <2>1, <2>4, PushFieldStep
<1>7. CASE \E u \in TagDigits, dlen \in Lengths : PushBackData(t, u, dlen)
  <2>1. PICK u \in TagDigits, dlen \in Lengths :
          PushField(TagNeed + MaxChars(9) + 1 + TagNeed + dlen + 1,
                    t + 1 + CountSize(dlen) + 1 + u + 1 + dlen + 1)
    BY <1>7 DEF PushBackData
  <2>2. u \in 1 .. 10 /\ dlen \in Nat /\ CountSize(dlen) \in 1 .. 10
    BY TagAssumption, LengthAssumption, CountSizeRange
  <2>3. /\ TagNeed + MaxChars(9) + 1 + TagNeed + dlen + 1 \in Nat
        /\ t + 1 + CountSize(dlen) + 1 + u + 1 + dlen + 1 \in Nat \ {0}
    BY <1>2, <2>2 DEF TagNeed, MaxChars
  <2> QED
    BY <2>1, <2>3, PushFieldStep
<1> QED
  BY <1>1, <1>3, <1>4, <1>5, <1>6, <1>7

LEMMA InitIInv == Init => IInv
<1> SUFFICES ASSUME Init PROVE IInv
  OBVIOUS
<1>1. placed = <<>> /\ next = 0 /\ Len(placed) = 0
  BY DEF Init
<1>2. TypeOK
  <2>1. calls \in 0 .. MaxCalls /\ next \in Nat
    BY CallsAssumption DEF Init
  <2>2. placed \in Seq(Section)
    BY <1>1
  <2> QED
    BY <2>1, <2>2 DEF Init, TypeOK
<1>3. Tiling /\ PatchInsideHeader /\ Accounting
  BY <1>1 DEF Init, Tiling, PatchInsideHeader, Accounting
<1>4. HeaderPlaced /\ ExactBodyLength
  BY DEF Init, HeaderPlaced, ExactBodyLength
<1> QED
  BY <1>2, <1>3, <1>4 DEF IInv

LEMMA StepIInv == IInv /\ [Next]_vars => IInv'
<1> SUFFICES ASSUME IInv, [Next]_vars PROVE IInv'
  OBVIOUS
<1>1. CASE \E vlen \in Lengths : PushBackHeader(vlen)
  BY <1>1, LengthAssumption, HeaderStep
<1>2. CASE PushBackAny
  BY <1>2, FieldStep
<1>3. CASE PushBackDataBackwards
  <2>1. Called /\ told' = "none" /\ error' /\ UNCHANGED bufferVars
    BY <1>3 DEF PushBackDataBackwards, Ignored, Fail
  <2> QED
    BY <2>1, UntouchedStep
<1>4. CASE PushBackTrailer
  BY <1>4, TrailerRefusedStep, TrailerWrittenStep DEF PushBackTrailer
<1>5. CASE UNCHANGED vars
  <2>1. TypeOK'
    BY <1>5 DEF vars, IInv, TypeOK
  <2>2. Tiling' /\ HeaderPlaced' /\ PatchInsideHeader' /\ ExactBodyLength'
    BY <1>5 DEF vars, IInv, Tiling, HeaderPlaced, PatchInsideHeader, ExactBodyLength, EndOf
  <2>3. Accounting'
    BY <1>5 DEF vars, IInv, Accounting
  <2> QED
    BY <2>1, <2>2, <2>3 DEF IInv
<1> QED
  BY <1>1, <1>2, <1>3, <1>4, <1>5 DEF Next

\* The strengthened invariant holds in every state.
THEOREM Invariance == Spec => []IInv
  BY InitIInv, StepIInv, PTL DEF Spec

----------------------------------------------------------------------------
(* The properties *)

\* Type correctness of the writer's members.
THEOREM TypeCorrect == Spec => []TypeOK
<1>1. IInv => TypeOK
  BY DEF IInv
<1> QED
  BY <1>1, Invariance, PTL

\* A successful push_back_trailer closes a message that has every section the
\* caller asked for.
THEOREM NoSectionIsMissed == Spec => []NothingMissing
<1>1. IInv => NothingMissing
  BY DEF IInv, Accounting, NothingMissing
<1> QED
  BY <1>1, Invariance, PTL

\* The sections tile the buffer from its first byte to message_end().
THEOREM SectionsTile == Spec => []EndToEnd
<1>1. IInv => EndToEnd
  <2> SUFFICES ASSUME IInv PROVE EndToEnd
    OBVIOUS
  <2>1. CASE placed = <<>>
    BY <2>1 DEF IInv, Tiling, EndToEnd
  <2>2. CASE placed # <<>>
    <3>1. Len(placed) > 0
      BY <2>2 DEF IInv, TypeOK
    <3> QED
      BY <2>2, <3>1 DEF IInv, Tiling, EndToEnd
  <2> QED
    BY <2>1, <2>2
<1> QED
  BY <1>1, Invariance, PTL

\* The BodyLength digits count exactly the bytes between the header and the
\* trailer that reported success.
THEOREM BodyLengthIsExact == Spec => []ExactBodyLength
<1>1. IInv => ExactBodyLength
  BY DEF IInv
<1> QED
  BY <1>1, Invariance, PTL

\* The digits are only ever written into the one header.
THEOREM PatchStaysInHeader == Spec => []PatchInsideHeader
<1>1. IInv => PatchInsideHeader
  BY DEF IInv
<1> QED
  BY <1>1, Invariance, PTL

\* No operation writes past the end of the buffer, provided no decimal has an
\* exponent its worst case does not provide for.
THEOREM StaysInBuffer ==
  ASSUME ModestExponents
  PROVE  Spec => []NoOverrun
<1>1. Init => NoOverrun
  BY SizesAssumption DEF Init, NoOverrun
<1>2. IInv /\ NoOverrun /\ [Next]_vars => NoOverrun'
  <2> SUFFICES ASSUME IInv, NoOverrun, [Next]_vars PROVE NoOverrun'
    OBVIOUS
  <2>0. cap \in Nat /\ next \in Nat
    BY SizesAssumption DEF IInv, TypeOK
  <2>1. ASSUME NEW need \in Nat, NEW size \in Nat, size <= need, PushField(need, size)
        PROVE  NoOverrun'
    BY <2>0, <2>1 DEF PushField, Ignored, Fail, Called, Fits, Place, bufferVars, NoOverrun
  <2>2. CASE \E vlen \in Lengths : PushBackHeader(vlen)
    BY <2>0, <2>2, LengthAssumption
       DEF PushBackHeader, Ignored, Fail, Called, Fits, Place, bufferVars, NoOverrun, BodyArea
  <2>3. CASE PushBackAny
    <3>1. PICK t \in TagDigits :
            \/ \E width \in {1, 6, 8, 12, 17, 18, 21, 27} :
                 PushField(TagNeed + width + 1, t + 1 + width + 1)
            \/ \E slen \in Lengths : PushBackString(t, slen)
            \/ \E n \in IntShapes : PushBackInt(t, n)
            \/ \E n \in DecimalShapes : PushBackDecimal(t, n)
            \/ \E u \in TagDigits, dlen \in Lengths : PushBackData(t, u, dlen)
      BY <2>3 DEF PushBackAny, PushBackChar, PushBackDate, PushBackMonthYear,
                  PushBackTimeOnly, PushBackTimeOnlyMillis, PushBackTimeOnlyNano,
                  PushBackTimestamp, PushBackTimestampMillis, PushBackTimestampNano
    <3>2. t \in 1 .. 10
      BY TagAssumption
    <3>3. ASSUME NEW width \in Nat, NEW room \in Nat, width <= room,
                 PushField(TagNeed + room + 1, t + 1 + width + 1)
          PROVE  NoOverrun'
      <4>1. /\ TagNeed + room + 1 \in Nat /\ t + 1 + width + 1 \in Nat
            /\ t + 1 + width + 1 <= TagNeed + room + 1
        BY <3>2, <3>3 DEF TagNeed, MaxChars
      <4> QED
        BY <2>1, <3>3, <4>1
    <3>4. CASE \E width \in {1, 6, 8, 12, 17, 18, 21, 27} :
                 PushField(TagNeed + width + 1, t + 1 + width + 1)
      <4>1. PICK width \in {1, 6, 8, 12, 17, 18, 21, 27} :
                 PushField(TagNeed + width + 1, t + 1 + width + 1)
        BY <3>4
      <4>2. width \in Nat /\ width <= width
        OBVIOUS
      <4> QED
        BY <3>3, <4>1, <4>2
    <3>5. CASE \E slen \in Lengths : PushBackString(t, slen)
      <4>1. PICK slen \in Lengths : PushField(TagNeed + slen + 1, t + 1 + slen + 1)
        BY <3>5 DEF PushBackString
      <4>2. slen \in Nat /\ slen <= slen
        BY LengthAssumption
      <4> QED
        BY <3>3, <4>1, <4>2
    <3>6. CASE \E n \in IntShapes : PushBackInt(t, n)
      <4>1. PICK n \in IntShapes :
              PushField(TagNeed + MaxChars(n.digits10) + 1, t + 1 + IntSize(n) + 1)
        BY <3>6 DEF PushBackInt
      <4>2. /\ IntSize(n) \in Nat /\ MaxChars(n.digits10) \in Nat
            /\ IntSize(n) <= MaxChars(n.digits10)
        BY IntAssumption, IntSizeFits DEF IsShape, MaxChars
      <4> QED
        BY <3>3, <4>1, <4>2
    <3>7. CASE \E n \in DecimalShapes : PushBackDecimal(t, n)
      <4>1. PICK n \in DecimalShapes :
              PushField(TagNeed + MaxChars(n.digits10) + 1 + 1, t + 1 + DecimalSize(n) + 1)
        BY <3>7 DEF PushBackDecimal
      <4>2. IsShape(n) /\ n.exponent \in Int /\ n.exponent >= -n.digits10
        BY DecimalAssumption DEF ModestExponents
      <4>3. /\ DecimalSize(n) \in Nat /\ MaxChars(n.digits10) + 1 \in Nat
            /\ DecimalSize(n) <= MaxChars(n.digits10) + 1
        BY <4>2, DecimalSizeType, DecimalSizeFits DEF IsShape, MaxChars
      <4>4. TagNeed + MaxChars(n.digits10) + 1 + 1 = TagNeed + (MaxChars(n.digits10) + 1) + 1
        BY <4>2 DEF TagNeed, MaxChars, IsShape
      <4> QED
        BY <3>3, <4>1, <4>3, <4>4
    <3>8. CASE \E u \in TagDigits, dlen \in Lengths : PushBackData(t, u, dlen)
      <4>1. PICK u \in TagDigits, dlen \in Lengths :
              PushField(TagNeed + MaxChars(9) + 1 + TagNeed + dlen + 1,
                        t + 1 + CountSize(dlen) + 1 + u + 1 + dlen + 1)
        BY <3>8 DEF PushBackData
      <4>2. u \in 1 .. 10 /\ dlen \in Nat /\ CountSize(dlen) \in 1 .. 10
        BY TagAssumption, LengthAssumption, CountSizeRange
      <4>3. /\ TagNeed + MaxChars(9) + 1 + TagNeed + dlen + 1 \in Nat
            /\ t + 1 + CountSize(dlen) + 1 + u + 1 + dlen + 1 \in Nat
            /\ t + 1 + CountSize(dlen) + 1 + u + 1 + dlen + 1
                 <= TagNeed + MaxChars(9) + 1 + TagNeed + dlen + 1
        BY <3>2, <4>2 DEF TagNeed, MaxChars
      <4> QED
        BY <2>1, <4>1, <4>3
    <3> QED
      BY <3>1, <3>4, <3>5, <3>6, <3>7, <3>8
  <2>4. CASE PushBackDataBackwards
    BY <2>4 DEF PushBackDataBackwards, Ignored, Fail, Called, bufferVars, NoOverrun
  <2>5. CASE PushBackTrailer
    BY <2>0, <2>5 DEF PushBackTrailer, TrailerRefused, TrailerWritten, Ignored, Fail,
                      Called, Fits, Place, TrailerSize, bufferVars, NoOverrun
  <2>6. CASE UNCHANGED vars
    BY <2>6 DEF vars, NoOverrun
  <2> QED
    BY <2>2, <2>3, <2>4, <2>5, <2>6 DEF Next
<1> QED
  BY <1>1, <1>2, Invariance, PTL DEF Spec

----------------------------------------------------------------------------
(* What a step may do *)

\* Every step of the writer is one of three: it ends or continues in error
\* with its sections as they were, or it writes one section without error.
Lost ==
  /\ Called /\ error' /\ told' # "ok"
  /\ error => UNCHANGED bufferVars
  /\ UNCHANGED <<next, bodyLength, placed>>

Grown(kind, size) ==
  /\ Called /\ ~error /\ ~error'
  /\ Place(kind, size)
  /\ told' = (IF kind = "trailer" THEN "ok" ELSE "none")

LEMMA FieldIsLostOrGrown ==
  ASSUME NEW need, NEW size, PushField(need, size)
  PROVE  Lost \/ Grown("field", size)
<1>1. CASE Ignored \/ (Usable /\ Fail)
  BY <1>1 DEF PushField, Ignored, Usable, Fail, Lost, bufferVars
<1>2. CASE Usable /\ Place("field", size) /\ UNCHANGED <<bodyLength, declared, error>>
  BY <1>2 DEF PushField, Usable, Grown
<1> QED
  BY <1>1, <1>2 DEF PushField

LEMMA StepKinds ==
  ASSUME TypeOK, Next
  PROVE  Lost \/ \E kind \in {"header", "field", "trailer"}, size \in Int : Grown(kind, size)
<1>1. CASE \E vlen \in Lengths : PushBackHeader(vlen)
  <2>1. PICK vlen \in Lengths : PushBackHeader(vlen)
    BY <1>1
  <2>2. CASE Ignored \/ (Usable /\ Fail)
    BY <2>1, <2>2 DEF PushBackHeader, Ignored, Usable, Fail, Lost, bufferVars
  <2>3. CASE Usable /\ Place("header", 2 + vlen + 3 + BodyArea) /\ UNCHANGED error
    <3>1. 2 + vlen + 3 + BodyArea \in Int
      BY LengthAssumption DEF BodyArea
    <3>2. Grown("header", 2 + vlen + 3 + BodyArea)
      BY <2>1, <2>3 DEF PushBackHeader, Usable, Grown
    <3> QED
      BY <3>1, <3>2
  <2> QED
    BY <2>1, <2>2, <2>3 DEF PushBackHeader
<1>2. CASE PushBackAny
  <2>1. PICK need \in Int, size \in Int : PushField(need, size)
    <3>1. PICK t \in TagDigits :
            \/ \E width \in {1, 6, 8, 12, 17, 18, 21, 27} :
                 PushField(TagNeed + width + 1, t + 1 + width + 1)
            \/ \E slen \in Lengths : PushBackString(t, slen)
            \/ \E n \in IntShapes : PushBackInt(t, n)
            \/ \E n \in DecimalShapes : PushBackDecimal(t, n)
            \/ \E u \in TagDigits, dlen \in Lengths : PushBackData(t, u, dlen)
      BY <1>2 DEF PushBackAny, PushBackChar, PushBackDate, PushBackMonthYear,
                  PushBackTimeOnly, PushBackTimeOnlyMillis, PushBackTimeOnlyNano,
                  PushBackTimestamp, PushBackTimestampMillis, PushBackTimestampNano
    <3>2. t \in Int /\ TagNeed \in Int
      BY TagAssumption DEF TagNeed, MaxChars
    <3>3. CASE \E width \in {1, 6, 8, 12, 17, 18, 21, 27} :
                 PushField(TagNeed + width + 1, t + 1 + width + 1)
      <4>1. PICK width \in Int : PushField(TagNeed + width + 1, t + 1 + width + 1)
        BY <3>3
      <4>2. TagNeed + width + 1 \in Int /\ t + 1 + width + 1 \in Int
        BY <3>2
      <4> QED
        BY <4>1, <4>2
    <3>4. CASE \E slen \in Lengths : PushBackString(t, slen)
      <4>1. PICK slen \in Lengths : PushField(TagNeed + slen + 1, t + 1 + slen + 1)
        BY <3>4 DEF PushBackString
      <4>2. TagNeed + slen + 1 \in Int /\ t + 1 + slen + 1 \in Int
        BY <3>2, LengthAssumption
      <4> QED
        BY <4>1, <4>2
    <3>5. CASE \E n \in IntShapes : PushBackInt(t, n)
      <4>1. PICK n \in IntShapes :
              PushField(TagNeed + MaxChars(n.digits10) + 1, t + 1 + IntSize(n) + 1)
        BY <3>5 DEF PushBackInt
      <4>2. TagNeed + MaxChars(n.digits10) + 1 \in Int /\ t + 1 + IntSize(n) + 1 \in Int
        BY <3>2, IntAssumption, IntSizeFits DEF IsShape, MaxChars
      <4> QED
        BY <4>1, <4>2
    <3>6. CASE \E n \in DecimalShapes : PushBackDecimal(t, n)
      <4>1. PICK n \in DecimalShapes :
              PushField(TagNeed + MaxChars(n.digits10) + 1 + 1, t + 1 + DecimalSize(n) + 1)
        BY <3>6 DEF PushBackDecimal
      <4>2. IsShape(n) /\ n.exponent \in Int
        BY DecimalAssumption
      <4>3. MaxChars(n.digits10) \in Int /\ DecimalSize(n) \in Int
        BY <4>2, DecimalSizeType DEF IsShape, MaxChars
      <4>4. /\ TagNeed + MaxChars(n.digits10) + 1 + 1 \in Int
            /\ t + 1 + DecimalSize(n) + 1 \in Int
        BY <3>2, <4>3
      <4> QED
        BY <4>1, <4>4
    <3>7. CASE \E u \in TagDigits, dlen \in Lengths : PushBackData(t, u, dlen)
      <4>1. PICK u \in TagDigits, dlen \in Lengths :
              PushField(TagNeed + MaxChars(9) + 1 + TagNeed + dlen + 1,
                        t + 1 + CountSize(dlen) + 1 + u + 1 + dlen + 1)
        BY <3>7 DEF PushBackData
      <4>2. u \in Int /\ dlen \in Nat /\ CountSize(dlen) \in Int /\ MaxChars(9) \in Int
        BY TagAssumption, LengthAssumption, CountSizeRange DEF MaxChars
      <4>3. /\ TagNeed + MaxChars(9) + 1 + TagNeed + dlen + 1 \in Int
            /\ t + 1 + CountSize(dlen) + 1 + u + 1 + dlen + 1 \in Int
        BY <3>2, <4>2
      <4> QED
        BY <4>1, <4>3
    <3> QED
      BY <3>1, <3>3, <3>4, <3>5, <3>6, <3>7
  <2> QED
    BY <2>1, FieldIsLostOrGrown
<1>3. CASE PushBackDataBackwards
  BY <1>3 DEF PushBackDataBackwards, Ignored, Usable, Fail, Lost, bufferVars
<1>4. CASE Called /\ TrailerRefused
  BY <1>4 DEF TrailerRefused, Ignored, Usable, Fail, Lost, bufferVars
<1>5. CASE Called /\ TrailerWritten
  <2>1. Grown("trailer", TrailerSize) /\ TrailerSize \in Int
    BY <1>5 DEF TypeOK, TrailerWritten, Usable, Grown, TrailerSize
  <2> QED
    BY <2>1
<1> QED
  BY <1>1, <1>2, <1>3, <1>4, <1>5 DEF Next, PushBackTrailer

\* After an error no operation changes the buffer or reports success.
THEOREM ErrorStays == Spec => ErrorIsSticky
<1>1. IInv /\ [Next]_vars =>
        [error => error' /\ UNCHANGED bufferVars /\ told' # "ok"]_vars
  BY StepKinds DEF IInv, Lost, Grown
<1> QED
  BY <1>1, Invariance, PTL DEF Spec, ErrorIsSticky

\* An operation appends one section or none, and alters none.
THEOREM SectionsStay == Spec => AppendOnly
<1>1. ASSUME IInv, Next
      PROVE  /\ Len(placed') - Len(placed) \in {0, 1}
             /\ \A i \in 1 .. Len(placed) : placed'[i] = placed[i]
  <2>1. placed \in Seq(Section) /\ TypeOK
    BY <1>1 DEF IInv, TypeOK
  <2>2. CASE Lost
    BY <2>1, <2>2 DEF Lost
  <2>3. CASE \E kind \in {"header", "field", "trailer"}, size \in Int : Grown(kind, size)
    BY <2>1, <2>3 DEF Grown, Place
  <2> QED
    BY <1>1, <2>1, <2>2, <2>3, StepKinds
<1>2. IInv /\ [Next]_vars =>
        [/\ Len(placed') - Len(placed) \in {0, 1}
         /\ \A i \in 1 .. Len(placed) : placed'[i] = placed[i]]_vars
  BY <1>1
<1> QED
  BY <1>2, Invariance, PTL DEF Spec, AppendOnly

\* The writer implements the promise to its caller, FieldLog.
THEOREM WriterImplementsFieldLog == Spec => ImplementsFieldLog
<1> DEFINE sizes == [i \in 1 .. Len(placed) |-> placed[i].size]
<1>1. Init => Log!Init
  <2> SUFFICES ASSUME Init PROVE Log!Init
    OBVIOUS
  <2>1. sizes = <<>>
    BY DEF Init
  <2> QED
    BY <2>1 DEF Init, Log!Init
<1>2. ASSUME IInv, [Next]_vars
      PROVE  [Log!Next]_(Log!logVars)
  <2>0. placed \in Seq(Section) /\ TypeOK /\ calls \in Nat
    BY <1>2, CallsAssumption DEF IInv, TypeOK
  <2>1. sizes \in Seq(Int) /\ Len(sizes) = Len(placed)
    <3>1. \A i \in 1 .. Len(placed) : placed[i].size \in Int
      <4>1. \A i \in 1 .. Len(placed) : placed[i] \in Section
        BY <2>0
      <4> QED
        BY <4>1 DEF Section
    <3>2. Len(placed) \in Nat
      BY <2>0
    <3> QED
      BY <3>1, <3>2
  <2>2. CASE Lost
    <3>1. sizes' = sizes
      BY <2>2 DEF Lost
    <3>2. PICK seal \in BOOLEAN : told' = IF seal THEN "failed" ELSE "none"
      <4>1. told' \in {"none", "failed"}
        BY <1>2, <2>2, StepIInv DEF IInv, TypeOK, Lost
      <4> QED
        BY <4>1
    <3>3. error' = TRUE /\ calls' = calls + 1
      BY <1>2, <2>2, StepIInv DEF IInv, TypeOK, Lost, Called
    <3>4. Log!Lose(seal)
      BY <3>1, <3>2, <3>3 DEF Log!Lose
    <3> QED
      BY <3>4 DEF Log!Next
  <2>3. CASE \E kind \in {"header", "field", "trailer"}, size \in Int : Grown(kind, size)
    <3>1. PICK kind \in {"header", "field", "trailer"}, size \in Int : Grown(kind, size)
      BY <2>3
    <3>2. /\ Len(placed') = Len(placed) + 1
          /\ \A i \in 1 .. Len(placed) : placed'[i] = placed[i]
          /\ placed' \in Seq(Section)
      BY <1>2, <2>0, <3>1, StepIInv DEF Grown, Place, IInv, TypeOK
    <3>3. Len(placed) = calls /\ error = FALSE /\ error' = FALSE /\ calls' = calls + 1
      BY <1>2, <2>0, <3>1, StepIInv DEF Grown, Called, IInv, Accounting, TypeOK
    <3>4. sizes' = [i \in 1 .. Len(placed') |-> placed'[i].size]
      OBVIOUS
    <3>5. Len(sizes') = Len(placed')
      <4>1. \A i \in 1 .. Len(placed') : placed'[i].size \in Int
        <5>1. \A i \in 1 .. Len(placed') : placed'[i] \in Section
          BY <3>2
        <5> QED
          BY <5>1 DEF Section
      <4>2. Len(placed') \in Nat
        BY <3>2
      <4> QED
        BY <3>4, <4>1, <4>2
    <3>6. \A i \in 1 .. Len(sizes) : sizes'[i] = sizes[i]
      BY <2>0, <2>1, <3>2
    <3>7. Log!Write(kind = "trailer")
      BY <2>1, <3>1, <3>2, <3>3, <3>5, <3>6 DEF Grown, Log!Write
    <3> QED
      BY <3>7 DEF Log!Next
  <2>4. CASE UNCHANGED vars
    BY <2>4 DEF vars, Log!logVars
  <2> QED
    BY <1>2, <2>0, <2>2, <2>3, <2>4, StepKinds
<1> QED
  BY <1>1, <1>2, Invariance, PTL DEF Spec, ImplementsFieldLog, Log!Spec
=============================================================================
