------------------------- MODULE FrameScannerProofs -------------------------
(***************************************************************************)
(* The scan of a buffer reads no byte outside of it and delivers messages  *)
(* that lie in it, whatever the bytes, the size and the width of BodyLength.*)
(* It implements MessageStream.                                            *)
(***************************************************************************)
EXTENDS FrameScanner, ReadingProofs

\* Where b and scan stand, by the part of the code the reader is in.
Position ==
  /\ pc = "prefix" => from + 9 <= b /\ b <= e
  /\ pc = "tag"    => from + 9 <= b /\ b < e
  /\ pc = "digits" => from + 12 <= b /\ b <= e + 1
  /\ pc = "type"   => from + 13 <= b /\ b <= e
  /\ pc \in {"close", "value"} =>
       from + 13 <= b /\ b + 3 < e /\ checksum + 7 <= e
  /\ pc = "value"  => b + 3 <= scan
  /\ pc = "resync" => from < b /\ b <= e - 9
  /\ pc = "open"   => delivered = <<>>

IInv ==
  /\ TypeOK
  /\ Position
  /\ ReadsInBounds
  /\ FramesInBuffer

----------------------------------------------------------------------------
(* Lemmas *)

LEMMA SizeOfBuffer == TypeOK => e \in Nat
  BY DEF TypeOK, e

\* The elements of a sequence.
LEMMA ElementType ==
  ASSUME NEW S, NEW s \in Seq(S), NEW i \in 1 .. Len(s)
  PROVE  s[i] \in S
  OBVIOUS

LEMMA FrameType ==
  ASSUME TypeOK, NEW i \in 1 .. Len(delivered)
  PROVE  delivered[i].from \in Nat /\ delivered[i].end \in Nat
<1>1. delivered[i] \in [from : Nat, end : Nat]
  BY ElementType DEF TypeOK
<1> QED
  BY <1>1

LEMMA LongerType ==
  ASSUME NEW digit \in 0 .. 9, TypeOK
  PROVE  Longer(digit) \in 0 .. SizeModulus - 1
<1> DEFINE n == length * 10 + digit
<1>1. n \in Nat /\ SizeModulus \in Nat \ {0}
  BY ModulusAssumption DEF TypeOK
<1> HIDE DEF n
<1>2. n % SizeModulus \in 0 .. SizeModulus - 1
  BY <1>1
<1> QED
  BY <1>2 DEF n, Longer

\* A step that delivers nothing and stays at a message keeps the frames.
LEMMA SameFrames ==
  ASSUME IInv, UNCHANGED <<buf, from, delivered>>
  PROVE  FramesInBuffer'
  BY DEF IInv, FramesInBuffer, e

\* A new reader at a position behind the current one, nothing delivered.
LEMMA NewReaderKeeps ==
  ASSUME IInv, NEW p \in from .. e, NewReader(p), UNCHANGED <<buf, delivered>>,
         read' \subseteq 0 .. e - 1
  PROVE  IInv'
<1>1. TypeOK'
  BY SizeOfBuffer, ModulusAssumption DEF IInv, TypeOK, NewReader, e
<1>2. Position'
  BY DEF NewReader, Position
<1>3. ReadsInBounds'
  BY DEF ReadsInBounds, e
<1>4. FramesInBuffer'
  <2>1. from \in Nat /\ e \in Nat /\ from' = p /\ e' = e
    BY SizeOfBuffer DEF IInv, TypeOK, NewReader, e
  <2>2. \A i \in 1 .. Len(delivered) : delivered[i].end <= p
    BY <2>1, FrameType DEF IInv, FramesInBuffer
  <2> QED
    BY <2>1, <2>2 DEF IInv, FramesInBuffer
<1> QED
  BY <1>1, <1>2, <1>3, <1>4 DEF IInv

\* The current reader's message is given up or found invalid.
LEMMA EndingKeeps ==
  ASSUME IInv, NEW label \in {"tail", "invalid"}, Go(label), read' \subseteq 0 .. e - 1
  PROVE  IInv'
<1>1. TypeOK'
  BY DEF IInv, TypeOK, Go, e
<1>2. Position'
  BY DEF Go, Position
<1>3. ReadsInBounds'
  BY DEF Go, ReadsInBounds, e
<1>4. FramesInBuffer'
  BY SameFrames DEF Go
<1> QED
  BY <1>1, <1>2, <1>3, <1>4 DEF IInv

LEMMA GivingUpKeeps ==
  ASSUME IInv, GiveUp
  PROVE  IInv'
  BY EndingKeeps DEF GiveUp

----------------------------------------------------------------------------
(* The invariant *)

LEMMA InitEstablishes == Init => IInv
<1> SUFFICES ASSUME Init PROVE IInv
  OBVIOUS
<1>1. buf \in Seq(Byte)
  BY BuffersAssumption DEF Init
<1>2. TypeOK
  BY <1>1, ModulusAssumption DEF Init, TypeOK, e
<1> QED
  BY <1>2 DEF Init, IInv, Position, ReadsInBounds, FramesInBuffer, TypeOK, e

LEMMA OpenKeeps ==
  ASSUME IInv, Open
  PROVE  IInv'
<1>1. TypeOK'
  BY ModulusAssumption DEF IInv, TypeOK, Open, NewReader, e
<1>2. Position' /\ ReadsInBounds'
  BY DEF Open, NewReader, Position, ReadsInBounds
<1>3. FramesInBuffer'
  BY <1>1, SizeOfBuffer DEF IInv, Position, FramesInBuffer, Open, NewReader, TypeOK, e
<1> QED
  BY <1>1, <1>2, <1>3 DEF IInv

LEMMA CheckSizeKeeps ==
  ASSUME IInv, CheckSize
  PROVE  IInv'
<1>1. CASE GiveUp
  BY <1>1, GivingUpKeeps
<1>2. CASE /\ e - from >= 9 /\ b' = from + 9 /\ pc' = "prefix" /\ read' = {}
           /\ UNCHANGED <<buf, from, scan, length, delivered>>
  <2>1. TypeOK'
    BY <1>2 DEF IInv, TypeOK, e
  <2>2. Position' /\ ReadsInBounds'
    BY <1>2, SizeOfBuffer DEF IInv, TypeOK, Position, ReadsInBounds, e
  <2> QED
    BY <1>2, <2>1, <2>2, SameFrames DEF IInv
<1> QED
  BY <1>1, <1>2 DEF CheckSize

LEMMA ScanPrefixKeeps ==
  ASSUME IInv, ScanPrefix
  PROVE  IInv'
<1>1. CASE GiveUp
  BY <1>1, GivingUpKeeps
<1>2. CASE b < e /\ read' = {b}
  <2>1. b \in Nat /\ e \in Nat /\ read' \subseteq 0 .. e - 1
    BY <1>2, SizeOfBuffer DEF IInv, TypeOK
  <2>2. CASE Go("invalid")
    BY <2>1, <2>2, EndingKeeps
  <2>3. CASE Go("tag")
    <3>1. TypeOK'
      BY <2>3 DEF IInv, TypeOK, Go, e
    <3>2. Position' /\ ReadsInBounds'
      BY <1>2, <2>1, <2>3 DEF IInv, ScanPrefix, Position, ReadsInBounds, Go, e
    <3> QED
      BY <2>3, <3>1, <3>2, SameFrames DEF IInv, Go
  <2>4. CASE b' = b + 1 /\ UNCHANGED <<buf, pc, from, scan, length, delivered>>
    <3>1. TypeOK'
      BY <2>1, <2>4 DEF IInv, TypeOK, e
    <3>2. Position' /\ ReadsInBounds'
      BY <1>2, <2>1, <2>4 DEF IInv, TypeOK, ScanPrefix, Position, ReadsInBounds, e
    <3> QED
      BY <2>4, <3>1, <3>2, SameFrames DEF IInv
  <2> QED
    BY <1>2, <2>2, <2>3, <2>4, <2>1 DEF ScanPrefix
<1> QED
  BY <1>1, <1>2 DEF ScanPrefix

LEMMA CheckTagKeeps ==
  ASSUME IInv, CheckTag
  PROVE  IInv'
<1>1. CASE GiveUp
  BY <1>1, GivingUpKeeps
<1>2. CASE b + 1 < e /\ read' = {b + 1}
  <2>1. b \in Nat /\ e \in Nat /\ read' \subseteq 0 .. e - 1
    BY <1>2, SizeOfBuffer DEF IInv, TypeOK
  <2>2. CASE Go("invalid")
    BY <2>1, <2>2, EndingKeeps
  <2>3. CASE b' = b + 3 /\ length' = 0 /\ pc' = "digits" /\ UNCHANGED <<buf, from, scan, delivered>>
    <3>1. TypeOK'
      BY <2>1, <2>3, ModulusAssumption DEF IInv, TypeOK, e
    <3>2. Position' /\ ReadsInBounds'
      BY <1>2, <2>1, <2>3 DEF IInv, TypeOK, CheckTag, Position, ReadsInBounds, e
    <3> QED
      BY <2>3, <3>1, <3>2, SameFrames DEF IInv
  <2> QED
    BY <1>2, <2>2, <2>3, <2>1 DEF CheckTag
<1> QED
  BY <1>1, <1>2 DEF CheckTag

LEMMA ScanDigitsKeeps ==
  ASSUME IInv, ScanDigits
  PROVE  IInv'
<1>1. CASE GiveUp
  BY <1>1, GivingUpKeeps
<1>2. CASE b < e /\ read' = {b}
  <2>1. b \in Nat /\ e \in Nat /\ read' \subseteq 0 .. e - 1
    BY <1>2, SizeOfBuffer DEF IInv, TypeOK
  <2>2. CASE Go("invalid")
    BY <2>1, <2>2, EndingKeeps
  <2>3. CASE b' = b + 1 /\ pc' = "type" /\ UNCHANGED <<buf, from, scan, length, delivered>>
    <3>1. TypeOK'
      BY <2>1, <2>3 DEF IInv, TypeOK, e
    <3>2. Position' /\ ReadsInBounds'
      BY <1>2, <2>1, <2>3 DEF IInv, TypeOK, ScanDigits, Position, ReadsInBounds, e
    <3> QED
      BY <2>3, <3>1, <3>2, SameFrames DEF IInv
  <2>4. CASE /\ At(buf, b) \in Digits /\ length' = Longer(At(buf, b) - Zero)
             /\ b' = b + 1 /\ UNCHANGED <<buf, pc, from, scan, delivered>>
    <3>1. At(buf, b) - Zero \in 0 .. 9
      BY <2>4 DEF Digits, Zero
    <3>2. length' \in 0 .. SizeModulus - 1
      BY <2>4, <3>1, LongerType DEF IInv
    <3>3. TypeOK'
      BY <2>1, <2>4, <3>2 DEF IInv, TypeOK, e
    <3>4. Position' /\ ReadsInBounds'
      BY <1>2, <2>1, <2>4 DEF IInv, TypeOK, ScanDigits, Position, ReadsInBounds, e
    <3> QED
      BY <2>4, <3>3, <3>4, SameFrames DEF IInv
  <2> QED
    BY <1>2, <2>2, <2>3, <2>4, <2>1 DEF ScanDigits
<1> QED
  BY <1>1, <1>2 DEF ScanDigits

LEMMA CheckTypeKeeps ==
  ASSUME IInv, CheckType
  PROVE  IInv'
<1>0. /\ b \in Nat /\ e \in Nat /\ length \in Nat
      /\ pc = "type" /\ from + 13 <= b
  BY SizeOfBuffer, ModulusAssumption DEF IInv, TypeOK, Position, CheckType
<1>1. CASE GiveUp
  BY <1>1, GivingUpKeeps
<1>2. CASE ~TypeMissing /\ read' \in {{b}, {b, b + 1}}
  <2>1. b + 3 < e
    BY <1>0, <1>2 DEF TypeMissing
  <2>2. read' \subseteq 0 .. e - 1
    BY <1>0, <1>2, <2>1
  <2>3. CASE Go("invalid") \/ Go("tail")
    BY <2>2, <2>3, EndingKeeps
  <2>4. CASE length <= e - b /\ checksum + 7 <= e /\ Go("close")
    <3>1. TypeOK'
      BY <2>4 DEF IInv, TypeOK, Go, e
    <3>2. Position'
      BY <1>0, <2>1, <2>4 DEF Position, Go, checksum, e
    <3>3. ReadsInBounds'
      BY <2>2, <2>4 DEF ReadsInBounds, Go, e
    <3> QED
      BY <2>4, <3>1, <3>2, <3>3, SameFrames DEF IInv, Go
  <2> QED
    BY <1>2, <2>3, <2>4, <2>1 DEF CheckType, TypeMissing, GiveUp
<1> QED
  BY <1>1, <1>2 DEF CheckType

LEMMA CheckCloseKeeps ==
  ASSUME IInv, CheckClose
  PROVE  IInv'
<1>0. /\ b \in Nat /\ e \in Nat /\ length \in Nat /\ checksum \in Nat
      /\ from + 13 <= b /\ b + 3 < e /\ checksum + 7 <= e /\ from \in Nat
      /\ b <= checksum
  BY SizeOfBuffer, ModulusAssumption DEF IInv, TypeOK, Position, CheckClose, checksum
<1>1. read' \subseteq 0 .. e - 1
  BY <1>0 DEF CheckClose
<1>2. CASE Go("invalid")
  BY <1>1, <1>2, EndingKeeps
<1>3. CASE scan' = b + 3 /\ pc' = "value" /\ UNCHANGED <<buf, from, b, length, delivered>>
  <2>1. TypeOK'
    BY <1>0, <1>3 DEF IInv, TypeOK, e
  <2>2. Position' /\ ReadsInBounds'
    BY <1>0, <1>1, <1>3 DEF Position, ReadsInBounds, checksum, e
  <2> QED
    BY <1>3, <2>1, <2>2, SameFrames DEF IInv
<1> QED
  BY <1>2, <1>3 DEF CheckClose

\* The new frame: it begins at the reader and ends where the next one begins.
LEMMA ScanValueKeeps ==
  ASSUME IInv, ScanValue
  PROVE  IInv'
<1>0. /\ b \in Nat /\ e \in Nat /\ length \in Nat /\ checksum \in Nat /\ scan \in Nat
      /\ from + 13 <= b /\ b + 3 <= scan /\ checksum + 7 <= e /\ from \in Nat
      /\ pc = "value"
  BY SizeOfBuffer, ModulusAssumption DEF IInv, TypeOK, Position, ScanValue, checksum
<1>1. CASE read' = {} /\ Go("invalid")
  BY <1>1, EndingKeeps
<1>2. CASE scan < checksum /\ read' = {scan} /\ scan' = scan + 1
           /\ UNCHANGED <<buf, pc, from, b, length, delivered>>
  <2>1. TypeOK'
    BY <1>0, <1>2 DEF IInv, TypeOK, e
  <2>2. Position' /\ ReadsInBounds'
    BY <1>0, <1>2 DEF IInv, Position, ReadsInBounds, checksum, e
  <2> QED
    BY <1>2, <2>1, <2>2, SameFrames DEF IInv
<1>3. CASE /\ scan < checksum /\ read' = {scan}
           /\ delivered' = Append(delivered, [from |-> from, end |-> checksum + 7])
           /\ NewReader(NextStart) /\ UNCHANGED buf
  <2> DEFINE new == [from |-> from, end |-> checksum + 7]
  <2>1. from + 24 <= checksum + 7
    BY <1>0, <1>3
  <2>2. new \in [from : Nat, end : Nat]
    BY <1>0
  <2>3. /\ delivered' \in Seq([from : Nat, end : Nat])
        /\ Len(delivered') = Len(delivered) + 1
        /\ \A i \in 1 .. Len(delivered) : delivered'[i] = delivered[i]
        /\ delivered'[Len(delivered) + 1] = new
        /\ Len(delivered) \in Nat
    BY <1>3, <2>2 DEF IInv, TypeOK
  <2>4. from' = checksum + 7 /\ e' = e
    BY <1>3 DEF NewReader, NextStart, e
  <2>5. TypeOK'
    BY <1>0, <1>3, <2>3, ModulusAssumption DEF IInv, TypeOK, NewReader, NextStart, e
  <2>6. Position' /\ ReadsInBounds'
    BY <1>0, <1>3 DEF NewReader, Position, ReadsInBounds, e
  <2>7. \A i \in 1 .. Len(delivered) :
          delivered[i].from + 24 <= delivered[i].end /\ delivered[i].end <= from
    BY DEF IInv, FramesInBuffer
  <2>8. \A i \in 1 .. Len(delivered) - 1 : delivered[i].end <= delivered[i + 1].from
    BY DEF IInv, FramesInBuffer
  <2>9. \A i \in 1 .. Len(delivered) : delivered[i].from \in Nat /\ delivered[i].end \in Nat
    BY FrameType DEF IInv
  <2> HIDE DEF new
  <2>10. new.from = from /\ new.end = checksum + 7
    BY DEF new
  <2>11. ASSUME NEW i \in 1 .. Len(delivered')
         PROVE  delivered'[i].from + 24 <= delivered'[i].end /\ delivered'[i].end <= from'
    <3>1. CASE i \in 1 .. Len(delivered)
      <4>1. delivered'[i] = delivered[i]
        BY <2>3, <3>1
      <4>2. delivered[i].from + 24 <= delivered[i].end /\ delivered[i].end <= from
        BY <2>7, <3>1
      <4>3. delivered[i].end \in Nat
        BY <2>9, <3>1
      <4>4. from <= from' /\ from' \in Nat
        BY <1>0, <2>1, <2>4
      <4> QED
        BY <1>0, <4>1, <4>2, <4>3, <4>4
    <3>2. CASE i = Len(delivered) + 1
      BY <1>0, <2>1, <2>3, <2>4, <2>10, <3>2
    <3> QED
      BY <2>3, <3>1, <3>2
  <2>12. ASSUME NEW i \in 1 .. Len(delivered') - 1
         PROVE  delivered'[i].end <= delivered'[i + 1].from
    <3>1. CASE i \in 1 .. Len(delivered) - 1
      <4>1. i \in 1 .. Len(delivered) /\ i + 1 \in 1 .. Len(delivered)
        BY <2>3, <3>1
      <4>2. delivered'[i] = delivered[i] /\ delivered'[i + 1] = delivered[i + 1]
        BY <2>3, <4>1
      <4> QED
        BY <2>8, <3>1, <4>2
    <3>2. CASE i = Len(delivered)
      BY <2>3, <2>7, <2>10, <3>2
    <3> QED
      BY <2>3, <3>1, <3>2
  <2>13. FramesInBuffer'
    BY <1>0, <2>4, <2>11, <2>12 DEF FramesInBuffer
  <2> QED
    BY <2>5, <2>6, <2>13 DEF IInv
<1> QED
  BY <1>1, <1>2, <1>3 DEF ScanValue

LEMMA StartSearchKeeps ==
  ASSUME IInv, StartSearch
  PROVE  IInv'
<1>0. e \in Nat /\ from \in 0 .. e
  BY SizeOfBuffer DEF IInv, TypeOK
<1>1. CASE NewReader(e) /\ read' = {} /\ UNCHANGED <<buf, delivered>>
  BY <1>0, <1>1, NewReaderKeeps
<1>2. CASE /\ read' = {} /\ e - from >= 10 /\ b' = SearchFrom /\ pc' = "resync"
           /\ UNCHANGED <<buf, from, scan, length, delivered>>
  <2>1. TypeOK'
    BY <1>0, <1>2 DEF IInv, TypeOK, SearchFrom, e
  <2>2. Position' /\ ReadsInBounds'
    BY <1>0, <1>2 DEF Position, ReadsInBounds, SearchFrom, e
  <2> QED
    BY <1>2, <2>1, <2>2, SameFrames DEF IInv
<1> QED
  BY <1>1, <1>2 DEF StartSearch

LEMMA ScanResyncKeeps ==
  ASSUME IInv, ScanResync
  PROVE  IInv'
<1>0. e \in Nat /\ from \in 0 .. e /\ b \in from .. e /\ from < b /\ b <= e - 9
      /\ pc = "resync"
  BY SizeOfBuffer DEF IInv, TypeOK, Position, ScanResync
<1>1. CASE b >= e - 10
  BY <1>0, <1>1, NewReaderKeeps DEF ScanResync
<1>2. CASE b < e - 10 /\ read' = b .. b + 4
  <2>1. read' \subseteq 0 .. e - 1
    BY <1>0, <1>2
  <2>2. CASE NewReader(b) /\ UNCHANGED <<buf, delivered>>
    BY <1>0, <2>1, <2>2, NewReaderKeeps
  <2>3. CASE b' = b + 1 /\ UNCHANGED <<buf, pc, from, scan, length, delivered>>
    <3>1. TypeOK'
      BY <1>0, <2>3 DEF IInv, TypeOK, e
    <3>2. Position' /\ ReadsInBounds'
      BY <1>0, <1>2, <2>1, <2>3 DEF Position, ReadsInBounds, e
    <3> QED
      BY <2>3, <3>1, <3>2, SameFrames DEF IInv
  <2> QED
    BY <1>2, <2>2, <2>3, <1>0 DEF ScanResync
<1> QED
  BY <1>1, <1>2, <1>0 DEF ScanResync

LEMMA StepKeeps == IInv /\ [Next]_vars => IInv'
<1> SUFFICES ASSUME IInv, [Next]_vars PROVE IInv'
  OBVIOUS
<1>1. CASE UNCHANGED vars
  BY <1>1 DEF vars, IInv, TypeOK, Position, ReadsInBounds, FramesInBuffer, e, checksum
<1>2. CASE Next
  BY <1>2, OpenKeeps, CheckSizeKeeps, ScanPrefixKeeps, CheckTagKeeps, ScanDigitsKeeps,
     CheckTypeKeeps, CheckCloseKeeps, ScanValueKeeps, StartSearchKeeps, ScanResyncKeeps DEF Next
<1> QED
  BY <1>1, <1>2

----------------------------------------------------------------------------
(* Theorems *)

\* The invariant behind the three results below: where the code's pointers
\* stand at each of its branches.
THEOREM Invariance == Spec => []IInv
  BY InitEstablishes, StepKeeps, PTL DEF Spec

\* The variables keep their types; BodyLength stays within a size_t.
THEOREM TypeCorrect == Spec => []TypeOK
<1>1. IInv => TypeOK
  BY DEF IInv
<1> QED
  BY <1>1, Invariance, PTL

\* init() and next_message_reader() dereference no pointer outside the
\* buffer, whatever bytes have arrived and wherever they end.
THEOREM NoReadOutside == Spec => []ReadsInBounds
<1>1. IInv => ReadsInBounds
  BY DEF IInv
<1> QED
  BY <1>1, Invariance, PTL

\* Every message passed to fn lies in the buffer, behind the one before.
THEOREM FramesLieInBuffer == Spec => []FramesInBuffer
<1>1. IInv => FramesInBuffer
  BY DEF IInv
<1> QED
  BY <1>1, Invariance, PTL

----------------------------------------------------------------------------
(* What MessageStream says of bytes in the buffer, in the operators of this *)
(* module.                                                                  *)

LEMMA SameAt == \A s, i : Stream!At(s, i) = At(s, i)
  BY DEF Stream!Char, Char, Stream!At, At, Stream!Outside, Outside

LEMMA SameFirst == \A S, i, j : Stream!FirstIn(S, i, j) = FirstIn(S, i, j)
  BY DEF Stream!FirstIn, FirstIn

LEMMA SameSOH == \A s, i, j : Stream!FindSOH(s, i, j) = FindSOH(s, i, j)
  BY DEF Stream!FindSOH, FindSOH, Stream!FirstIn, FirstIn, Stream!Char, Char, Stream!At, At, Stream!Outside, Outside,
         Stream!SOH, SOH

LEMMA SameUnsigned == \A s, i, j, m : Stream!Unsigned(s, i, j, m) = Unsigned(s, i, j, m)
  BY DEF Stream!Unsigned, Unsigned, Stream!Char, Char, Stream!At, At, Stream!Outside, Outside, Stream!Zero, Zero

\* BeginString ends at h: what the reader says depends on what is behind.
LEMMA PrefixFound ==
  ASSUME NEW s, NEW p \in Nat, NEW end \in Nat, NEW h \in p + 9 .. p + 12,
         h < end, At(s, h) = SOH, \A k \in p + 9 .. h - 1 : At(s, k) # SOH
  PROVE  Stream!Verdict(s, p, end) = Stream!LengthVerdict(s, h, end)
<1> DEFINE ends == {j \in p + 9 .. p + 12 : j < end /\ At(s, j) = SOH}
           From[n \in Nat] == Stream!LengthVerdict(s, n, end)
<1>1. ends = {j \in Stream!PrefixEnds(p) : j < end /\ Stream!At(s, j) = Stream!SOH}
  <2>1. \A j : Stream!At(s, j) = At(s, j)
    BY SameAt
  <2> QED
    BY <2>1 DEF Stream!PrefixEnds, Stream!SOH, SOH
<1>2. Stream!Verdict(s, p, end) =
        IF ends # {} THEN From[Stream!FirstIn(ends, p + 9, end)]
        ELSE IF Stream!TooLong(p, end) THEN Stream!Invalid ELSE Stream!Incomplete
  BY <1>1 DEF Stream!Verdict
<1>3. h \in ends /\ \A k \in p + 9 .. h - 1 : k \notin ends
  OBVIOUS
<1>4. h \in p + 9 .. end - 1 /\ h \in Nat
  OBVIOUS
<1>5. Stream!FirstIn(ends, p + 9, end) = h
  <2> HIDE DEF ends
  <2>1. FirstIn(ends, p + 9, end) = h
    BY <1>3, <1>4, FirstInUnique
  <2> QED
    BY <2>1, SameFirst
<1>6. From[h] = Stream!LengthVerdict(s, h, end)
  BY <1>4
<1> HIDE DEF ends, From
<1> QED
  BY <1>2, <1>3, <1>5, <1>6

\* BeginString does not end where it may.
LEMMA PrefixMissing ==
  ASSUME NEW s, NEW p \in Nat, NEW end \in Nat,
         \A k \in p + 9 .. p + 12 : k < end => At(s, k) # SOH
  PROVE  Stream!Verdict(s, p, end)
           = IF end - p > 12 THEN Stream!Invalid ELSE Stream!Incomplete
<1>1. {j \in Stream!PrefixEnds(p) : j < end /\ Stream!At(s, j) = Stream!SOH} = {}
  <2>1. \A j : Stream!At(s, j) = At(s, j)
    BY SameAt
  <2> QED
    BY <2>1 DEF Stream!PrefixEnds, Stream!SOH, SOH
<1> QED
  BY <1>1 DEF Stream!Verdict, Stream!TooLong

\* There is no byte behind BeginString, or it is no 9.
LEMMA TagMissing ==
  ASSUME NEW s, NEW h \in Nat, NEW end \in Nat
  PROVE  /\ h + 1 >= end => Stream!LengthVerdict(s, h, end) = Stream!Incomplete
         /\ h + 1 < end /\ At(s, h + 1) # 57 => Stream!LengthVerdict(s, h, end) = Stream!Invalid
<1>1. Stream!At(s, h + 1) = At(s, h + 1)
  BY SameAt
<1> QED
  BY <1>1 DEF Stream!LengthVerdict

\* The digits of BodyLength end at stop, or with the bytes.
LEMMA LengthStops ==
  ASSUME NEW s, NEW h \in Nat, NEW end \in Nat, NEW stop \in Nat,
         h + 1 < end, At(s, h + 1) = 57, h + 3 <= stop,
         \A k \in h + 3 .. stop - 1 : At(s, k) \in Digits,
         stop < end => At(s, stop) \notin Digits
  PROVE  Stream!LengthVerdict(s, h, end) =
           IF stop >= end THEN Stream!Incomplete
           ELSE IF At(s, stop) # SOH THEN Stream!Invalid
           ELSE Stream!BodyVerdict(s, h + 3, stop, end)
<1> DEFINE S == {j \in h + 3 .. end - 1 : At(s, j) \notin Digits}
           first == Stream!FirstIn(S, h + 3, end)
           Stopped[n \in Nat] ==
             IF n >= end THEN Stream!Incomplete
             ELSE IF Stream!At(s, n) # Stream!SOH THEN Stream!Invalid
             ELSE Stream!BodyVerdict(s, h + 3, n, end)
<1>0. \A j : Stream!At(s, j) = At(s, j)
  BY SameAt
<1>1. S = {j \in h + 3 .. end - 1 : Stream!At(s, j) \notin Stream!Digits}
  BY <1>0 DEF Stream!Digits, Digits
<1>2. Stream!LengthVerdict(s, h, end) = Stopped[first]
  <2>1. Stream!At(s, h + 1) = 57
    BY <1>0
  <2> HIDE DEF S
  <2> QED
    BY <1>1, <2>1 DEF Stream!LengthVerdict
<1>3. first = FirstIn(S, h + 3, end)
  BY SameFirst
<1>4. CASE stop < end
  <2>1. stop \in S /\ \A k \in h + 3 .. stop - 1 : k \notin S
    BY <1>4
  <2>2. stop \in h + 3 .. end - 1
    BY <1>4
  <2>3. first = stop
    <3> HIDE DEF S
    <3> QED
      BY <1>3, <2>1, <2>2, FirstInUnique
  <2> HIDE DEF S, first
  <2> QED
    BY <1>0, <1>2, <1>4, <2>3 DEF Stream!SOH, SOH
<1>5. CASE stop >= end
  <2>1. S = {}
    BY <1>5
  <2>2. first = end
    BY <1>3, <2>1 DEF FirstIn
  <2> HIDE DEF S, first
  <2> QED
    BY <1>2, <1>5, <2>2
<1> QED
  BY <1>4, <1>5

\* What the reader says from MsgType on, of a body of the given size at at.
BodyAnswer(s, at, size, end) ==
  LET close == at + size
      value == FindSOH(s, at + 3, close)
  IN  IF at + 3 >= end THEN Stream!Incomplete
      ELSE IF At(s, at) # 51 \/ At(s, at + 1) # 53 THEN Stream!Invalid
      ELSE IF size > end - at \/ close + 7 > end THEN Stream!Incomplete
      ELSE IF At(s, close - 1) = SOH /\ At(s, close + 6) = SOH /\ value < close
      THEN Stream!Frame(at, value, close)
      ELSE Stream!Invalid

LEMMA BodyStands ==
  ASSUME NEW s, NEW i \in Nat, NEW stop \in Nat, NEW end \in Nat,
         Unsigned(s, i, stop, SizeModulus) \in Nat
  PROVE  Stream!BodyVerdict(s, i, stop, end) =
           BodyAnswer(s, stop + 1, Unsigned(s, i, stop, SizeModulus), end)
<1> DEFINE at     == stop + 1
           size   == Unsigned(s, i, stop, SizeModulus)
           close  == at + size
           Closed == [c \in Nat |-> Stream!IsClosed(s, c) /\ Stream!FindSOH(s, at + 3, c) < c]
<1>1. size = Stream!Unsigned(s, i, stop, SizeModulus)
  BY SameUnsigned
<1>2. \A j : Stream!At(s, j) = At(s, j)
  BY SameAt
<1>3. FindSOH(s, at + 3, close) = Stream!FindSOH(s, at + 3, close)
  BY SameSOH
<1>4. at \in Nat /\ size \in Nat /\ close \in Nat
  OBVIOUS
<1> HIDE DEF size
<1>5. Stream!BodyVerdict(s, i, stop, end) =
        IF at + 3 >= end THEN Stream!Incomplete
        ELSE IF At(s, at) # 51 \/ At(s, at + 1) # 53 THEN Stream!Invalid
        ELSE IF ~Stream!HasArrived(size, close, at, end) THEN Stream!Incomplete
        ELSE IF Closed[close] THEN Stream!Frame(at, Stream!FindSOH(s, at + 3, close), close)
        ELSE Stream!Invalid
  BY <1>1, <1>2 DEF Stream!BodyVerdict
<1>6. Closed[close] =
        (At(s, close - 1) = SOH /\ At(s, close + 6) = SOH /\ FindSOH(s, at + 3, close) < close)
  BY <1>2, <1>3, <1>4 DEF Stream!IsClosed, Stream!SOH, SOH
<1>7. ~Stream!HasArrived(size, close, at, end) <=> size > end - at \/ close + 7 > end
  BY <1>4 DEF Stream!HasArrived
<1> HIDE DEF Closed
<1>8. Stream!BodyVerdict(s, i, stop, end) = BodyAnswer(s, at, size, end)
  BY <1>3, <1>5, <1>6, <1>7 DEF BodyAnswer
<1> QED
  BY <1>8 DEF size

\* The search stops at the first "8=FIX", or where too few bytes are left.
LEMMA ResyncFinds ==
  ASSUME NEW s, NEW p \in Nat, NEW end \in Nat, end - p >= 10, NEW q \in Nat, p < q,
         \A k \in p + 1 .. q - 1 : ~Stream!StartsFIX(s, k),
         \/ q < end - 10 /\ Stream!StartsFIX(s, q)
         \/ q >= end - 10 /\ (q = p + 1 \/ q = end - 10)
  PROVE  Stream!Resync(s, p, end) = q
<1> DEFINE S == {j \in p + 1 .. end - 11 : Stream!StartsFIX(s, j)}
           stop == Stream!Larger(p + 1, end - 10)
<1>1. Stream!Resync(s, p, end) = FirstIn(S, p + 1, stop)
  BY SameFirst DEF Stream!Resync
<1>2. stop = IF p + 1 < end - 10 THEN end - 10 ELSE p + 1
  BY DEF Stream!Larger
<1>3. CASE q < end - 10
  <2>1. q \in S /\ \A k \in p + 1 .. q - 1 : k \notin S
    BY <1>3
  <2>2. q \in p + 1 .. stop - 1 /\ stop \in Nat
    BY <1>2, <1>3
  <2> HIDE DEF S, stop
  <2> QED
    BY <1>1, <2>1, <2>2, FirstInUnique
<1>4. CASE q >= end - 10
  <2>1. q = stop
    BY <1>2, <1>4
  <2>2. S \cap (p + 1 .. stop - 1) = {}
    BY <1>4, <2>1
  <2> HIDE DEF S, stop
  <2> QED
    BY <1>1, <2>1, <2>2 DEF FirstIn
<1> QED
  BY <1>3, <1>4

----------------------------------------------------------------------------
(* Steps of the scan and steps of MessageStream *)

\* What MessageStream says of the current reader, and of one whose frame has
\* arrived.
Current       == Stream!Verdict(buf, from, e)
NoSOH(i, j)   == \A k \in i .. j - 1 : At(buf, k) # SOH
ValueEnd      == FindSOH(buf, b + 3, checksum)
IfTyped       == IF ValueEnd < checksum THEN Stream!Frame(b, ValueEnd, checksum) ELSE Stream!Invalid
IfClosed      ==
  IF At(buf, checksum - 1) = SOH /\ At(buf, checksum + 6) = SOH THEN IfTyped ELSE Stream!Invalid

\* What has been scanned so far leaves MessageStream's answer to what follows.
Scanned ==
  /\ pc = "prefix" => b <= from + 12 /\ NoSOH(from + 9, b)
  /\ pc = "tag" => Current = Stream!LengthVerdict(buf, b, e)
  /\ pc = "digits" => \E h \in Nat :
       /\ h + 1 < e /\ At(buf, h + 1) = 57 /\ h + 3 <= b
       /\ \A k \in h + 3 .. b - 1 : At(buf, k) \in Digits
       /\ length = Unsigned(buf, h + 3, b, SizeModulus)
       /\ Current = Stream!LengthVerdict(buf, h, e)
  /\ pc = "type" => \E i \in Nat :
       /\ length = Unsigned(buf, i, b - 1, SizeModulus)
       /\ Current = Stream!BodyVerdict(buf, i, b - 1, e)
  /\ pc = "close" => Current = IfClosed
  /\ pc = "value" => NoSOH(b + 3, scan) /\ Current = IfTyped
  /\ pc = "invalid" => Current = Stream!Invalid
  /\ pc = "resync" =>
       /\ Current = Stream!Invalid /\ e - from >= 10
       /\ b = from + 1 \/ b <= e - 10
       /\ \A k \in from + 1 .. b - 1 : ~Stream!StartsFIX(buf, k)

\* A step of the scan is one of MessageStream or changes nothing there.
Running == pc \notin {"open", "tail"}
Implements == Stream!Next \/ UNCHANGED Stream!vars

LEMMA SameCurrent == Running => Stream!Current = Current
  BY DEF Stream!Current, Current, Running

LEMMA Stutters ==
  ASSUME Running, Running', UNCHANGED <<buf, from, delivered>>
  PROVE  Implements
  BY DEF Running, Implements, Stream!vars, e

\* The reader waits for more bytes: MessageStream keeps the tail.
LEMMA TailKept ==
  ASSUME IInv, Running, Go("tail"), Current = Stream!Incomplete
  PROVE  Scanned' /\ Implements
<1>1. Scanned'
  BY DEF Go, Scanned
<1>2. CASE e = 0
  <2>1. from = 0
    BY <1>2 DEF IInv, TypeOK
  <2> QED
    BY <1>1, <1>2, <2>1 DEF Running, Go, Implements, Stream!vars, e
<1>3. CASE e # 0
  <2>1. Stream!KeepTail
    BY <1>3 DEF Running, Go, Stream!KeepTail, Stream!Current, Current, Stream!Incomplete, e
  <2> QED
    BY <1>1, <2>1 DEF Implements, Stream!Next
<1> QED
  BY <1>2, <1>3

LEMMA GivesUp ==
  ASSUME IInv, Running, GiveUp, Current = Stream!Incomplete
  PROVE  Scanned' /\ Implements
  BY TailKept DEF GiveUp

\* The reader has found its message invalid: no step of MessageStream yet.
LEMMA TurnsInvalid ==
  ASSUME Running, Go("invalid"), Current = Stream!Invalid
  PROVE  Scanned' /\ Implements
<1>1. Current' = Current
  BY DEF Go, Current, e
<1>2. Scanned'
  BY <1>1 DEF Go, Scanned
<1>3. Implements
  BY Stutters DEF Go, Running
<1> QED
  BY <1>2, <1>3

LEMMA NewReaderScanned ==
  ASSUME NEW p, NewReader(p)
  PROVE  Scanned'
  BY DEF NewReader, Scanned

\* The whole buffer is MessageStream's one chunk; an empty one is none.
LEMMA OpenReads ==
  ASSUME IInv, buf \in Buffers, Open
  PROVE  Scanned' /\ Implements
<1>1. Scanned'
  BY NewReaderScanned DEF Open
<1>2. e \in Nat /\ e <= MaxSize /\ MaxSize \in Nat \ {0} /\ e' = e
  BY BuffersAssumption, SizeOfBuffer DEF IInv, Open, e
<1>3. CASE e = 0
  <2>1. from = 0
    BY <1>3 DEF IInv, TypeOK
  <2> QED
    BY <1>1, <1>2, <1>3, <2>1 DEF Open, NewReader, Implements, Stream!vars
<1>4. CASE e # 0
  <2>1. pc = "open" /\ pc' = "short" /\ from' = 0 /\ UNCHANGED <<buf, delivered>>
    BY DEF Open, NewReader
  <2>2. Stream!Space = MaxSize
    BY <1>2, <2>1 DEF Stream!Space
  <2>3. ~Stream!Arrived
    BY <1>4, <2>1 DEF Stream!Arrived, e
  <2> DEFINE n == CHOOSE x \in {MaxSize, MaxSize, e - 0} :
                    \A k \in {MaxSize, MaxSize, e - 0} : x <= k
  <2>4. n = e
    BY <1>2
  <2> HIDE DEF n
  <2>5. Stream!Read
    BY <1>2, <1>4, <2>1, <2>2, <2>3, <2>4 DEF n, Stream!Read, e
  <2> QED
    BY <1>1, <2>5 DEF Implements, Stream!Next
<1> QED
  BY <1>3, <1>4

LEMMA InBuffer ==
  ASSUME IInv
  PROVE  e \in Nat /\ from \in Nat /\ from <= e /\ b \in Nat /\ length \in Nat /\ scan \in Nat
         /\ checksum \in Nat /\ checksum = b + length
  BY SizeOfBuffer, ModulusAssumption DEF IInv, TypeOK, checksum

LEMMA SizeChecked ==
  ASSUME IInv, CheckSize
  PROVE  Scanned' /\ Implements
<1>0. e \in Nat /\ from \in Nat /\ Running
  BY InBuffer DEF CheckSize, Running
<1>1. CASE e - from < 9 /\ GiveUp
  <2>1. Current = Stream!Incomplete
    BY <1>0, <1>1, PrefixMissing DEF Current
  <2> QED
    BY <1>0, <1>1, <2>1, GivesUp
<1>2. CASE e - from >= 9 /\ b' = from + 9 /\ pc' = "prefix"
           /\ UNCHANGED <<buf, from, scan, length, delivered>>
  <2>1. Implements
    BY <1>0, <1>2, Stutters DEF Running
  <2>2. Scanned'
    BY <1>0, <1>2 DEF Scanned, NoSOH
  <2> QED
    BY <2>1, <2>2
<1> QED
  BY <1>1, <1>2 DEF CheckSize

LEMMA PrefixScanned ==
  ASSUME IInv, Scanned, ScanPrefix
  PROVE  Scanned' /\ Implements
<1>0. /\ e \in Nat /\ from \in Nat /\ b \in Nat /\ Running
      /\ from + 9 <= b /\ b <= from + 12
      /\ \A k \in from + 9 .. b - 1 : At(buf, k) # SOH
  BY InBuffer DEF IInv, Position, ScanPrefix, Running, Scanned, NoSOH
<1>1. CASE b >= e /\ GiveUp
  <2>1. Current = Stream!Incomplete
    BY <1>0, <1>1, PrefixMissing DEF Current
  <2> QED
    BY <1>0, <1>1, <2>1, GivesUp
<1>2. CASE b < e /\ At(buf, b) = SOH /\ Go("tag")
  <2>1. Current = Stream!LengthVerdict(buf, b, e)
    <3>1. b \in from + 9 .. from + 12
      BY <1>0
    <3> QED
      BY <1>0, <1>2, <3>1, PrefixFound DEF Current
  <2>2. Implements
    BY <1>0, <1>2, Stutters DEF Go, Running
  <2>3. Scanned'
    BY <1>2, <2>1 DEF Go, Scanned, Current, e
  <2> QED
    BY <2>2, <2>3
<1>3. CASE b < e /\ At(buf, b) # SOH /\ PrefixOver(b) /\ Go("invalid")
  <2>1. b = from + 12
    BY <1>0, <1>3 DEF PrefixOver
  <2>2. Current = Stream!Invalid
    <3>1. \A k \in from + 9 .. from + 12 : k < e => At(buf, k) # SOH
      BY <1>0, <1>3, <2>1
    <3>2. e - from > 12
      BY <1>0, <1>3, <2>1
    <3> QED
      BY <1>0, <3>1, <3>2, PrefixMissing DEF Current
  <2> QED
    BY <1>0, <1>3, <2>2, TurnsInvalid
<1>4. CASE b < e /\ At(buf, b) # SOH /\ ~PrefixOver(b) /\ b' = b + 1
           /\ UNCHANGED <<buf, pc, from, scan, length, delivered>>
  <2>1. Implements
    BY <1>0, <1>4, Stutters DEF Running
  <2>2. Scanned'
    BY <1>0, <1>4 DEF ScanPrefix, Scanned, NoSOH, PrefixOver
  <2> QED
    BY <2>1, <2>2
<1> QED
  BY <1>1, <1>2, <1>3, <1>4 DEF ScanPrefix

LEMMA TagChecked ==
  ASSUME IInv, Scanned, CheckTag
  PROVE  Scanned' /\ Implements
<1>0. /\ e \in Nat /\ b \in Nat /\ Running
      /\ Current = Stream!LengthVerdict(buf, b, e)
  BY InBuffer DEF CheckTag, Running, Scanned
<1>1. CASE b + 1 >= e /\ GiveUp
  BY <1>0, <1>1, TagMissing, GivesUp
<1>2. CASE b + 1 < e /\ At(buf, b + 1) # 57 /\ Go("invalid")
  BY <1>0, <1>2, TagMissing, TurnsInvalid
<1>3. CASE b + 1 < e /\ At(buf, b + 1) = 57 /\ b' = b + 3 /\ length' = 0 /\ pc' = "digits"
           /\ UNCHANGED <<buf, from, scan, delivered>>
  <2>1. Implements
    BY <1>0, <1>3, Stutters DEF Running
  <2>2. Unsigned(buf, b + 3, b + 3, SizeModulus) = 0
    BY <1>0, UnsignedSteps
  <2>3. Current' = Current /\ e' = e
    BY <1>3 DEF Current, e
  <2>4. Scanned'
    BY <1>0, <1>3, <2>2, <2>3 DEF Scanned
  <2> QED
    BY <2>1, <2>4
<1> QED
  BY <1>1, <1>2, <1>3 DEF CheckTag

LEMMA DigitsScanned ==
  ASSUME IInv, Scanned, ScanDigits
  PROVE  Scanned' /\ Implements
<1>0. e \in Nat /\ b \in Nat /\ length \in Nat /\ Running
  BY InBuffer DEF ScanDigits, Running
<1>1. PICK h \in Nat :
        /\ h + 1 < e /\ At(buf, h + 1) = 57 /\ h + 3 <= b
        /\ \A k \in h + 3 .. b - 1 : At(buf, k) \in Digits
        /\ length = Unsigned(buf, h + 3, b, SizeModulus)
        /\ Current = Stream!LengthVerdict(buf, h, e)
  BY DEF ScanDigits, Scanned
<1>2. CASE b >= e /\ GiveUp
  <2>1. Current = Stream!Incomplete
    BY <1>0, <1>1, <1>2, LengthStops
  <2> QED
    BY <1>0, <1>2, <2>1, GivesUp
<1>3. CASE b < e /\ At(buf, b) \notin Digits \cup {SOH} /\ Go("invalid")
  <2>1. Current = Stream!Invalid
    BY <1>0, <1>1, <1>3, LengthStops
  <2> QED
    BY <1>0, <1>3, <2>1, TurnsInvalid
<1>4. CASE b < e /\ At(buf, b) = SOH /\ b' = b + 1 /\ pc' = "type"
           /\ UNCHANGED <<buf, from, scan, length, delivered>>
  <2>1. At(buf, b) \notin Digits
    BY <1>4 DEF Digits, SOH
  <2>2. Current = Stream!BodyVerdict(buf, h + 3, b, e)
    BY <1>0, <1>1, <1>4, <2>1, LengthStops
  <2>3. Implements
    BY <1>0, <1>4, Stutters DEF Running
  <2>4. Current' = Current /\ e' = e /\ b' - 1 = b /\ h + 3 \in Nat
    BY <1>0, <1>4 DEF Current, e
  <2>5. Scanned'
    BY <1>1, <1>4, <2>2, <2>4 DEF Scanned
  <2> QED
    BY <2>3, <2>5
<1>5. CASE b < e /\ At(buf, b) \in Digits /\ length' = Longer(At(buf, b) - Zero) /\ b' = b + 1
           /\ UNCHANGED <<buf, pc, from, scan, delivered>>
  <2>1. Implements
    BY <1>0, <1>5, Stutters DEF Running
  <2>2. length' = Unsigned(buf, h + 3, b + 1, SizeModulus)
    <3>1. h + 3 \in Nat
      OBVIOUS
    <3> QED
      BY <1>0, <1>1, <1>5, <3>1, UnsignedDigits DEF Longer
  <2>3. Current' = Current /\ e' = e
    BY <1>5 DEF Current, e
  <2>4. \A k \in h + 3 .. b' - 1 : At(buf, k) \in Digits
    BY <1>0, <1>1, <1>5
  <2>5. Scanned'
    BY <1>0, <1>1, <1>5, <2>2, <2>3, <2>4 DEF ScanDigits, Scanned
  <2> QED
    BY <2>1, <2>5
<1> QED
  BY <1>2, <1>3, <1>4, <1>5 DEF ScanDigits

LEMMA TypeChecked ==
  ASSUME IInv, Scanned, CheckType
  PROVE  Scanned' /\ Implements
<1>0. /\ e \in Nat /\ b \in Nat /\ length \in Nat /\ Running
      /\ checksum \in Nat /\ checksum = b + length /\ b - 1 \in Nat
  BY InBuffer DEF CheckType, Running, IInv, Position
<1>1. PICK i \in Nat :
        /\ length = Unsigned(buf, i, b - 1, SizeModulus)
        /\ Current = Stream!BodyVerdict(buf, i, b - 1, e)
  BY DEF CheckType, Scanned
<1>2. Current = BodyAnswer(buf, b, length, e)
  <2>1. b = (b - 1) + 1
    BY <1>0
  <2>2. Stream!BodyVerdict(buf, i, b - 1, e)
          = BodyAnswer(buf, (b - 1) + 1, Unsigned(buf, i, b - 1, SizeModulus), e)
    BY <1>0, <1>1, BodyStands
  <2> QED
    BY <1>1, <2>1, <2>2
<1>3. Current =
        IF b + 3 >= e THEN Stream!Incomplete
        ELSE IF At(buf, b) # 51 \/ At(buf, b + 1) # 53 THEN Stream!Invalid
        ELSE IF length > e - b \/ checksum + 7 > e THEN Stream!Incomplete
        ELSE IF At(buf, checksum - 1) = SOH /\ At(buf, checksum + 6) = SOH /\ ValueEnd < checksum
        THEN Stream!Frame(b, ValueEnd, checksum)
        ELSE Stream!Invalid
  BY <1>2 DEF BodyAnswer, ValueEnd, checksum
<1>4. CASE TypeMissing /\ GiveUp
  BY <1>0, <1>3, <1>4, GivesUp DEF TypeMissing
<1>5. CASE ~TypeMissing /\ (At(buf, b) # 51 \/ At(buf, b + 1) # 53) /\ Go("invalid")
  <2>1. Current = Stream!Invalid
    BY <1>0, <1>3, <1>5 DEF TypeMissing
  <2> QED
    BY <1>0, <1>5, <2>1, TurnsInvalid
<1>6. CASE /\ ~TypeMissing /\ At(buf, b) = 51 /\ At(buf, b + 1) = 53
           /\ length > e - b \/ checksum + 7 > e
           /\ Go("tail")
  <2>1. Current = Stream!Incomplete
    BY <1>0, <1>3, <1>6 DEF TypeMissing
  <2> QED
    BY <1>0, <1>6, <2>1, TailKept
<1>7. CASE /\ ~TypeMissing /\ At(buf, b) = 51 /\ At(buf, b + 1) = 53
           /\ length <= e - b /\ checksum + 7 <= e
           /\ Go("close")
  <2>1. Current = IfClosed
    BY <1>0, <1>3, <1>7 DEF TypeMissing, IfClosed, IfTyped
  <2>2. Implements
    BY <1>0, <1>7, Stutters DEF Go, Running
  <2>3. Current' = Current /\ IfClosed' = IfClosed
    BY <1>7 DEF Go, Current, IfClosed, IfTyped, ValueEnd, checksum, e
  <2>4. Scanned'
    BY <1>7, <2>1, <2>3 DEF Go, Scanned
  <2> QED
    BY <2>2, <2>4
<1> QED
  BY <1>4, <1>5, <1>6, <1>7 DEF CheckType

LEMMA CloseChecked ==
  ASSUME IInv, Scanned, CheckClose
  PROVE  Scanned' /\ Implements
<1>0. /\ e \in Nat /\ b \in Nat /\ length \in Nat /\ Running
      /\ checksum \in Nat /\ Current = IfClosed
  BY InBuffer DEF CheckClose, Running, Scanned
<1>1. CASE (At(buf, checksum - 1) # SOH \/ At(buf, checksum + 6) # SOH) /\ Go("invalid")
  BY <1>0, <1>1, TurnsInvalid DEF IfClosed
<1>2. CASE /\ At(buf, checksum - 1) = SOH /\ At(buf, checksum + 6) = SOH
           /\ scan' = b + 3 /\ pc' = "value" /\ UNCHANGED <<buf, from, b, length, delivered>>
  <2>1. Implements
    BY <1>0, <1>2, Stutters DEF Running
  <2>2. Current = IfTyped
    BY <1>0, <1>2 DEF IfClosed
  <2>3. Current' = Current /\ IfTyped' = IfTyped
    BY <1>2 DEF Current, IfTyped, ValueEnd, checksum, e
  <2>4. NoSOH(b + 3, scan)'
    BY <1>0, <1>2 DEF NoSOH
  <2>5. Scanned'
    BY <1>2, <2>2, <2>3, <2>4 DEF Scanned
  <2> QED
    BY <2>1, <2>5
<1> QED
  BY <1>1, <1>2 DEF CheckClose

LEMMA ValueScanned ==
  ASSUME IInv, Scanned, ScanValue
  PROVE  Scanned' /\ Implements
<1>0. /\ e \in Nat /\ b \in Nat /\ length \in Nat /\ scan \in Nat /\ from \in Nat /\ Running
      /\ checksum \in Nat /\ Current = IfTyped
      /\ b + 3 <= scan /\ checksum + 7 <= e
      /\ \A k \in b + 3 .. scan - 1 : At(buf, k) # SOH
  BY InBuffer DEF IInv, Position, ScanValue, Running, Scanned, NoSOH
<1>1. CASE scan >= checksum /\ Go("invalid")
  <2>1. ~(ValueEnd < checksum)
    <3> DEFINE S == {j \in b + 3 .. checksum - 1 : At(buf, j) = SOH}
    <3>1. S = {}
      BY <1>0, <1>1
    <3> QED
      BY <1>0, <3>1 DEF ValueEnd, FindSOH, FirstIn
  <2>2. Current = Stream!Invalid
    BY <1>0, <2>1 DEF IfTyped
  <2> QED
    BY <1>0, <1>1, <2>2, TurnsInvalid
<1>2. CASE /\ scan < checksum /\ At(buf, scan) # SOH /\ scan' = scan + 1
           /\ UNCHANGED <<buf, pc, from, b, length, delivered>>
  <2>1. Implements
    BY <1>0, <1>2, Stutters DEF Running
  <2>2. Current' = Current /\ IfTyped' = IfTyped
    BY <1>2 DEF Current, IfTyped, ValueEnd, checksum, e
  <2>3. NoSOH(b + 3, scan)'
    BY <1>0, <1>2 DEF NoSOH
  <2>4. Scanned'
    BY <1>0, <1>2, <2>2, <2>3 DEF ScanValue, Scanned
  <2> QED
    BY <2>1, <2>4
<1>3. CASE /\ scan < checksum /\ At(buf, scan) = SOH
           /\ delivered' = Append(delivered, [from |-> from, end |-> checksum + 7])
           /\ NewReader(NextStart) /\ UNCHANGED buf
  <2>1. ValueEnd = scan
    <3> DEFINE S == {j \in b + 3 .. checksum - 1 : At(buf, j) = SOH}
    <3>1. ValueEnd = FirstIn(S, b + 3, checksum)
      BY <1>0, <1>3 DEF ValueEnd, FindSOH
    <3>2. scan \in S /\ \A k \in b + 3 .. scan - 1 : k \notin S
      BY <1>0, <1>3
    <3>3. scan \in b + 3 .. checksum - 1
      BY <1>0, <1>3
    <3> HIDE DEF S
    <3> QED
      BY <1>0, <3>1, <3>2, <3>3, FirstInUnique
  <2>2. Current = Stream!Frame(b, scan, checksum)
    BY <1>0, <1>3, <2>1 DEF IfTyped
  <2>3. /\ Stream!IsFrame(Current) /\ Stream!NextOf(Current) = checksum + 7
        /\ Current.end = checksum + 7
    BY <2>2 DEF Stream!IsFrame, Stream!Frame, Stream!NextOf
  <2>4. e # 0
    BY <1>0
  <2>5. Stream!Deliver
    BY <1>0, <1>3, <2>3, <2>4, SameCurrent DEF Stream!Deliver, Running, NewReader, NextStart, e
  <2>6. Scanned'
    BY <1>3, NewReaderScanned
  <2> QED
    BY <2>5, <2>6 DEF Implements, Stream!Next
<1> QED
  BY <1>1, <1>2, <1>3 DEF ScanValue

\* The search is over: MessageStream's skip.
LEMMA Skips ==
  ASSUME IInv, Running, Current = Stream!Invalid, NEW p, NewReader(p), UNCHANGED <<buf, delivered>>,
         p = Stream!Resync(buf, from, e), p <= e, p >= from, p \in Nat
  PROVE  Scanned' /\ Implements
<1>1. Scanned'
  BY NewReaderScanned
<1>2. e \in Nat /\ from \in Nat /\ from <= e /\ from' = p /\ e' = e /\ pc' = "short"
  BY InBuffer DEF NewReader, e
<1>3. CASE e = 0
  <2>1. from' = from
    BY <1>2, <1>3
  <2> QED
    BY <1>1, <1>2, <1>3, <2>1 DEF Implements, Stream!vars, Running
<1>4. CASE e # 0
  <2>1. Stream!IsInvalid(Current)
    BY DEF Stream!IsInvalid, Stream!Invalid
  <2>2. Stream!Skip
    BY <1>2, <1>4, <2>1, SameCurrent DEF Stream!Skip, Running
  <2> QED
    BY <1>1, <2>2 DEF Implements, Stream!Next
<1> QED
  BY <1>3, <1>4

LEMMA SearchBegins ==
  ASSUME IInv, Scanned, StartSearch
  PROVE  Scanned' /\ Implements
<1>0. /\ e \in Nat /\ from \in Nat /\ from <= e /\ Running /\ Current = Stream!Invalid
  BY InBuffer DEF StartSearch, Running, Scanned
<1>1. CASE e - from < 10 /\ NewReader(e) /\ UNCHANGED <<buf, delivered>>
  <2>1. Stream!Resync(buf, from, e) = e
    BY <1>1 DEF Stream!Resync
  <2> QED
    BY <1>0, <1>1, <2>1, Skips
<1>2. CASE e - from >= 10 /\ b' = SearchFrom /\ pc' = "resync"
           /\ UNCHANGED <<buf, from, scan, length, delivered>>
  <2>1. Implements
    BY <1>0, <1>2, Stutters DEF Running
  <2>2. Current' = Current /\ e' = e
    BY <1>2 DEF Current, e
  <2>3. Scanned'
    BY <1>0, <1>2, <2>2 DEF Scanned, SearchFrom
  <2> QED
    BY <2>1, <2>3
<1> QED
  BY <1>1, <1>2 DEF StartSearch

LEMMA SearchGoesOn ==
  ASSUME IInv, Scanned, ScanResync
  PROVE  Scanned' /\ Implements
<1>0. /\ e \in Nat /\ from \in Nat /\ b \in Nat /\ Running
      /\ from < b /\ b <= e - 9 /\ Current = Stream!Invalid /\ e - from >= 10
      /\ b = from + 1 \/ b <= e - 10
      /\ \A k \in from + 1 .. b - 1 : ~Stream!StartsFIX(buf, k)
  BY InBuffer DEF IInv, Position, ScanResync, Running, Scanned
<1>1. Stream!StartsFIX(buf, b) <=> Slice(buf, b, b + 5) = <<56, 61, 70, 73, 88>>
  BY DEF Stream!StartsFIX, Stream!Slice, Slice
<1>2. CASE b >= e - 10 /\ NewReader(b) /\ UNCHANGED <<buf, delivered>>
  <2>1. b = from + 1 \/ b = e - 10
    BY <1>0, <1>2
  <2>2. Stream!Resync(buf, from, e) = b
    BY <1>0, <1>2, <2>1, ResyncFinds
  <2> QED
    BY <1>0, <1>2, <2>2, Skips
<1>3. CASE /\ b < e - 10 /\ Slice(buf, b, b + 5) = <<56, 61, 70, 73, 88>>
           /\ NewReader(b) /\ UNCHANGED <<buf, delivered>>
  <2>1. Stream!StartsFIX(buf, b)
    BY <1>1, <1>3
  <2>2. Stream!Resync(buf, from, e) = b
    BY <1>0, <1>3, <2>1, ResyncFinds
  <2> QED
    BY <1>0, <1>3, <2>2, Skips
<1>4. CASE /\ b < e - 10 /\ Slice(buf, b, b + 5) # <<56, 61, 70, 73, 88>>
           /\ b' = b + 1 /\ UNCHANGED <<buf, pc, from, scan, length, delivered>>
  <2>1. Implements
    BY <1>0, <1>4, Stutters DEF Running
  <2>2. Current' = Current /\ e' = e
    BY <1>4 DEF Current, e
  <2>3. \A k \in from + 1 .. b' - 1 : ~Stream!StartsFIX(buf, k)
    BY <1>0, <1>1, <1>4
  <2>4. b' <= e - 10
    BY <1>0, <1>4
  <2>5. Scanned'
    BY <1>0, <1>4, <2>2, <2>3, <2>4 DEF ScanResync, Scanned
  <2> QED
    BY <2>1, <2>5
<1> QED
  BY <1>2, <1>3, <1>4 DEF ScanResync

\* Every step keeps what is known and is a step of MessageStream or none.
LEMMA StepScans ==
  ASSUME IInv, buf \in Buffers, Scanned, [Next]_vars
  PROVE  Scanned' /\ Implements
<1>1. CASE UNCHANGED vars
  <2>1. Scanned'
    BY <1>1 DEF vars, Scanned, Current, NoSOH, IfTyped, IfClosed, ValueEnd, checksum, e
  <2>2. UNCHANGED Stream!vars
    BY <1>1 DEF vars, Stream!vars, e
  <2> QED
    BY <2>1, <2>2 DEF Implements
<1>2. CASE Next
  BY <1>2, OpenReads, SizeChecked, PrefixScanned, TagChecked, DigitsScanned, TypeChecked,
     CloseChecked, ValueScanned, SearchBegins, SearchGoesOn DEF Next
<1> QED
  BY <1>1, <1>2

LEMMA BufferStays == [Next]_vars => buf' = buf
  BY DEF Next, vars, Open, CheckSize, ScanPrefix, CheckTag, ScanDigits, CheckType, CheckClose,
         ScanValue, StartSearch, ScanResync, GiveUp, Go

----------------------------------------------------------------------------
(* The scan as an implementation of MessageStream *)

\* At every branch of init() and next_message_reader(), what was read decides
\* what MessageStream says of the message: the digits scanned are the number,
\* no SOH was passed over, no "8=FIX" left out.
THEOREM ScanIsVerdict == Spec => [](buf \in Buffers /\ Scanned)
<1>1. Init => buf \in Buffers /\ Scanned
  BY DEF Init, Scanned
<1>2. IInv /\ (buf \in Buffers /\ Scanned) /\ [Next]_vars => (buf \in Buffers /\ Scanned)'
  BY StepScans, BufferStays
<1> QED
  BY <1>1, <1>2, Invariance, PTL DEF Spec

\* for_each_message, pointer by pointer, delivers and skips what MessageStream
\* does for the same bytes read at once, whatever the buffer holds.
THEOREM ScannerImplementsStream == Spec => ImplementsStream
<1>1. Init => Stream!Init
  BY DEF Init, Stream!Init
<1>2. IInv /\ (buf \in Buffers /\ Scanned) /\ [Next]_vars => [Stream!Next]_(Stream!vars)
  BY StepScans DEF Implements
<1> QED
  BY <1>1, <1>2, Invariance, ScanIsVerdict, PTL DEF Spec, ImplementsStream
=============================================================================
