------------------------------ MODULE Framing ------------------------------
(***************************************************************************)
(* How hffix::basic_message_reader classifies the bytes from a position p  *)
(* up to the end e of what has been received: basic_message_reader::init() *)
(* as a function of the bytes, and where next_message_reader() continues.  *)
(* FrameScanner.tla has the same code step by step.                        *)
(***************************************************************************)
EXTENDS Bytes

CONSTANT SizeModulus   \* 2^64 in the code: BodyLength is read into a size_t

ASSUME ModulusAssumption == SizeModulus \in Nat /\ SizeModulus > 999999

\* invalid() also sets is_complete_, so that the caller may resynchronise.
Incomplete == [complete |-> FALSE, valid |-> TRUE]
Invalid    == [complete |-> TRUE,  valid |-> FALSE]
Frame(body, typeEnd, checksum) ==
  [complete |-> TRUE, valid |-> TRUE, body |-> body, typeEnd |-> typeEnd,
   checksum |-> checksum, end |-> checksum + 7]

IsFrame(v)   == v.complete /\ v.valid
IsInvalid(v) == ~v.valid

\* Faulty: the checksum field may end one byte past what was received.
ArrivedButOne(length, checksum, b, e) == length \in 0 .. e - b /\ checksum + 6 <= e

\* The whole frame is there: the length does not lead past e, not even as far
\* as to overflow a pointer, and seven bytes follow it.
HasArrived(length, checksum, b, e) == length \in 0 .. e - b /\ checksum + 7 <= e

\* An SOH stands before the checksum field and closes it.
IsClosed(s, checksum) == At(s, checksum - 1) = SOH /\ At(s, checksum + 6) = SOH

\* From MsgType on, behind the BodyLength digits from i up to stop.
BodyVerdict(s, i, stop, e) ==
  LET b == stop + 1
      length == Unsigned(s, i, stop, SizeModulus)
      checksum == b + length
      Closed[c \in Nat] == IsClosed(s, c) /\ FindSOH(s, b + 3, c) < c
  IN  IF b + 3 >= e THEN Incomplete
      ELSE IF At(s, b) # 51 \/ At(s, b + 1) # 53 THEN Invalid    \* "35"
      ELSE IF ~HasArrived(length, checksum, b, e) THEN Incomplete
      ELSE IF Closed[checksum] THEN Frame(b, FindSOH(s, b + 3, checksum), checksum)
      ELSE Invalid

\* From the SOH that ends BeginString, at h: "9", a byte that is not looked
\* at, and the digits of BodyLength up to the first byte that is none.
LengthVerdict(s, h, e) ==
  LET Stopped[stop \in Nat] ==
        IF stop >= e THEN Incomplete
        ELSE IF At(s, stop) # SOH THEN Invalid
        ELSE BodyVerdict(s, h + 3, stop, e)
  IN  IF h + 1 >= e THEN Incomplete
      ELSE IF At(s, h + 1) # 57 THEN Invalid
      ELSE Stopped[FirstIn({j \in h + 3 .. e - 1 : At(s, j) \notin Digits}, h + 3, e)]

\* Faulty: a BeginString of which a part has arrived is given up.
TooLongAlready(p, e) == e - p > 9
TooLong(p, e)        == e - p > 12

\* Where BeginString may end.
PrefixEnds(p) == p + 9 .. p + 12

\* basic_message_reader(begin + p, begin + e): BeginString must end nine to
\* twelve bytes after p.
Verdict(s, p, e) ==
  LET ends == {j \in PrefixEnds(p) : j < e /\ At(s, j) = SOH}
      From[h \in Nat] == LengthVerdict(s, h, e)
  IN  IF ends # {} THEN From[FirstIn(ends, p + 9, e)]
      ELSE IF TooLong(p, e) THEN Invalid ELSE Incomplete

\* next_message_reader() of a valid message.  Faulty: it starts over at the
\* checksum field; it skips a byte behind the message.
NextAtCheckSum(v) == v.checksum
NextPastEnd(v)    == v.end + 1
NextOf(v)         == v.end

\* next_message_reader() of an invalid message: the next "8=FIX" that leaves
\* at least ten bytes behind it, else the position ten bytes from the end.
StartsFIX(s, i) == Slice(s, i, i + 5) = <<56, 61, 70, 73, 88>>
Larger(i, j)    == IF i < j THEN j ELSE i

\* Faulty: what might begin in the last ten bytes is dropped; the search
\* starts at the message itself.
ResyncToEnd(s, p, e)   == FirstIn({j \in p + 1 .. e - 11 : StartsFIX(s, j)}, p + 1, e)
ResyncInPlace(s, p, e) == FirstIn({j \in p .. e - 11 : StartsFIX(s, j)}, p, Larger(p, e - 10))

Resync(s, p, e) ==
  IF e - p < 10 THEN e
  ELSE FirstIn({j \in p + 1 .. e - 11 : StartsFIX(s, j)}, p + 1, Larger(p + 1, e - 10))
=============================================================================
