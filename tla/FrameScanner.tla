---------------------------- MODULE FrameScanner ----------------------------
(***************************************************************************)
(* hffix::for_each_message over one buffer, byte by byte: every pointer    *)
(* movement and every dereference of basic_message_reader::init() and      *)
(* next_message_reader().  Pointers are offsets from the buffer's start.   *)
(* It implements MessageStream, where a whole reader is one step.  Framing *)
(* gives it the width of size_t only.                                      *)
(***************************************************************************)
EXTENDS Framing

CONSTANTS
  Buffers,       \* contents the buffer may have
  MaxSize        \* no buffer is larger

ASSUME BuffersAssumption ==
  /\ Buffers \subseteq Seq(Byte)
  /\ MaxSize \in Nat \ {0}
  /\ \A x \in Buffers : Len(x) <= MaxSize

VARIABLES
  buf,        \* the bytes
  pc,         \* where the current reader is
  from,       \* buffer_: where its message starts
  b,          \* the local b of init() and next_message_reader()
  scan,       \* the pointer of find_soh
  length,     \* the local bodylength
  read,       \* history: the offsets the last step dereferenced
  delivered   \* history: the messages passed to fn, [from, end]

vars == <<buf, pc, from, b, scan, length, read, delivered>>

e        == Len(buf)   \* buffer_end_
checksum == b + length

----------------------------------------------------------------------------
(* Steps *)

Go(label) == pc' = label /\ UNCHANGED <<buf, from, b, scan, length, delivered>>

\* is_complete_ = false; return, wherever a byte is missing.
GiveUp == Go("tail") /\ read' = {}

\* The constructor of the next reader, at p.
NewReader(p) ==
  /\ from' = p /\ b' = p /\ scan' = p
  /\ length' = 0
  /\ pc' = "short"

Init ==
  /\ buf \in Buffers
  /\ pc = "open"
  /\ from = 0 /\ b = 0 /\ scan = 0 /\ length = 0
  /\ read = {}
  /\ delivered = <<>>

Open == pc = "open" /\ NewReader(0) /\ read' = {} /\ UNCHANGED <<buf, delivered>>

\* At least nine bytes, before buffer_ + 9 is formed.
CheckSize ==
  /\ pc = "short"
  /\ \/ e - from < 9 /\ GiveUp
     \/ /\ e - from >= 9
        /\ b' = from + 9
        /\ pc' = "prefix"
        /\ read' = {}
        /\ UNCHANGED <<buf, from, scan, length, delivered>>

\* The first SOH ends BeginString.  Faulty: it is looked for one byte less.
PrefixOverEarly(p) == p - from > 10
PrefixOver(p)      == p - from > 11

ScanPrefix ==
  /\ pc = "prefix"
  /\ \/ b >= e /\ GiveUp
     \/ /\ b < e
        /\ read' = {b}
        /\ \/ At(buf, b) = SOH /\ Go("tag")
           \/ At(buf, b) # SOH /\ PrefixOver(b) /\ Go("invalid")
           \/ /\ At(buf, b) # SOH /\ ~PrefixOver(b)
              /\ b' = b + 1
              /\ UNCHANGED <<buf, pc, from, scan, length, delivered>>

\* The next tag starts with a 9; the byte behind it is skipped unseen.
CheckTag ==
  /\ pc = "tag"
  /\ \/ b + 1 >= e /\ GiveUp
     \/ b + 1 < e /\ read' = {b + 1} /\ At(buf, b + 1) # 57 /\ Go("invalid")
     \/ /\ b + 1 < e /\ read' = {b + 1} /\ At(buf, b + 1) = 57
        /\ b' = b + 3
        /\ length' = 0
        /\ pc' = "digits"
        /\ UNCHANGED <<buf, from, scan, delivered>>

\* bodylength *= 10; bodylength += digit, in a size_t.  Faulty: unbounded.
LongerForever(digit) == length * 10 + digit
Longer(digit)        == (length * 10 + digit) % SizeModulus

ScanDigits ==
  /\ pc = "digits"
  /\ \/ b >= e /\ GiveUp
     \/ b < e /\ read' = {b} /\ At(buf, b) \notin Digits \cup {SOH} /\ Go("invalid")
     \/ /\ b < e /\ read' = {b} /\ At(buf, b) = SOH
        /\ b' = b + 1
        /\ pc' = "type"
        /\ UNCHANGED <<buf, from, scan, length, delivered>>
     \/ /\ b < e /\ read' = {b} /\ At(buf, b) \in Digits
        /\ length' = Longer(At(buf, b) - Zero)
        /\ b' = b + 1
        /\ UNCHANGED <<buf, pc, from, scan, delivered>>

\* MsgType must follow; then the whole frame must be there.  Faulty: the two
\* bytes of its tag are read although only one has arrived.
TypeMissingLate == b >= e
TypeMissing     == b + 3 >= e

CheckType ==
  /\ pc = "type"
  /\ \/ TypeMissing /\ GiveUp
     \/ ~TypeMissing /\ At(buf, b) # 51 /\ read' = {b} /\ Go("invalid")
     \/ ~TypeMissing /\ At(buf, b) = 51 /\ read' = {b, b + 1}
        /\ \/ At(buf, b + 1) # 53 /\ Go("invalid")
           \/ At(buf, b + 1) = 53 /\ (length > e - b \/ checksum + 7 > e) /\ Go("tail")
           \/ At(buf, b + 1) = 53 /\ length <= e - b /\ checksum + 7 <= e /\ Go("close")

\* An SOH before the checksum field, and one at its end.
CheckClose ==
  /\ pc = "close"
  /\ \/ At(buf, checksum - 1) # SOH /\ read' = {checksum - 1} /\ Go("invalid")
     \/ /\ At(buf, checksum - 1) = SOH
        /\ read' = {checksum - 1, checksum + 6}
        /\ \/ At(buf, checksum + 6) # SOH /\ Go("invalid")
           \/ /\ At(buf, checksum + 6) = SOH
              /\ scan' = b + 3
              /\ pc' = "value"
              /\ UNCHANGED <<buf, from, b, length, delivered>>

\* end_.current_.value_.end_ + 1
NextStart == checksum + 7

\* find_soh(b, checksum) over the value of MsgType; a message whose MsgType
\* ends before the checksum field is passed to fn.
ScanValue ==
  /\ pc = "value"
  /\ \/ scan >= checksum /\ read' = {} /\ Go("invalid")
     \/ /\ scan < checksum /\ read' = {scan} /\ At(buf, scan) # SOH
        /\ scan' = scan + 1
        /\ UNCHANGED <<buf, pc, from, b, length, delivered>>
     \/ /\ scan < checksum /\ read' = {scan} /\ At(buf, scan) = SOH
        /\ delivered' = Append(delivered, [from |-> from, end |-> checksum + 7])
        /\ NewReader(NextStart)
        /\ UNCHANGED buf

\* next_message_reader() of an invalid message.  Faulty: the search does not
\* leave the message itself.
SearchFromInPlace == from
SearchFrom        == from + 1

StartSearch ==
  /\ pc = "invalid"
  /\ read' = {}
  /\ \/ e - from < 10 /\ NewReader(e) /\ UNCHANGED <<buf, delivered>>
     \/ /\ e - from >= 10
        /\ b' = SearchFrom
        /\ pc' = "resync"
        /\ UNCHANGED <<buf, from, scan, length, delivered>>

ScanResync ==
  /\ pc = "resync"
  /\ \/ b >= e - 10 /\ read' = {} /\ NewReader(b) /\ UNCHANGED <<buf, delivered>>
     \/ /\ b < e - 10
        /\ read' = b .. b + 4
        /\ \/ /\ Slice(buf, b, b + 5) = <<56, 61, 70, 73, 88>>
              /\ NewReader(b) /\ UNCHANGED <<buf, delivered>>
           \/ /\ Slice(buf, b, b + 5) # <<56, 61, 70, 73, 88>>
              /\ b' = b + 1
              /\ UNCHANGED <<buf, pc, from, scan, length, delivered>>

Next ==
  \/ Open \/ CheckSize \/ ScanPrefix \/ CheckTag \/ ScanDigits \/ CheckType
  \/ CheckClose \/ ScanValue \/ StartSearch \/ ScanResync

\* A loop in a thread of its own: it keeps running until it returns.
Spec == Init /\ [][Next]_vars /\ WF_vars(Next)

----------------------------------------------------------------------------
(* Properties *)

TypeOK ==
  /\ buf \in Seq(Byte)
  /\ pc \in {"open", "short", "prefix", "tag", "digits", "type", "close", "value",
             "invalid", "resync", "tail"}
  /\ from \in 0 .. e
  /\ b \in Nat /\ scan \in Nat
  /\ length \in 0 .. SizeModulus - 1
  /\ delivered \in Seq([from : Nat, end : Nat])

\* Whatever bytes arrive, no byte outside the buffer is read: none behind its
\* end, however long a message claims to be, and none before its start.
ReadsInBounds == read \subseteq 0 .. e - 1

\* The messages delivered lie in the buffer one after the other, each at least
\* as long as the shortest message (24 bytes), and before the current reader.
FramesInBuffer ==
  /\ \A i \in 1 .. Len(delivered) :
       /\ delivered[i].from + 24 <= delivered[i].end
       /\ delivered[i].end <= from
  /\ \A i \in 1 .. Len(delivered) - 1 : delivered[i].end <= delivered[i + 1].from
  /\ from <= e

\* for_each_message returns on every buffer.
Returns == <>(pc = "tail")

\* The scan finds what MessageStream says of the same bytes, read at once.  An
\* empty buffer is a stream of which nothing can be read.
Stream == INSTANCE MessageStream WITH
  Streams    <- {[bytes |-> x, sent |-> <<>>, buffer |-> MaxSize] : x \in Buffers},
  ChunkSizes <- {MaxSize},
  stream     <- [bytes |-> buf, sent |-> <<>>, buffer |-> MaxSize],
  fed        <- IF pc = "open" THEN 0 ELSE e,
  base       <- IF pc = "tail" THEN from ELSE 0,
  at         <- from,
  phase      <- IF e = 0 \/ pc \in {"open", "tail"} THEN "read" ELSE "parse"
ImplementsStream == Stream!Init /\ [][Stream!Next]_(Stream!vars)
=============================================================================
