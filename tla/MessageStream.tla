---------------------------- MODULE MessageStream ----------------------------
(***************************************************************************)
(* A stream of bytes read in chunks and parsed message by message: the     *)
(* loop of src/utils/fixprint/fixprint.cpp around the parse loop that      *)
(* for_each_message and message_range share (src/include/hffix.hpp).  Each *)
(* round reads a chunk behind the unconsumed tail, parses while there are  *)
(* complete messages, delivers the valid ones, skips the invalid ones and  *)
(* keeps the first incomplete one for the next round.                      *)
(***************************************************************************)
EXTENDS Framing

CONSTANTS
  Streams,     \* what may arrive: [bytes, sent, buffer], see below
  ChunkSizes   \* how many bytes one read may return at most

\* A stream is its bytes, the frames its sender put into it, as [from, end],
\* and sizeof(buffer) of the program that reads it; what lies between the
\* frames is noise.  It is honest if no noise looks like a message that claims
\* more bytes than it has.
IsStream(x) ==
  /\ x.bytes \in Seq(Byte)
  /\ x.buffer \in Nat \ {0}
  /\ Len(x.sent) \in Nat
  /\ \A i \in 1 .. Len(x.sent) :
       x.sent[i].from \in Nat /\ x.sent[i].end \in x.sent[i].from + 1 .. Len(x.bytes)

ASSUME StreamsAssumption == \A x \in Streams : IsStream(x)
ASSUME ChunkAssumption   == ChunkSizes \subseteq Nat \ {0} /\ ChunkSizes # {}

VARIABLES
  stream,     \* the stream that arrives
  fed,        \* bytes of it received so far
  base,       \* position in the stream of the first byte of the buffer
  at,         \* position in the stream of the current reader
  phase,      \* "read", "parse" or "done"
  delivered   \* history: the messages handed to the application, [from, end]

vars == <<stream, fed, base, at, phase, delivered>>

Current == Verdict(stream.bytes, at, fed)
Arrived == Len(stream.bytes) = fed

\* The free part of the buffer.  Faulty: the tail is not moved to its front.
SpaceBehindAll == stream.buffer - fed
Space          == stream.buffer - (fed - base)

----------------------------------------------------------------------------

Init ==
  /\ stream \in Streams
  /\ fed = 0 /\ base = 0 /\ at = 0
  /\ phase = "read"
  /\ delivered = <<>>

\* fread, or any read that returns what has arrived: up to a chunk, no more
\* than the free part of the buffer.
Read ==
  /\ phase = "read" /\ Space > 0 /\ ~Arrived
  /\ \E chunk \in ChunkSizes :
       LET n == CHOOSE n \in {chunk, Space, Len(stream.bytes) - fed} :
                  \A k \in {chunk, Space, Len(stream.bytes) - fed} : n <= k
       IN  fed' = fed + n
  /\ at' = base
  /\ phase' = "parse"
  /\ UNCHANGED <<stream, base, delivered>>

\* A read of nothing ends the loop: at the end of the stream, or because the
\* buffer is full of one message that is not complete.
EndOfInput ==
  /\ phase = "read" /\ (Space = 0 \/ Arrived)
  /\ phase' = "done"
  /\ UNCHANGED <<stream, fed, base, at, delivered>>

Deliver ==
  /\ phase = "parse" /\ IsFrame(Current)
  /\ delivered' = Append(delivered, [from |-> at, end |-> Current.end])
  /\ at' = NextOf(Current)
  /\ UNCHANGED <<stream, fed, base, phase>>

Skip ==
  /\ phase = "parse" /\ IsInvalid(Current)
  /\ at' = Resync(stream.bytes, at, fed)
  /\ UNCHANGED <<stream, fed, base, phase, delivered>>

\* The reader is incomplete: the tail moves to the front of the buffer.
KeepTail ==
  /\ phase = "parse" /\ ~Current.complete
  /\ base' = at
  /\ phase' = "read"
  /\ UNCHANGED <<stream, fed, at, delivered>>

Next == Read \/ EndOfInput \/ Deliver \/ Skip \/ KeepTail

\* The loop runs whenever it can; nothing else is assumed.
Spec == Init /\ [][Next]_vars /\ WF_vars(Next)

----------------------------------------------------------------------------
(* Properties *)

TypeOK ==
  /\ IsStream(stream)
  /\ fed \in 0 .. Len(stream.bytes)
  /\ base \in 0 .. fed /\ fed - base <= stream.buffer
  /\ at \in base .. fed
  /\ phase \in {"read", "parse", "done"}
  /\ delivered \in Seq([from : 0 .. fed, end : 0 .. fed])

\* Messages are delivered in the order they arrived, none overlaps another,
\* and none is delivered twice, wherever the reads cut the stream.
InOrder ==
  /\ \A i \in 1 .. Len(delivered) - 1 : delivered[i].end <= delivered[i + 1].from
  /\ \A i \in 1 .. Len(delivered) : delivered[i].from < delivered[i].end
  /\ delivered # <<>> => delivered[Len(delivered)].end <= at

\* What a reader says of a complete message, valid or not, does not depend on
\* how much of the stream was there: more bytes would not change it.
VerdictIsFinal ==
  phase = "parse" /\ Current.complete =>
    Current = Verdict(stream.bytes, at, Len(stream.bytes))

\* The parse loop moves forward with every message, delivered or skipped, and
\* never past the bytes received, so a round ends.
MovesForward ==
  [][phase = "parse" /\ at' # at => at < at' /\ at' <= fed]_vars

Ends(frames) == {frames[i].end : i \in 1 .. Len(frames)}

\* What the sender put into a stream is messages, one behind the other, and the
\* noise between them holds none: from a place that is in no frame, a reader that
\* has the whole stream accepts nothing, or what ends with the next frame.
\* It is honest if nothing there waits for bytes of later frames for ever.
WholeVerdict(x, p)   == Verdict(x.bytes, p, Len(x.bytes))
BetweenFrames(x, p) ==
  \A i \in 1 .. Len(x.sent) : p <= x.sent[i].from \/ x.sent[i].end <= p
Completes(x, p, i) ==
  /\ p <= x.sent[i].from /\ WholeVerdict(x, p).end = x.sent[i].end
  /\ \A j \in 1 .. i - 1 : x.sent[j].end <= p
  /\ x.honest => x.sent[i].from - p <= 3
KeepsTheRules(x) ==
  LET Frames == 1 .. Len(x.sent)
  IN  /\ \A i \in Frames :
           /\ StartsFIX(x.bytes, x.sent[i].from)
           /\ IsFrame(WholeVerdict(x, x.sent[i].from))
           /\ WholeVerdict(x, x.sent[i].from).end = x.sent[i].end
      /\ \A i, j \in Frames : i < j => x.sent[i].end <= x.sent[j].from
      /\ \A p \in {p \in 0 .. Len(x.bytes) : BetweenFrames(x, p)} :
           /\ IsFrame(WholeVerdict(x, p)) => \E i \in Frames : Completes(x, p, i)
           /\ x.honest /\ ~WholeVerdict(x, p).complete => \A i \in Frames : x.sent[i].end <= p

\* Only frames of the sender are delivered: no message ends where the sender
\* did not end one.  BeginString is recognised by the place of its end only, so
\* that noise before a frame may become part of it: on an honest stream never
\* more than the three bytes by which one BeginString may be longer than another.
NothingInvented ==
  /\ Ends(delivered) \subseteq Ends(stream.sent)
  /\ stream.honest =>
       \A i \in 1 .. Len(delivered), j \in 1 .. Len(stream.sent) :
         delivered[i].end = stream.sent[j].end =>
           stream.sent[j].from - delivered[i].from \in 0 .. 3

\* Whatever the noise claims, the reader passes no frame of the sender: once
\* it is beyond the frame's first byte, the frame has been delivered.  Frames
\* behind a message that claims too many bytes wait until it is refuted, so that
\* only at the end of an honest stream all of them have been delivered.
NothingLost ==
  /\ \A i \in 1 .. Len(stream.sent) :
       stream.sent[i].from < at => stream.sent[i].end \in Ends(delivered)
  /\ phase = "done" /\ Arrived /\ stream.honest => Ends(stream.sent) \subseteq Ends(delivered)

\* A stream of frames only, none larger than the buffer.
Plain(x) ==
  LET n == Len(x.sent)
  IN  /\ IF n = 0 THEN x.bytes = <<>> ELSE x.sent[1].from = 0 /\ x.sent[n].end = Len(x.bytes)
      /\ \A i \in 1 .. n - 1 : x.sent[i].end = x.sent[i + 1].from
      /\ \A i \in 1 .. n : x.sent[i].end - x.sent[i].from <= x.buffer

\* The loop ends on every stream: no message is skipped in place.
LoopEnds == <>(phase = "done")

\* On a stream without noise all the frames are delivered in the end, however
\* small the reads are and however little room the buffer has.
EverythingDelivered ==
  Plain(stream) => <>[](phase = "done" /\ delivered = stream.sent)
=============================================================================
