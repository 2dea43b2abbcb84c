------------------------------ MODULE MCStream ------------------------------
(* Instances of MessageStream for TLC: streams put together from frames and *)
(* noise.                                                                   *)
EXTENDS MessageStream

\* "8=FIX.4.2|9=5|35=0|10=161|"
Heartbeat ==
  <<56,61,70,73,88,46,52,46,50,1, 57,61,53,1, 51,53,61,48,1, 49,48,61,49,54,49,1>>
\* "8=FIXT.1.1|9=9|35=D|9=7|10=183|": a body that holds a field of tag 9
Order ==
  <<56,61,70,73,88,84,46,49,46,49,1, 57,61,57,1, 51,53,61,68,1, 57,61,55,1,
    49,48,61,49,56,51,1>>

Frames == {Heartbeat, Order}

Letter   == <<120>>                       \* "x"
Letters  == <<120, 120, 120, 120>>
LoneSOH  == <<1>>
Start    == <<56, 61, 70, 73, 88>>        \* "8=FIX"
\* Everything of a heartbeat up to its checksum, and with a letter for its length
Truncated == SubSeq(Heartbeat, 1, 19)
Corrupt   == [Heartbeat EXCEPT ![13] = 120]
\* A heartbeat that claims forty bytes: what follows is taken for its body.
Overlong  == SubSeq(Heartbeat, 1, 12) \o <<52, 48>> \o SubSeq(Heartbeat, 14, 26)
\* A heartbeat that claims four of its five bytes: invalid only once it is whole.
Short     == [Heartbeat EXCEPT ![13] = 52]
Noise == {Letter, Letters, LoneSOH, Start, Truncated, Corrupt, Overlong, Short}

Segment(bytes, isFrame) == [bytes |-> bytes, isFrame |-> isFrame]
Segments == {Segment(f, TRUE) : f \in Frames} \cup {Segment(n, FALSE) : n \in Noise}

\* The buffer holds exactly the longest frame, or several segments.
Tight == 31
Roomy == 120

RECURSIVE Join(_, _)
Join(segs, buffer) ==
  IF segs = <<>> THEN [bytes |-> <<>>, sent |-> <<>>, honest |-> TRUE, buffer |-> buffer]
  ELSE LET front == Join(SubSeq(segs, 1, Len(segs) - 1), buffer)
           last  == segs[Len(segs)]
           from  == Len(front.bytes)
       IN  [bytes |-> front.bytes \o last.bytes,
            sent  |-> IF last.isFrame
                      THEN Append(front.sent, [from |-> from, end |-> from + Len(last.bytes)])
                      ELSE front.sent,
            honest |-> front.honest /\ last.bytes # Overlong,
            buffer |-> buffer]

UpTo(n, S) == UNION {[1 .. k -> S] : k \in 0 .. n}

FrameStreams == {Join(segs, Tight) : segs \in UpTo(4, {Segment(f, TRUE) : f \in Frames})}
NoisyStreams == {Join(segs, Roomy) : segs \in UpTo(3, Segments)}
MCStreams == FrameStreams \cup NoisyStreams
ASSUME RulesAreKept == \A x \in Streams : KeepsTheRules(x)
=============================================================================
