----------------------------- MODULE MCScanner -----------------------------
(* Buffers for FrameScanner: a heartbeat, damaged, cut and repeated. *)
EXTENDS FrameScanner

\* "8=FIX.4.2|9=5|35=0|10=161|"
Heartbeat ==
  <<56,61,70,73,88,46,52,46,50,1, 57,61,53,1, 51,53,61,48,1, 49,48,61,49,54,49,1>>

\* One byte replaced by an SOH, a digit, the first byte of a frame, or a letter.
Damaged == {[Heartbeat EXCEPT ![i] = c] : i \in 1 .. Len(Heartbeat), c \in {1, 48, 56, 57, 120}}

\* A BodyLength of eight digits, beyond SizeModulus, and one that wraps to 5.
Huge  == SubSeq(Heartbeat, 1, 12) \o <<57,57,57,57,57,57,57,57>> \o SubSeq(Heartbeat, 14, 26)
Wraps == SubSeq(Heartbeat, 1, 12) \o <<49,54,55,55,55,50,50,49>> \o SubSeq(Heartbeat, 14, 26)

Cuts(S) == UNION {{SubSeq(x, 1, n) : n \in 0 .. Len(x)} : x \in S}
Twice(S) == {x \o y : x \in S, y \in {Heartbeat}} \cup {<<120>> \o x : x \in S}

MCBuffers == Cuts(Damaged \cup {Heartbeat, Huge, Wraps}) \cup Twice(Damaged)
=============================================================================
