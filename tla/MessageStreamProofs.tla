------------------------- MODULE MessageStreamProofs -------------------------
(***************************************************************************)
(* However a stream is cut into reads, its messages are delivered once and *)
(* in order, and a decision about one is never revised, for every stream,  *)
(* chunk size and buffer size.  If its sender kept the rules, the messages *)
(* delivered are the sender's, and none is lost behind noise.              *)
(***************************************************************************)
EXTENDS MessageStream, ReadingProofs

\* Between two rounds the reader to come starts at the front of the buffer.
FromTheFront == phase = "read" => at = base

IInv == TypeOK /\ InOrder /\ FromTheFront

(* Lemmas *)

LEMMA SizesType == TypeOK => Len(stream.bytes) \in Nat /\ fed \in Nat /\ base \in Nat /\ at \in Nat
  BY DEF TypeOK, IsStream

\* The positions a reader leads to.
LEMMA CurrentRange ==
  ASSUME TypeOK
  PROVE  /\ IsFrame(Current) => Current.end \in at + 1 .. fed
         /\ IsInvalid(Current) => Resync(stream.bytes, at, fed) \in at + 1 .. fed
<1>1. at \in Nat /\ fed \in Nat
  BY SizesType
<1>2. Verdicts(Current, at, fed) /\ (Current # Incomplete => at + 9 < fed)
  BY <1>1, VerdictResult DEF Current
<1>3. IsFrame(Current) => Current.end \in at + 1 .. fed
  BY <1>2 DEF Verdicts, IsFrame, Incomplete, Invalid
<1>4. IsInvalid(Current) => Resync(stream.bytes, at, fed) \in at + 1 .. fed
  <2>1. IsInvalid(Current) => Current # Incomplete
    BY DEF IsInvalid, Incomplete
  <2>2. IsInvalid(Current) => at < fed
    BY <1>1, <1>2, <2>1
  <2> QED
    BY <1>1, <2>2, ResyncResult
<1> QED
  BY <1>3, <1>4

LEMMA SeqGrows ==
  ASSUME NEW S, NEW T, S \subseteq T, NEW s \in Seq(S)
  PROVE  s \in Seq(T)
  OBVIOUS

LEMMA ElementType ==
  ASSUME NEW S, NEW s \in Seq(S), NEW i \in 1 .. Len(s)
  PROVE  s[i] \in S
  OBVIOUS

LEMMA DeliveredType ==
  ASSUME TypeOK, NEW i \in 1 .. Len(delivered)
  PROVE  delivered[i].from \in 0 .. fed /\ delivered[i].end \in 0 .. fed
<1>1. delivered[i] \in [from : 0 .. fed, end : 0 .. fed]
  BY ElementType DEF TypeOK
<1> QED
  BY <1>1

\* A step that delivers nothing and does not go back keeps the order.
LEMMA OrderKept ==
  ASSUME IInv, at' \in Nat, at <= at', delivered' = delivered
  PROVE  InOrder'
<1>1. delivered # <<>> => delivered[Len(delivered)].end <= at'
  <2> SUFFICES ASSUME delivered # <<>> PROVE delivered[Len(delivered)].end <= at'
    OBVIOUS
  <2>1. Len(delivered) \in 1 .. Len(delivered)
    BY DEF IInv, TypeOK
  <2>2. delivered[Len(delivered)].end \in 0 .. fed
    BY <2>1, DeliveredType DEF IInv
  <2>3. delivered[Len(delivered)].end <= at
    BY DEF IInv, InOrder
  <2>4. at \in Nat /\ fed \in Nat
    BY SizesType DEF IInv
  <2> QED
    BY <2>2, <2>3, <2>4
<1> QED
  BY <1>1 DEF IInv, InOrder

----------------------------------------------------------------------------
(* The invariant *)

LEMMA InitEstablishes == Init => IInv
<1> SUFFICES ASSUME Init PROVE IInv
  OBVIOUS
<1>1. IsStream(stream)
  BY StreamsAssumption DEF Init
<1>2. TypeOK
  BY <1>1 DEF Init, TypeOK, IsStream
<1> QED
  BY <1>2 DEF Init, IInv, InOrder, FromTheFront

LEMMA ReadKeeps ==
  ASSUME IInv, Read
  PROVE  IInv'
<1>0. /\ Len(stream.bytes) \in Nat /\ fed \in Nat /\ base \in Nat /\ at \in Nat
      /\ fed <= Len(stream.bytes) /\ base <= fed /\ Space \in Nat /\ stream.buffer \in Nat
  BY SizesType DEF IInv, TypeOK, Space, Read, IsStream
<1>1. PICK chunk \in ChunkSizes :
        fed' = fed + (CHOOSE n \in {chunk, Space, Len(stream.bytes) - fed} :
                        \A k \in {chunk, Space, Len(stream.bytes) - fed} : n <= k)
  BY DEF Read
<1> DEFINE left == Len(stream.bytes) - fed
           n == CHOOSE n \in {chunk, Space, left} : \A k \in {chunk, Space, left} : n <= k
<1>2. chunk \in Nat /\ left \in Nat
  BY <1>0, ChunkAssumption
<1>3. \E k \in {chunk, Space, left} : \A j \in {chunk, Space, left} : k <= j
  <2> HIDE DEF left
  <2> QED
    BY <1>0, <1>2
<1>4. n \in {chunk, Space, left} /\ \A k \in {chunk, Space, left} : n <= k
  BY <1>3
<1>5. fed' = fed + n
  BY <1>1
<1> HIDE DEF n
<1>6. n \in Nat /\ n <= left /\ n <= Space
  BY <1>0, <1>2, <1>4
<1>7. fed' \in fed .. Len(stream.bytes) /\ fed' - base <= stream.buffer
  BY <1>0, <1>5, <1>6 DEF Space
<1>8. delivered' \in Seq([from : 0 .. fed', end : 0 .. fed'])
  <2>1. [from : 0 .. fed, end : 0 .. fed] \subseteq [from : 0 .. fed', end : 0 .. fed']
    BY <1>0, <1>7
  <2>2. delivered' = delivered /\ delivered \in Seq([from : 0 .. fed, end : 0 .. fed])
    BY DEF IInv, TypeOK, Read
  <2> QED
    BY <2>1, <2>2, SeqGrows
<1>9. /\ stream' = stream /\ base' = base /\ at' = base /\ phase' = "parse"
      /\ at = base /\ IsStream(stream')
  BY DEF Read, IInv, TypeOK, FromTheFront
<1>10. TypeOK'
  <2>1. IsStream(stream)'
    BY <1>9
  <2>2. /\ fed' \in 0 .. Len(stream'.bytes)
        /\ base' \in 0 .. fed' /\ fed' - base' <= stream'.buffer
        /\ at' \in base' .. fed'
    <3>1. fed' \in fed .. Len(stream.bytes)
      BY <1>7
    <3>2. fed' \in Nat /\ base <= fed' /\ fed' <= Len(stream.bytes)
      BY <1>0, <3>1
    <3>3. Len(stream'.bytes) = Len(stream.bytes)
      BY <1>9
    <3>4. base' = base /\ at' = base
      BY <1>9
    <3>5. fed' \in 0 .. Len(stream'.bytes)
      BY <3>2, <3>3
    <3>6. base' \in 0 .. fed' /\ at' \in base' .. fed'
      BY <1>0, <3>2, <3>4
    <3>7. fed' - base' <= stream'.buffer
      BY <1>7, <1>9, <3>4
    <3> QED
      BY <3>5, <3>6, <3>7
  <2>3. (delivered \in Seq([from : 0 .. fed, end : 0 .. fed]))'
    BY <1>8
  <2> QED
    BY <1>9, <2>1, <2>2, <2>3 DEF TypeOK
<1>11. InOrder'
  BY <1>0, <1>9, OrderKept DEF Read
<1> QED
  BY <1>9, <1>10, <1>11 DEF IInv, FromTheFront

LEMMA EndOfInputKeeps ==
  ASSUME IInv, EndOfInput
  PROVE  IInv'
<1>1. UNCHANGED <<stream, fed, base, at, delivered>> /\ phase' = "done"
  BY DEF EndOfInput
<1>2. TypeOK' /\ InOrder'
  BY <1>1 DEF IInv, TypeOK, InOrder
<1> QED
  BY <1>1, <1>2 DEF IInv, FromTheFront

LEMMA DeliverKeeps ==
  ASSUME IInv, Deliver
  PROVE  IInv'
<1> DEFINE new == [from |-> at, end |-> Current.end]
<1>1. /\ fed \in Nat /\ base \in Nat /\ at \in Nat /\ at \in base .. fed
      /\ Current.end \in at + 1 .. fed
  BY SizesType, CurrentRange DEF IInv, TypeOK, Deliver
<1>2. /\ at' = Current.end /\ phase' = "parse" /\ UNCHANGED <<stream, fed, base>>
      /\ delivered' = Append(delivered, new)
  BY DEF Deliver, NextOf
<1>3. new \in [from : 0 .. fed, end : 0 .. fed] /\ new.from = at /\ new.end = Current.end
  BY <1>1
<1> HIDE DEF new
<1>4. /\ delivered' \in Seq([from : 0 .. fed, end : 0 .. fed])
      /\ Len(delivered') = Len(delivered) + 1 /\ Len(delivered) \in Nat
      /\ \A i \in 1 .. Len(delivered) : delivered'[i] = delivered[i]
      /\ delivered'[Len(delivered) + 1] = new
  BY <1>2, <1>3 DEF IInv, TypeOK
<1>5. TypeOK'
  BY <1>1, <1>2, <1>4 DEF IInv, TypeOK
<1>6. ASSUME NEW i \in 1 .. Len(delivered') - 1
      PROVE  delivered'[i].end <= delivered'[i + 1].from
  <2>1. CASE i \in 1 .. Len(delivered) - 1
    <3>1. i \in 1 .. Len(delivered) /\ i + 1 \in 1 .. Len(delivered)
      BY <1>4, <2>1
    <3>2. delivered'[i] = delivered[i] /\ delivered'[i + 1] = delivered[i + 1]
      BY <1>4, <3>1
    <3>3. delivered[i].end <= delivered[i + 1].from
      BY <2>1 DEF IInv, InOrder
    <3> QED
      BY <3>2, <3>3
  <2>2. CASE i = Len(delivered)
    <3>1. delivered'[i] = delivered[i] /\ delivered'[i + 1] = new
      BY <1>4, <2>2
    <3>2. delivered # <<>>
      BY <1>4, <2>2
    <3>3. delivered[i].end <= at
      BY <2>2, <3>2 DEF IInv, InOrder
    <3> QED
      BY <1>3, <3>1, <3>3
  <2> QED
    BY <1>4, <2>1, <2>2
<1>7. ASSUME NEW i \in 1 .. Len(delivered')
      PROVE  delivered'[i].from < delivered'[i].end
  <2>1. CASE i \in 1 .. Len(delivered)
    BY <1>4, <2>1 DEF IInv, InOrder
  <2>2. CASE i = Len(delivered) + 1
    BY <1>1, <1>3, <1>4, <2>2
  <2> QED
    BY <1>4, <2>1, <2>2
<1>8. delivered'[Len(delivered')].end <= at'
  BY <1>1, <1>2, <1>3, <1>4
<1> QED
  BY <1>2, <1>5, <1>6, <1>7, <1>8 DEF IInv, InOrder, FromTheFront

LEMMA SkipKeeps ==
  ASSUME IInv, Skip
  PROVE  IInv'
<1>1. /\ fed \in Nat /\ base \in Nat /\ at \in base .. fed
      /\ Resync(stream.bytes, at, fed) \in at + 1 .. fed
  BY SizesType, CurrentRange DEF IInv, TypeOK, Skip
<1>2. /\ at' = Resync(stream.bytes, at, fed) /\ phase' = "parse"
      /\ UNCHANGED <<stream, fed, base, delivered>>
  BY DEF Skip
<1>3. at' \in at + 1 .. fed
  BY <1>1, <1>2
<1>4. TypeOK'
  BY <1>1, <1>2, <1>3 DEF IInv, TypeOK
<1>5. InOrder'
  BY <1>1, <1>2, <1>3, OrderKept
<1> QED
  BY <1>2, <1>4, <1>5 DEF IInv, FromTheFront

LEMMA KeepTailKeeps ==
  ASSUME IInv, KeepTail
  PROVE  IInv'
<1>1. /\ fed \in Nat /\ base \in Nat /\ at \in base .. fed /\ stream.buffer \in Nat
      /\ fed - base <= stream.buffer
  BY SizesType DEF IInv, TypeOK, IsStream
<1>2. base' = at /\ phase' = "read" /\ UNCHANGED <<stream, fed, at, delivered>>
  BY DEF KeepTail
<1>3. TypeOK'
  BY <1>1, <1>2 DEF IInv, TypeOK
<1>4. InOrder'
  BY <1>2 DEF IInv, InOrder
<1> QED
  BY <1>2, <1>3, <1>4 DEF IInv, FromTheFront

LEMMA StepKeeps == IInv /\ [Next]_vars => IInv'
<1> SUFFICES ASSUME IInv, [Next]_vars PROVE IInv'
  OBVIOUS
<1>1. CASE UNCHANGED vars
  BY <1>1 DEF vars, IInv, TypeOK, InOrder, FromTheFront
<1>2. CASE Next
  BY <1>2, ReadKeeps, EndOfInputKeeps, DeliverKeeps, SkipKeeps, KeepTailKeeps DEF Next
<1> QED
  BY <1>1, <1>2

----------------------------------------------------------------------------
(* Theorems *)

THEOREM Invariance == Spec => []IInv
  BY InitEstablishes, StepKeeps, PTL DEF Spec

\* The positions of the loop and the buffer stay within what has been read.
THEOREM TypeCorrect == Spec => []TypeOK
<1>1. IInv => TypeOK
  BY DEF IInv
<1> QED
  BY <1>1, Invariance, PTL

\* Deliveries come in order, without overlap and without repetition.
THEOREM DeliveredInOrder == Spec => []InOrder
<1>1. IInv => InOrder
  BY DEF IInv
<1> QED
  BY <1>1, Invariance, PTL

\* What the loop decides about a message it would decide with the rest of the
\* stream in hand: no cut of the stream changes which messages are found.
THEOREM DecisionsAreFinal == Spec => []VerdictIsFinal
<1>1. TypeOK => VerdictIsFinal
  <2> SUFFICES ASSUME TypeOK, Current.complete
               PROVE  Current = Verdict(stream.bytes, at, Len(stream.bytes))
    BY DEF VerdictIsFinal
  <2>1. at \in Nat /\ fed \in Nat /\ Len(stream.bytes) \in Nat /\ fed <= Len(stream.bytes)
    BY SizesType DEF TypeOK
  <2> QED
    BY <2>1, VerdictStable DEF Current
<1> QED
  BY <1>1, TypeCorrect, PTL

\* Every message delivered or skipped moves the parse loop forward, so a round
\* takes at most as many steps as bytes have been read.
THEOREM ParsingMovesForward == Spec => MovesForward
<1>1. IInv /\ [Next]_vars => [phase = "parse" /\ at' # at => at < at' /\ at' <= fed]_vars
  <2> SUFFICES ASSUME IInv, Next, phase = "parse", at' # at
               PROVE  at < at' /\ at' <= fed
    BY DEF vars
  <2>1. fed \in Nat /\ at \in Nat
    BY SizesType DEF IInv
  <2>2. CASE Deliver
    BY <2>1, <2>2, CurrentRange DEF Deliver, NextOf, IInv
  <2>3. CASE Skip
    BY <2>1, <2>3, CurrentRange DEF Skip, IInv
  <2> QED
    BY <2>2, <2>3 DEF Next, Read, EndOfInput, KeepTail
<1> QED
  BY <1>1, Invariance, PTL DEF Spec, MovesForward

----------------------------------------------------------------------------
(* Streams whose sender kept the rules: all its frames, and no others *)

Sent == 1 .. Len(stream.sent)

\* The reader is never inside a frame; the frames it has passed have been
\* delivered, and what has been delivered is a frame or ends with one; a round
\* ends at a message that is not complete.
Matched ==
  /\ KeepsTheRules(stream)
  /\ BetweenFrames(stream, at)
  /\ \A i \in Sent : stream.sent[i].from < at => stream.sent[i].end \in Ends(delivered)
  /\ \A k \in 1 .. Len(delivered) : \E i \in Sent :
       Completes(stream, delivered[k].from, i) /\ delivered[k].end = stream.sent[i].end
  /\ phase \in {"read", "done"} => ~Current.complete

\* next_message_reader() of an invalid message does not pass an "8=FIX" that
\* leaves something behind it.
LEMMA ResyncPassesNone ==
  ASSUME NEW s, NEW p \in Nat, NEW e \in Nat, p + 9 < e, NEW f \in Nat, p < f, StartsFIX(s, f)
  PROVE  Resync(s, p, e) <= f \/ e <= f
<1> DEFINE S == {j \in p + 1 .. e - 11 : StartsFIX(s, j)}
           stop == Larger(p + 1, e - 10)
<1>1. stop \in Nat /\ p + 1 <= stop /\ (stop = p + 1 \/ stop = e - 10)
  BY DEF Larger
<1>2. Resync(s, p, e) = FirstIn(S, p + 1, stop)
  BY DEF Resync
<1>3. f \in p + 1 .. stop - 1 => f \in S
  BY <1>1
<1> HIDE DEF S, stop
<1>4. /\ FirstIn(S, p + 1, stop) \in p + 1 .. stop
      /\ FirstIn(S, p + 1, stop) < stop => \A k \in p + 1 .. FirstIn(S, p + 1, stop) - 1 : k \notin S
      /\ FirstIn(S, p + 1, stop) = stop => \A k \in p + 1 .. stop - 1 : k \notin S
  <2> DEFINE start == p + 1
  <2>1. start \in Nat /\ start <= stop
    BY <1>1
  <2> HIDE DEF start
  <2>2. /\ FirstIn(S, start, stop) \in start .. stop
        /\ FirstIn(S, start, stop) < stop =>
             \A k \in start .. FirstIn(S, start, stop) - 1 : k \notin S
        /\ FirstIn(S, start, stop) = stop => \A k \in start .. stop - 1 : k \notin S
    BY <1>1, <2>1, FirstInResult
  <2> QED
    BY <2>2 DEF start
<1> QED
  BY <1>1, <1>2, <1>3, <1>4

\* The frames of the sender lie in the stream.
LEMMA SentType ==
  ASSUME TypeOK
  PROVE  \A i \in Sent : /\ stream.sent[i].from \in Nat /\ stream.sent[i].end \in Nat
                        /\ stream.sent[i].from < stream.sent[i].end
                        /\ stream.sent[i].end <= Len(stream.bytes)
<1>1. Len(stream.bytes) \in Nat /\ IsStream(stream)
  BY SizesType DEF TypeOK
<1> QED
  BY <1>1 DEF IsStream, Sent

\* A complete verdict is the one on the whole stream.
LEMMA CurrentIsWhole ==
  ASSUME TypeOK, Current.complete
  PROVE  Current = WholeVerdict(stream, at)
<1>1. at \in Nat /\ fed \in Nat /\ Len(stream.bytes) \in Nat /\ fed <= Len(stream.bytes)
  BY SizesType DEF TypeOK
<1> QED
  BY <1>1, VerdictStable DEF Current, WholeVerdict

\* The rules, frame by frame and place by place.
LEMMA Rules ==
  ASSUME TypeOK, Matched
  PROVE  /\ \A i \in Sent : /\ StartsFIX(stream.bytes, stream.sent[i].from)
                           /\ IsFrame(WholeVerdict(stream, stream.sent[i].from))
         /\ \A i, j \in Sent : i < j => stream.sent[i].end <= stream.sent[j].from
         /\ IsFrame(WholeVerdict(stream, at)) => \E i \in Sent : Completes(stream, at, i)
         /\ stream.honest /\ ~WholeVerdict(stream, at).complete =>
              \A i \in Sent : stream.sent[i].end <= at
<1>1. at \in 0 .. Len(stream.bytes) /\ BetweenFrames(stream, at)
  BY SizesType DEF TypeOK, Matched
<1> QED
  BY <1>1 DEF Matched, KeepsTheRules, Sent

\* Before anything has arrived the reader has passed nothing.
LEMMA InitMatched ==
  ASSUME Init, TypeOK, KeepsTheRules(stream)
  PROVE  Matched
<1>1. BetweenFrames(stream, at)
  BY SentType DEF Init, BetweenFrames, Sent
<1>2. \A i \in Sent : ~(stream.sent[i].from < at)
  BY SentType DEF Init
<1>3. ~Current.complete
  <2>1. Current # Incomplete => at + 9 < fed
    BY VerdictResult DEF Init, Current
  <2> QED
    BY <2>1 DEF Init, Incomplete
<1> QED
  BY <1>1, <1>2, <1>3 DEF Init, Matched

\* A step that leaves the reader where it is.
LEMMA StaysMatched ==
  ASSUME Matched, UNCHANGED <<stream, at, delivered>>,
         phase' \in {"read", "done"} => ~Current'.complete
  PROVE  Matched'
  BY DEF Matched, Sent

\* A delivered message ends with the first frame not passed before, so that the
\* reader stands behind that frame and none other was passed.
LEMMA DeliverMatched ==
  ASSUME IInv, Matched, Deliver
  PROVE  Matched'
<1> DEFINE new == [from |-> at, end |-> Current.end]
           sent == stream.sent
<1>0. /\ TypeOK /\ at \in Nat /\ Current.complete /\ IsFrame(Current)
      /\ Current = WholeVerdict(stream, at)
  BY SizesType, CurrentIsWhole DEF IInv, Deliver, IsFrame
<1>1. PICK i \in Sent : Completes(stream, at, i)
  BY <1>0, Rules
<1>2. /\ at <= sent[i].from /\ Current.end = sent[i].end
      /\ \A j \in 1 .. i - 1 : sent[j].end <= at
  BY <1>0, <1>1 DEF Completes
<1>3. at' = sent[i].end /\ phase' = "parse" /\ stream' = stream /\ delivered' = Append(delivered, new)
  BY <1>2 DEF Deliver, NextOf
<1>4. /\ Len(delivered) \in Nat /\ Len(delivered') = Len(delivered) + 1
      /\ \A k \in 1 .. Len(delivered) : delivered'[k] = delivered[k]
      /\ delivered'[Len(delivered) + 1] = new
  BY <1>3 DEF IInv, TypeOK
<1>5. \A j \in Sent : j < i => j \in 1 .. i - 1
  BY <1>0 DEF Sent, TypeOK, IsStream
<1>6. ASSUME NEW j \in Sent PROVE j < i \/ j = i \/ i < j
  BY <1>0 DEF Sent, TypeOK, IsStream
<1>7. BetweenFrames(stream, at')
  <2> SUFFICES ASSUME NEW j \in Sent PROVE at' <= sent[j].from \/ sent[j].end <= at'
    BY DEF BetweenFrames, Sent
  <2>1. CASE j < i
    BY <1>0, <1>2, <1>3, <1>5, <2>1, SentType
  <2>2. CASE j = i
    BY <1>0, <1>3, <2>2, SentType
  <2>3. CASE i < j
    BY <1>0, <1>3, <2>3, Rules
  <2> QED
    BY <1>6, <2>1, <2>2, <2>3
<1>8. ASSUME NEW c \in Ends(delivered) PROVE c \in Ends(delivered')
  BY <1>4 DEF Ends
<1>9. sent[i].end \in Ends(delivered')
  <2>1. delivered'[Len(delivered')].end = sent[i].end /\ Len(delivered') \in 1 .. Len(delivered')
    BY <1>2, <1>4
  <2> QED
    BY <2>1 DEF Ends
<1>10. ASSUME NEW j \in Sent, sent[j].from < at' PROVE sent[j].end \in Ends(delivered')
  <2>1. CASE j < i
    <3>1. sent[j].from < at
      BY <1>0, <1>2, <1>5, <2>1, SentType
    <3> QED
      BY <1>8, <3>1 DEF Matched
  <2>2. CASE j = i
    BY <1>9, <2>2
  <2>3. CASE i < j
    BY <1>0, <1>3, <1>10, <2>3, Rules, SentType
  <2> QED
    BY <1>6, <2>1, <2>2, <2>3
<1>11. ASSUME NEW k \in 1 .. Len(delivered')
       PROVE  \E j \in Sent : Completes(stream, delivered'[k].from, j) /\ delivered'[k].end = sent[j].end
  <2>1. CASE k \in 1 .. Len(delivered)
    BY <1>4, <2>1 DEF Matched
  <2>2. CASE k = Len(delivered) + 1
    BY <1>1, <1>2, <1>4, <2>2
  <2> QED
    BY <1>4, <2>1, <2>2
<1> QED
  BY <1>3, <1>7, <1>10, <1>11 DEF Matched, Sent

\* A skipped message is no frame, and the search behind it stops at the next.
LEMMA SkipMatched ==
  ASSUME IInv, Matched, Skip
  PROVE  Matched'
<1> DEFINE sent == stream.sent
           next == Resync(stream.bytes, at, fed)
<1>0. /\ TypeOK /\ at \in Nat /\ fed \in Nat /\ IsInvalid(Current) /\ next \in at + 1 .. fed
      /\ at + 9 < fed
  <2>1. TypeOK /\ at \in Nat /\ fed \in Nat /\ IsInvalid(Current)
    BY SizesType DEF IInv, Skip
  <2>2. next \in at + 1 .. fed
    BY <2>1, CurrentRange
  <2>3. Current # Incomplete
    BY <2>1 DEF IsInvalid, Incomplete
  <2>4. at + 9 < fed
    BY <2>1, <2>3, VerdictResult DEF Current
  <2> QED
    BY <2>1, <2>2, <2>4
<1>1. ~IsFrame(WholeVerdict(stream, at))
  <2>1. Current.complete
    <3>1. Verdicts(Current, at, fed)
      BY <1>0, VerdictResult DEF Current
    <3> QED
      BY <1>0, <3>1 DEF Verdicts, IsInvalid, Incomplete, Invalid, IsFrame
  <2> QED
    BY <1>0, <2>1, CurrentIsWhole DEF IsFrame, IsInvalid
<1>2. /\ at' = next /\ phase' = "parse" /\ UNCHANGED <<stream, fed, delivered>>
  BY DEF Skip
<1>3. ASSUME NEW j \in Sent, sent[j].from < next
      PROVE  sent[j].from < at
  <2>1. sent[j].from \in Nat /\ StartsFIX(stream.bytes, sent[j].from)
    BY <1>0, Rules, SentType
  <2>2. sent[j].from # at
    BY <1>0, <1>1, Rules
  <2>3. ~(at < sent[j].from)
    BY <1>0, <1>3, <2>1, ResyncPassesNone
  <2> QED
    BY <1>0, <2>1, <2>2, <2>3
<1>4. BetweenFrames(stream, next)
  <2> SUFFICES ASSUME NEW j \in Sent PROVE next <= sent[j].from \/ sent[j].end <= next
    BY DEF BetweenFrames, Sent
  <2>1. sent[j].from < at => sent[j].end <= at
    BY <1>0, SentType DEF Matched, BetweenFrames, Sent
  <2>2. sent[j].from \in Nat /\ sent[j].end \in Nat
    BY <1>0, SentType
  <2> HIDE DEF next
  <2> QED
    BY <1>0, <1>3, <2>1, <2>2
<1> HIDE DEF next
<1> QED
  BY <1>2, <1>3, <1>4 DEF Matched, Sent

\* Reading and keeping the tail move no reader.
LEMMA StepMatches ==
  ASSUME IInv, Matched, [Next]_vars
  PROVE  Matched'
<1>1. CASE UNCHANGED vars
  <2>1. Current' = Current
    BY <1>1 DEF vars, Current
  <2> QED
    BY <1>1, <2>1, StaysMatched DEF vars, Matched
<1>2. CASE Read
  <2>1. at' = at
    BY <1>2 DEF Read, IInv, FromTheFront
  <2> QED
    BY <1>2, <2>1, StaysMatched DEF Read
<1>3. CASE EndOfInput
  <2>1. Current' = Current /\ ~Current.complete
    BY <1>3 DEF EndOfInput, Current, Matched
  <2> QED
    BY <1>3, <2>1, StaysMatched DEF EndOfInput
<1>4. CASE KeepTail
  <2>1. Current' = Current /\ ~Current.complete
    BY <1>4 DEF KeepTail, Current
  <2> QED
    BY <1>4, <2>1, StaysMatched DEF KeepTail
<1> QED
  BY <1>1, <1>2, <1>3, <1>4, DeliverMatched, SkipMatched DEF Next

\* However the reads cut it, in a stream whose sender kept the rules the loop
\* never enters a frame without delivering it, and delivers nothing else.
THEOREM MatchedAlways ==
  ASSUME \A x \in Streams : KeepsTheRules(x)
  PROVE  Spec => []Matched
<1>1. Init => Matched
  <2>1. Init => IInv /\ KeepsTheRules(stream)
    BY InitEstablishes DEF Init
  <2> QED
    BY <2>1, InitMatched DEF IInv
<1>2. IInv /\ Matched /\ [Next]_vars => Matched'
  BY StepMatches
<1> QED
  BY <1>1, <1>2, Invariance, PTL DEF Spec

\* What the loop delivers ends where the sender ended a message, and on an honest
\* stream begins no more than three bytes before it.
THEOREM OnlyFramesDelivered ==
  ASSUME \A x \in Streams : KeepsTheRules(x)
  PROVE  Spec => []NothingInvented
<1>1. IInv /\ Matched => NothingInvented
  <2> SUFFICES ASSUME IInv, Matched PROVE NothingInvented
    OBVIOUS
  <2>1. Ends(delivered) \subseteq Ends(stream.sent)
    BY DEF Matched, Ends, Sent
  <2>2. ASSUME stream.honest, NEW k \in 1 .. Len(delivered), NEW j \in 1 .. Len(stream.sent),
               delivered[k].end = stream.sent[j].end
        PROVE  stream.sent[j].from - delivered[k].from \in 0 .. 3
    <3>1. TypeOK /\ j \in Sent
      BY DEF IInv, Sent
    <3>2. PICK i \in Sent :
            Completes(stream, delivered[k].from, i) /\ delivered[k].end = stream.sent[i].end
      BY DEF Matched
    <3>3. i = j
      <4>1. i \in Nat /\ j \in Nat
        BY <3>1 DEF Sent, TypeOK, IsStream
      <4>2. stream.sent[i].end = stream.sent[j].end
        BY <2>2, <3>2
      <4>3. /\ i < j => stream.sent[i].end <= stream.sent[j].from
            /\ j < i => stream.sent[j].end <= stream.sent[i].from
        BY <3>1, Rules
      <4>4. /\ stream.sent[i].from < stream.sent[i].end /\ stream.sent[i].from \in Nat
            /\ stream.sent[j].from < stream.sent[j].end /\ stream.sent[j].from \in Nat
            /\ stream.sent[i].end \in Nat
        BY <3>1, SentType
      <4> QED
        BY <4>1, <4>2, <4>3, <4>4
    <3>4. /\ delivered[k].from <= stream.sent[j].from
          /\ stream.sent[j].from - delivered[k].from <= 3
      BY <2>2, <3>2, <3>3 DEF Completes
    <3>5. delivered[k].from \in Nat /\ stream.sent[j].from \in Nat
      BY <3>1, SizesType, DeliveredType, SentType
    <3> QED
      BY <3>4, <3>5
  <2> QED
    BY <2>1, <2>2 DEF NothingInvented
<1> QED
  BY <1>1, Invariance, MatchedAlways, PTL

\* The loop passes no frame of the sender, whatever the noise claims, and at the
\* end of an honest stream that arrived in full it has delivered all of them.
THEOREM NoFrameLost ==
  ASSUME \A x \in Streams : KeepsTheRules(x)
  PROVE  Spec => []NothingLost
<1>1. IInv /\ Matched => NothingLost
  <2> SUFFICES ASSUME IInv, Matched PROVE NothingLost
    OBVIOUS
  <2>1. \A i \in Sent : stream.sent[i].from < at => stream.sent[i].end \in Ends(delivered)
    BY DEF Matched
  <2>2. ASSUME phase = "done", Arrived, stream.honest, NEW i \in Sent
        PROVE  stream.sent[i].end \in Ends(delivered)
    <3>1. ~WholeVerdict(stream, at).complete
      BY <2>2 DEF Matched, Current, WholeVerdict, Arrived
    <3>2. TypeOK /\ stream.sent[i].end <= at
      BY <2>2, <3>1, Rules DEF IInv
    <3>3. stream.sent[i].from < at
      BY <3>2, SentType, SizesType
    <3> QED
      BY <2>1, <3>3
  <2>3. \A c \in Ends(stream.sent) : \E i \in Sent : c = stream.sent[i].end
    BY DEF Ends, Sent
  <2> QED
    BY <2>1, <2>2, <2>3 DEF NothingLost, Sent
<1> QED
  BY <1>1, Invariance, MatchedAlways, PTL
=============================================================================
