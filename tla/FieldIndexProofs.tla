-------------------------- MODULE FieldIndexProofs --------------------------
(***************************************************************************)
(* An index finds what the iterator finds, whatever is built into which    *)
(* buffer in which order, and what it says is absent is absent.            *)
(***************************************************************************)
EXTENDS FieldIndex, ReadingProofs

Square == HalfModulus * HalfModulus

AnyTag ==
  {Unset} \cup UNION {{s.fields[i].tag : i \in 1 .. Len(s.fields)} : s \in Sources}
SlotType  == [tag : AnyTag, posLen : 0 .. Square - 1]
IndexType == [source : Sources, count : Nat, truncated : BOOLEAN, overflowed : BOOLEAN]

Shaped ==
  /\ slots \in [Buffers -> [0 .. Capacity - 1 -> SlotType]]
  /\ index \in [Views -> IndexType \cup {None}]
  /\ owner \in [Buffers -> Views \cup {Unset}]

\* What a view says of itself is what was found when it was built.
AsBuilt(v) ==
  LET s == index[v].source
  IN  /\ index[v].count = IF Overflows(s) THEN 0 ELSE Stored(s)
      /\ index[v].truncated = Truncates(s) /\ index[v].overflowed = Overflows(s)

\* The buffer holds the fields of the view.
Holds(v) ==
  \A i \in 0 .. index[v].count - 1 : slots[BufferOf[v]][i] = Slot(index[v].source, i + 1)

IInv ==
  /\ Shaped
  /\ \A v \in Views : index[v] # None => AsBuilt(v) /\ (Intact(v) => Holds(v))
  /\ answer # Nothing => answer.view \in Views /\ index[answer.view] # None
  /\ AgreesWithIterator /\ AbsenceIsReal

----------------------------------------------------------------------------
(* pos_len *)

\* Two halves that fit are packed and unpacked without loss.
LEMMA PackUnpack ==
  ASSUME NEW pos \in Nat, NEW len \in Nat, pos < HalfModulus, len < HalfModulus
  PROVE  /\ Pack(pos, len) \in 0 .. Square - 1
         /\ Pos(Pack(pos, len)) = pos /\ Length(Pack(pos, len)) = len
<1> DEFINE H == HalfModulus
           low == pos * H
           packed == low + len
<1>1. H \in Nat /\ H > 0
  BY CapacityAssumption
<1>2. low \in Nat /\ H * H \in Nat /\ low + H <= H * H
  <2>1. (H - pos - 1) * H >= 0
    <3> DEFINE rest == H - pos - 1
    <3>1. rest \in Nat
      BY <1>1
    <3> HIDE DEF rest, H
    <3>2. rest * H \in Nat
      BY <1>1, <3>1
    <3> QED
      BY <3>2 DEF rest
  <2>2. (H - pos - 1) * H = H * H - pos * H - H
    BY <1>1
  <2> QED
    BY <1>1, <2>1, <2>2
<1>3. Pack(pos, len) = packed
  <2>1. low % (H * H) = low
    <3> DEFINE square == H * H
    <3> HIDE DEF low, square
    <3>1. low \in Nat /\ square \in Nat /\ low < square
      BY <1>1, <1>2 DEF square
    <3>2. low % square = low
      BY <3>1
    <3> QED
      BY <3>2 DEF square
  <2>2. len % H = len
    BY <1>1
  <2> QED
    BY <2>1, <2>2 DEF Pack
<1> HIDE DEF H
<1>4. packed \in 0 .. Square - 1
  <2> HIDE DEF low
  <2> QED
    BY <1>1, <1>2 DEF Square, H
<1>5. packed \div H = pos /\ packed % H = len
  BY <1>1 DEF H
<1> QED
  BY <1>3, <1>4, <1>5 DEF Pos, Length, H

----------------------------------------------------------------------------
(* What is stored of a source *)

LEMMA SourceFields ==
  ASSUME NEW s \in Sources
  PROVE  /\ s.isEntry \in BOOLEAN /\ s.size \in Nat /\ Len(s.fields) \in Nat
         /\ \A i \in 1 .. Len(s.fields) :
              s.fields[i].at \in Nat /\ s.fields[i].pos \in Nat /\ s.fields[i].len \in Nat
         /\ \A i \in 1 .. Len(s.fields) :
              /\ s.fields[i].at <= s.fields[i].pos
              /\ s.fields[i].pos + s.fields[i].len <= s.size
              /\ i > 1 => s.fields[i - 1].pos + s.fields[i - 1].len <= s.fields[i].at
  BY SourcesAssumption DEF IsSource

\* No field begins before the first one.
LEMMA OffsetsGrow ==
  ASSUME NEW s \in Sources, NEW n \in 1 .. Len(s.fields)
  PROVE  s.fields[1].at <= s.fields[n].at
<1> DEFINE T == {i \in 1 .. Len(s.fields) : ~(s.fields[1].at <= s.fields[i].at)}
<1> SUFFICES ASSUME T # {} PROVE FALSE
  OBVIOUS
<1>1. T \subseteq Nat
  BY SourceFields
<1>2. PICK x \in T : \A y \in T : x <= y
  <2> HIDE DEF T
  <2> QED
    BY <1>1, LeastNumber
<1>3. x \in 1 .. Len(s.fields) /\ 1 \in 1 .. Len(s.fields) /\ Len(s.fields) \in Nat
  BY SourceFields
<1>4. x # 1
  <2>1. s.fields[1].at \in Nat
    BY <1>3, SourceFields
  <2> QED
    BY <2>1
<1>5. x - 1 \in 1 .. Len(s.fields) /\ x - 1 < x
  BY <1>3, <1>4
<1>6. s.fields[1].at <= s.fields[x - 1].at
  BY <1>2, <1>5
<1>7. /\ s.fields[x - 1].at <= s.fields[x - 1].pos
      /\ s.fields[x - 1].pos + s.fields[x - 1].len <= s.fields[x].at
  BY <1>3, <1>4, <1>5, SourceFields
<1>8. /\ s.fields[1].at \in Nat /\ s.fields[x].at \in Nat /\ s.fields[x - 1].at \in Nat
      /\ s.fields[x - 1].pos \in Nat /\ s.fields[x - 1].len \in Nat
  BY <1>3, <1>5, SourceFields
<1>9. s.fields[1].at <= s.fields[x].at
  <2> DEFINE first == s.fields[1].at
             last  == s.fields[x - 1].at
             pos   == s.fields[x - 1].pos
             len   == s.fields[x - 1].len
             here  == s.fields[x].at
  <2>1. first <= last /\ last <= pos /\ pos + len <= here
    BY <1>6, <1>7
  <2>2. first \in Nat /\ last \in Nat /\ pos \in Nat /\ len \in Nat /\ here \in Nat
    BY <1>8
  <2> HIDE DEF T, first, last, pos, len, here
  <2>3. first <= here
    BY <2>1, <2>2
  <2> QED
    BY <2>3 DEF first, here
<1>10. ~(s.fields[1].at <= s.fields[x].at)
  OBVIOUS
<1> QED
  BY <1>9, <1>10

\* What is stored are fields of the source that fit their halves; unless the
\* index overflows or is truncated, all of them.
LEMMA StoredResult ==
  ASSUME NEW s \in Sources
  PROVE  /\ Stored(s) \in Nat /\ Stored(s) <= Capacity /\ Stored(s) <= Len(s.fields)
         /\ \A i \in 1 .. Stored(s) :
              /\ i \in 1 .. Len(s.fields)
              /\ Base(s) \in Nat /\ s.fields[i].pos \in Nat /\ Base(s) <= s.fields[i].pos
              /\ s.fields[i].pos - Base(s) < HalfModulus
              /\ s.fields[i].len < HalfModulus
         /\ ~Overflows(s) /\ ~Truncates(s) => Stored(s) = Len(s.fields)
<1> DEFINE far == {i \in 0 .. Len(s.fields) - 1 : i + 1 \in TooFar(s)}
           limit == IF Len(s.fields) < Capacity THEN Len(s.fields) ELSE Capacity
<1>1. Len(s.fields) \in Nat /\ s.size \in Nat /\ Capacity \in Nat /\ HalfModulus \in Nat
  BY SourceFields, CapacityAssumption
<1>2. Stored(s) = IF TooLarge(s) THEN 0 ELSE FirstIn(far, 0, limit)
  BY DEF Stored, StoredTill
<1>3. limit \in Nat /\ limit <= Len(s.fields) /\ limit <= Capacity
  BY <1>1
<1>4. CASE TooLarge(s)
  <2>1. Stored(s) = 0
    BY <1>2, <1>4
  <2>2. Overflows(s)
    BY <1>4 DEF Overflows
  <2> QED
    BY <1>1, <2>1, <2>2
<1>5. CASE ~TooLarge(s)
  <2>1. /\ Stored(s) \in 0 .. limit
        /\ Stored(s) < limit => Stored(s) \in far /\ \A k \in 0 .. Stored(s) - 1 : k \notin far
        /\ Stored(s) = limit => \A k \in 0 .. limit - 1 : k \notin far
    <3> DEFINE first == FirstIn(far, 0, limit)
    <3> HIDE DEF far, limit
    <3>1. 0 \in Nat /\ limit \in Nat /\ 0 <= limit
      BY <1>3
    <3>2. first \in 0 .. limit
      BY <3>1, FirstInResult
    <3>3. first < limit => first \in far /\ \A k \in 0 .. first - 1 : k \notin far
      BY <3>1, FirstInResult
    <3>4. first = limit => \A k \in 0 .. limit - 1 : k \notin far
      BY <3>1, FirstInResult
    <3>5. Stored(s) = first
      BY <1>2, <1>5
    <3> HIDE DEF first
    <3> QED
      BY <3>2, <3>3, <3>4, <3>5
  <2>2. Stored(s) \in Nat /\ Stored(s) <= limit
    BY <1>3, <2>1
  <2>3. \A k \in 0 .. Stored(s) - 1 : k \notin far
    BY <1>3, <2>1, <2>2
  <2>4. ASSUME NEW i \in 1 .. Stored(s)
        PROVE  /\ i \in 1 .. Len(s.fields)
               /\ Base(s) \in Nat /\ s.fields[i].pos \in Nat /\ Base(s) <= s.fields[i].pos
               /\ s.fields[i].pos - Base(s) < HalfModulus
               /\ s.fields[i].len < HalfModulus
    <3>1. i \in 1 .. Len(s.fields) /\ i - 1 \in 0 .. Stored(s) - 1 /\ 1 \in 1 .. Len(s.fields)
      <4> HIDE DEF limit
      <4> QED
        BY <1>1, <1>3, <2>2
    <3>2. /\ s.fields[i].at \in Nat /\ s.fields[i].pos \in Nat /\ s.fields[i].len \in Nat
          /\ s.fields[1].at \in Nat
          /\ s.fields[i].at <= s.fields[i].pos
          /\ s.fields[i].pos + s.fields[i].len <= s.size
      BY <3>1, SourceFields
    <3>3. i \notin TooFar(s)
      <4>1. i - 1 \notin far
        <5> HIDE DEF far
        <5> QED
          BY <2>3, <3>1
      <4>2. i - 1 \in 0 .. Len(s.fields) - 1 /\ (i - 1) + 1 = i
        BY <1>1, <3>1
      <4> QED
        BY <4>1, <4>2
    <3>4. CASE s.isEntry
      <4>1. Base(s) = s.fields[1].at /\ Base(s) <= s.fields[i].at
        BY <3>1, <3>4, OffsetsGrow DEF Base
      <4>2. ~(s.fields[i].pos - Base(s) >= HalfModulus) /\ ~(s.fields[i].len >= HalfModulus)
        BY <3>1, <3>3, <3>4 DEF TooFar
      <4>3. HalfModulus \in Nat
        BY <1>1
      <4>4. Base(s) \in Nat /\ Base(s) <= s.fields[i].pos
        BY <3>2, <4>1
      <4> QED
        BY <3>1, <3>2, <4>2, <4>3, <4>4
    <3>5. CASE ~s.isEntry
      <4>1. Base(s) = 0 /\ s.size <= HalfModulus - 1
        BY <1>1, <1>5, <3>5 DEF Base, TooLarge
      <4> QED
        BY <1>1, <3>1, <3>2, <4>1
    <3> QED
      BY <3>4, <3>5
  <2>5. ASSUME ~Overflows(s), ~Truncates(s)
        PROVE  Stored(s) = Len(s.fields)
    <3>1. limit = Len(s.fields)
      BY <1>1, <2>5 DEF Truncates
    <3>2. ~(Stored(s) + 1 \in TooFar(s) /\ Stored(s) < Capacity)
      BY <2>5 DEF Overflows
    <3>3. Stored(s) < limit => Stored(s) + 1 \in TooFar(s) /\ Stored(s) < Capacity
      <4>1. Stored(s) < limit => Stored(s) \in far
        <5> HIDE DEF far, limit
        <5> QED
          BY <2>1
      <4> QED
        BY <1>1, <1>3, <2>2, <4>1
    <3> QED
      BY <1>3, <2>2, <3>1, <3>2, <3>3
  <2> QED
    BY <1>1, <1>3, <2>2, <2>4, <2>5
<1> QED
  BY <1>4, <1>5

\* A slot that was filled gives back the field.
LEMMA SlotResult ==
  ASSUME NEW s \in Sources, NEW i \in 1 .. Stored(s), NEW slot, slot = Slot(s, i)
  PROVE  /\ slot \in SlotType /\ slot.tag = s.fields[i].tag
         /\ Base(s) + Pos(slot.posLen) = s.fields[i].pos
         /\ Length(slot.posLen) = s.fields[i].len
<1> DEFINE posLen == Pack(s.fields[i].pos - Base(s), s.fields[i].len)
<1>1. /\ i \in 1 .. Len(s.fields)
      /\ Base(s) \in Nat /\ s.fields[i].pos \in Nat /\ Base(s) <= s.fields[i].pos
      /\ s.fields[i].pos - Base(s) < HalfModulus
      /\ s.fields[i].len < HalfModulus
  BY StoredResult
<1>2. s.fields[i].pos - Base(s) \in Nat /\ s.fields[i].len \in Nat
  BY <1>1, SourceFields
<1>3. /\ posLen \in 0 .. Square - 1
      /\ Pos(posLen) = s.fields[i].pos - Base(s) /\ Length(posLen) = s.fields[i].len
  BY <1>1, <1>2, PackUnpack
<1> HIDE DEF posLen
<1>4. slot = [tag |-> s.fields[i].tag, posLen |-> posLen]
  BY DEF Slot, posLen
<1>5. s.fields[i].tag \in AnyTag
  BY <1>1 DEF AnyTag
<1>6. slot \in SlotType
  BY <1>3, <1>4, <1>5 DEF SlotType
<1>7. Base(s) + Pos(posLen) = s.fields[i].pos
  BY <1>1, <1>3
<1> QED
  BY <1>3, <1>4, <1>6, <1>7

----------------------------------------------------------------------------
(* Lookups *)

\* The same search, one place further on.
LEMMA SearchesAgree ==
  ASSUME NEW S, NEW T, NEW i \in Nat, NEW end \in Nat, i <= end,
         \A j \in i .. end - 1 : j \in S <=> j + 1 \in T
  PROVE  FirstIn(T, i + 1, end + 1) = FirstIn(S, i, end) + 1
<1> DEFINE first == FirstIn(S, i, end)
           other == FirstIn(T, i + 1, end + 1)
<1>1. first \in i .. end
  BY FirstInResult
<1>2. first < end => first \in S /\ \A k \in i .. first - 1 : k \notin S
  BY FirstInResult
<1>3. first = end => \A k \in i .. end - 1 : k \notin S
  BY FirstInResult
<1>4. i + 1 \in Nat /\ end + 1 \in Nat /\ i + 1 <= end + 1
  OBVIOUS
<1>5. other \in i + 1 .. end + 1
  BY <1>4, FirstInResult
<1>6. other < end + 1 => other \in T
  BY <1>4, FirstInResult
<1> HIDE DEF first
<1>7. CASE first < end
  <2>1. first + 1 \in i + 1 .. (end + 1) - 1 /\ first + 1 \in T
    BY <1>1, <1>2, <1>7
  <2>2. \A k \in i + 1 .. (first + 1) - 1 : k \notin T
    <3> SUFFICES ASSUME NEW k \in i + 1 .. (first + 1) - 1, k \in T PROVE FALSE
      OBVIOUS
    <3>1. k - 1 \in i .. first - 1 /\ k - 1 \in i .. end - 1 /\ (k - 1) + 1 = k
      BY <1>1, <1>7
    <3> QED
      BY <1>2, <1>7, <3>1
  <2>3. other = first + 1
    BY <1>4, <2>1, <2>2, FirstInUnique
  <2> QED
    BY <2>3 DEF first
<1>8. CASE first = end
  <2> HIDE DEF other
  <2>1. ~(other < end + 1)
    <3> SUFFICES ASSUME other < end + 1 PROVE FALSE
      OBVIOUS
    <3>1. other - 1 \in i .. end - 1 /\ (other - 1) + 1 = other
      BY <1>5
    <3> QED
      BY <1>3, <1>6, <1>8, <3>1
  <2>2. other = first + 1
    BY <1>5, <1>8, <2>1
  <2> QED
    BY <2>2 DEF first, other
<1> QED
  BY <1>1, <1>7, <1>8

LEMMA ViewFields ==
  ASSUME IInv, NEW v \in Views, index[v] # None
  PROVE  /\ index[v].source \in Sources /\ index[v].count \in Nat
         /\ index[v].count <= Stored(index[v].source)
         /\ AsBuilt(v) /\ (Intact(v) => Holds(v))
<1>1. index[v] \in IndexType
  BY DEF IInv, Shaped
<1>2. index[v].source \in Sources /\ index[v].count \in Nat
  BY <1>1 DEF IndexType
<1>3. AsBuilt(v) /\ (Intact(v) => Holds(v))
  BY DEF IInv
<1>4. index[v].count <= Stored(index[v].source)
  BY <1>2, <1>3, StoredResult DEF AsBuilt
<1> QED
  BY <1>2, <1>3, <1>4

LEMMA FindTagAgrees ==
  ASSUME IInv, NEW v \in Views, index[v] # None, Intact(v),
         NEW i \in Nat, NEW n \in Nat, i <= n, n <= index[v].count, NEW tag
  PROVE  /\ FindIf(index[v].source.fields, i + 1, n + 1, tag) = FindTag(v, i, n, tag) + 1
         /\ FindTag(v, i, n, tag) \in i .. n
<1> DEFINE fields == index[v].source.fields
           S == {j \in i .. n - 1 : slots[BufferOf[v]][j].tag = tag}
           T == {k \in i + 1 .. (n + 1) - 1 : fields[k].tag = tag}
<1>1. index[v].source \in Sources /\ index[v].count \in Nat /\ Holds(v)
  BY ViewFields
<1>2. \A j \in i .. n - 1 : j \in S <=> j + 1 \in T
  <2> SUFFICES ASSUME NEW j \in i .. n - 1
               PROVE  slots[BufferOf[v]][j].tag = fields[j + 1].tag
    OBVIOUS
  <2>1. j \in 0 .. index[v].count - 1
    BY <1>1
  <2>2. slots[BufferOf[v]][j] = Slot(index[v].source, j + 1)
    BY <1>1, <2>1 DEF Holds
  <2> QED
    BY <2>2 DEF Slot
<1> HIDE DEF S, T
<1>3. FirstIn(T, i + 1, n + 1) = FirstIn(S, i, n) + 1
  BY <1>2, SearchesAgree
<1>4. FirstIn(S, i, n) \in i .. n
  BY FirstInRange
<1> QED
  BY <1>3, <1>4 DEF FindIf, FindTag, S, T

\* The slot that is found is that of the field that is found.
LEMMA FindAgrees ==
  ASSUME IInv, NEW v \in Views, index[v] # None, Intact(v),
         NEW from \in Nat, from <= index[v].count, NEW tag,
         NEW slot, slot = Find(v, from, tag),
         NEW hit,
         hit = FindWithHint(index[v].source.fields, 1, index[v].count + 1, tag, from + 1)
  PROVE  /\ hit.found = (slot # index[v].count)
         /\ hit.found => hit.at = slot + 1 /\ slot \in 0 .. index[v].count - 1
         /\ ~hit.found => hit.at = from + 1
<1> DEFINE n == index[v].count
           fields == index[v].source.fields
           behind == FindTag(v, from, n, tag)
           before == FindTag(v, 0, from, tag)
<1>1. n \in Nat
  BY ViewFields
<1>2. FindIf(fields, from + 1, n + 1, tag) = behind + 1 /\ behind \in from .. n
  BY <1>1, FindTagAgrees
<1>3. FindIf(fields, 1, from + 1, tag) = before + 1 /\ before \in 0 .. from
  <2>1. FindIf(fields, 0 + 1, from + 1, tag) = before + 1 /\ before \in 0 .. from
    BY <1>1, FindTagAgrees
  <2> QED
    BY <2>1
<1>4. hit = IF behind + 1 # n + 1 THEN [found |-> TRUE, at |-> behind + 1]
            ELSE IF before + 1 # from + 1 THEN [found |-> TRUE, at |-> before + 1]
            ELSE [found |-> FALSE, at |-> from + 1]
  BY <1>2, <1>3 DEF FindWithHint
<1>5. slot = IF behind # n \/ before = from THEN behind ELSE before
  BY DEF Find
<1>6. behind \in Nat /\ behind <= n /\ before \in Nat /\ before <= from /\ from <= n
  BY <1>1, <1>2, <1>3
<1> HIDE DEF n, fields, behind, before
<1>7. (behind + 1 = n + 1 <=> behind = n) /\ (before + 1 = from + 1 <=> before = from)
  BY <1>1, <1>6
<1>8. CASE behind # n
  <2>1. hit = [found |-> TRUE, at |-> behind + 1] /\ slot = behind
    BY <1>4, <1>5, <1>7, <1>8, Zenon
  <2>2. behind \in 0 .. n - 1
    BY <1>1, <1>6, <1>8
  <2>3. hit.found = TRUE /\ hit.at = slot + 1
    BY <2>1
  <2> QED
    BY <1>8, <2>1, <2>2, <2>3 DEF n
<1>9. CASE behind = n /\ before # from
  <2>1. hit = [found |-> TRUE, at |-> before + 1] /\ slot = before
    BY <1>4, <1>5, <1>7, <1>9, Zenon
  <2>2. before \in 0 .. n - 1 /\ before # n
    BY <1>1, <1>6, <1>9
  <2>3. hit.found = TRUE /\ hit.at = slot + 1
    BY <2>1
  <2> QED
    BY <2>1, <2>2, <2>3 DEF n
<1>10. CASE behind = n /\ before = from
  <2>1. hit = [found |-> FALSE, at |-> from + 1] /\ slot = n
    BY <1>4, <1>5, <1>7, <1>10, Zenon
  <2>2. hit.found = FALSE /\ hit.at = from + 1
    BY <2>1
  <2> QED
    BY <2>1, <2>2 DEF n
<1> QED
  BY <1>8, <1>9, <1>10

----------------------------------------------------------------------------
(* The invariant *)

LEMMA InitEstablishes == Init => IInv
<1> SUFFICES ASSUME Init PROVE IInv
  OBVIOUS
<1>1. Shaped
  <2>1. 0 \in 0 .. Square - 1
    <3>1. HalfModulus \in Nat \ {0}
      BY CapacityAssumption
    <3>2. HalfModulus * HalfModulus \in Nat /\ HalfModulus * HalfModulus >= 1
      BY <3>1
    <3> QED
      BY <3>2 DEF Square
  <2>2. [tag |-> Unset, posLen |-> 0] \in SlotType
    BY <2>1 DEF SlotType, AnyTag
  <2> QED
    BY <2>2 DEF Init, Shaped
<1>2. \A v \in Views : index[v] = None
  BY DEF Init
<1>3. answer = Nothing
  BY DEF Init
<1> QED
  BY <1>1, <1>2, <1>3 DEF IInv, AgreesWithIterator, AbsenceIsReal, Answered

\* A new index is as the source is, and the views whose buffer it took are no
\* longer intact.
LEMMA BuildKeeps ==
  ASSUME IInv, NEW v \in Views, NEW s \in Sources, Build(v, s)
  PROVE  IInv'
<1> DEFINE stored == Stored(s)
           b == BufferOf[v]
           filled == [i \in 0 .. Capacity - 1 |-> IF i < stored THEN Slot(s, i + 1) ELSE slots[b][i]]
           built == [source |-> s,
                     count |-> IF Overflows(s) THEN 0 ELSE stored,
                     truncated |-> Truncates(s),
                     overflowed |-> Overflows(s)]
<1>1. /\ slots' = [slots EXCEPT ![b] = filled]
      /\ index' = [index EXCEPT ![v] = built]
      /\ owner' = [owner EXCEPT ![b] = v]
      /\ answer' = Nothing
  BY DEF Build
<1>2. stored \in Nat /\ stored <= Capacity /\ Capacity \in Nat
  BY StoredResult, CapacityAssumption
<1>3. b \in Buffers
  BY DEF Buffers
<1>4. filled \in [0 .. Capacity - 1 -> SlotType]
  <2> SUFFICES ASSUME NEW i \in 0 .. Capacity - 1
               PROVE  (IF i < stored THEN Slot(s, i + 1) ELSE slots[b][i]) \in SlotType
    OBVIOUS
  <2>1. CASE i < stored
    <3>1. i + 1 \in 1 .. Stored(s)
      BY <1>2, <2>1
    <3> QED
      BY <2>1, <3>1, SlotResult
  <2>2. CASE ~(i < stored)
    BY <1>3, <2>2 DEF IInv, Shaped
  <2> QED
    BY <2>1, <2>2
<1>5. built \in IndexType
  <2>1. Truncates(s) \in BOOLEAN /\ Overflows(s) \in BOOLEAN
    BY DEF Truncates, Overflows, TooLarge
  <2> QED
    BY <1>2, <2>1 DEF IndexType
<1>6. \A i \in 0 .. stored - 1 : filled[i] = Slot(s, i + 1)
  <2> SUFFICES ASSUME NEW i \in 0 .. stored - 1 PROVE filled[i] = Slot(s, i + 1)
    OBVIOUS
  <2>1. i \in 0 .. Capacity - 1 /\ i < stored
    BY <1>2
  <2> QED
    BY <2>1
<1>7. built.source = s /\ built.count = (IF Overflows(s) THEN 0 ELSE stored)
      /\ built.truncated = Truncates(s) /\ built.overflowed = Overflows(s)
  BY DEF built
<1> HIDE DEF filled, built, stored
<1>8. Shaped'
  BY <1>1, <1>3, <1>4, <1>5 DEF IInv, Shaped
<1>9. index'[v] = built /\ slots'[b] = filled /\ owner'[b] = v
  BY <1>1, <1>3 DEF IInv, Shaped
<1>10. ASSUME NEW w \in Views, w # v
       PROVE  /\ index'[w] = index[w]
              /\ BufferOf[w] = b => owner'[BufferOf[w]] # w
              /\ BufferOf[w] # b => /\ owner'[BufferOf[w]] = owner[BufferOf[w]]
                                    /\ slots'[BufferOf[w]] = slots[BufferOf[w]]
  <2>1. BufferOf[w] \in Buffers
    BY DEF Buffers
  <2> QED
    BY <1>1, <1>9, <1>10, <2>1 DEF IInv, Shaped
<1>11. ASSUME NEW w \in Views, index'[w] # None
       PROVE  AsBuilt(w)' /\ (Intact(w) => Holds(w))'
  <2>1. CASE w = v
    <3>1. AsBuilt(w)'
      BY <1>7, <1>9, <2>1 DEF AsBuilt, stored
    <3>2. Holds(w)'
      <4> SUFFICES ASSUME NEW i \in 0 .. built.count - 1
                   PROVE  filled[i] = Slot(built.source, i + 1)
        BY <1>9, <2>1 DEF Holds
      <4>1. i \in 0 .. stored - 1
        BY <1>2, <1>7
      <4> QED
        BY <1>6, <1>7, <4>1
    <3> QED
      BY <3>1, <3>2
  <2>2. CASE w # v
    <3>1. index'[w] = index[w] /\ AsBuilt(w) /\ (Intact(w) => Holds(w))
      BY <1>10, <1>11, <2>2 DEF IInv
    <3>2. AsBuilt(w)'
      BY <3>1 DEF AsBuilt
    <3>3. CASE BufferOf[w] = b
      BY <1>10, <2>2, <3>2, <3>3 DEF Intact
    <3>4. CASE BufferOf[w] # b
      BY <1>10, <2>2, <3>1, <3>2, <3>4 DEF Intact, Holds
    <3> QED
      BY <3>3, <3>4
  <2> QED
    BY <2>1, <2>2
<1>12. AgreesWithIterator' /\ AbsenceIsReal'
  BY <1>1 DEF AgreesWithIterator, AbsenceIsReal, Answered
<1> QED
  BY <1>1, <1>8, <1>11, <1>12 DEF IInv, Nothing

\* The answer of a view that is intact is the iterator's.
LEMMA LookupKeeps ==
  ASSUME IInv, NEW v \in Views, NEW tag, NEW hint \in Nat, Lookup(v, tag, hint)
  PROVE  IInv'
<1> DEFINE n == index[v].count
           s == index[v].source
           from == From(v, hint)
           slot == Find(v, from, tag)
           found == slot # n
           posLen == slots[BufferOf[v]][slot].posLen
           value == IF found THEN [pos |-> Base(s) + Pos(posLen), len |-> Length(posLen)]
                    ELSE [pos |-> 0, len |-> 0]
           given == [view |-> v, tag |-> tag, hint |-> hint, found |-> found,
                     hintAfter |-> IF found THEN slot ELSE from, value |-> value]
           hit == FindWithHint(s.fields, 1, n + 1, tag, from + 1)
<1>1. index[v] # None /\ answer' = given /\ slots' = slots /\ index' = index /\ owner' = owner
  BY DEF Lookup
<1>2. /\ s \in Sources /\ n \in Nat /\ n <= Stored(s)
      /\ AsBuilt(v) /\ (Intact(v) => Holds(v))
  BY <1>1, ViewFields
<1>3. from \in Nat /\ from <= n
  BY <1>2 DEF From
<1>4. Intact(v) => /\ hit.found = found
                   /\ hit.found => hit.at = slot + 1 /\ slot \in 0 .. n - 1
                   /\ ~hit.found => hit.at = from + 1
  <2> HIDE DEF from, slot, hit
  <2>1. ASSUME Intact(v)
        PROVE  hit.found = (slot # index[v].count)
    BY <1>1, <1>3, <2>1, FindAgrees DEF hit, slot
  <2>2. ASSUME Intact(v)
        PROVE  hit.found => hit.at = slot + 1 /\ slot \in 0 .. index[v].count - 1
    BY <1>1, <1>3, <2>2, FindAgrees DEF hit, slot
  <2>3. ASSUME Intact(v)
        PROVE  ~hit.found => hit.at = from + 1
    BY <1>1, <1>3, <2>3, FindAgrees DEF hit, slot
  <2> QED
    BY <2>1, <2>2, <2>3
<1>5. from = IF hint > n THEN 0 ELSE hint
  BY DEF From
<1>6. /\ given.view = v /\ given.tag = tag /\ given.hint = hint /\ given.found = found
      /\ given.hintAfter = (IF found THEN slot ELSE from) /\ given.value = value
  OBVIOUS
<1> HIDE DEF from, slot, hit, given
<1>7. ASSUME Intact(v), found
      PROVE  /\ slot \in 0 .. n - 1 /\ hit.at = slot + 1
             /\ value = [pos |-> s.fields[hit.at].pos, len |-> s.fields[hit.at].len]
  <2>1. hit.at = slot + 1 /\ slot \in 0 .. n - 1
    BY <1>4, <1>7
  <2>2. slots[BufferOf[v]][slot] = Slot(s, slot + 1)
    BY <1>2, <1>7, <2>1 DEF Holds
  <2>3. slot + 1 \in 1 .. Stored(s)
    BY <1>2, <2>1, StoredResult
  <2>4. /\ Base(s) + Pos(Slot(s, slot + 1).posLen) = s.fields[slot + 1].pos
        /\ Length(Slot(s, slot + 1).posLen) = s.fields[slot + 1].len
    BY <1>2, <2>3, SlotResult
  <2> QED
    BY <1>7, <2>1, <2>2, <2>4
<1> HIDE DEF value
<1>8. Answered' => Intact(v)
  BY <1>1, <1>6 DEF Answered, Intact
<1>9. AgreesWithIterator'
  <2> SUFFICES ASSUME Answered'
               PROVE  /\ given.found = hit.found
                      /\ given.hintAfter = hit.at - 1
                      /\ hit.found =>
                           given.value = [pos |-> s.fields[hit.at].pos, len |-> s.fields[hit.at].len]
    BY <1>1, <1>5, <1>6 DEF AgreesWithIterator, hit
  <2>1. Intact(v)
    BY <1>8
  <2>2. given.found = hit.found
    BY <1>4, <1>6, <2>1
  <2>3. ASSUME hit.found
        PROVE  /\ given.hintAfter = hit.at - 1
               /\ given.value = [pos |-> s.fields[hit.at].pos, len |-> s.fields[hit.at].len]
    <3>1. found
      BY <1>4, <2>1, <2>3
    <3>2. slot \in 0 .. n - 1 /\ hit.at = slot + 1
      BY <1>7, <2>1, <3>1
    <3>3. hit.at - 1 = slot
      BY <1>2, <3>2
    <3> QED
      BY <1>6, <1>7, <2>1, <3>1, <3>3
  <2>4. ASSUME ~hit.found
        PROVE  given.hintAfter = hit.at - 1
    <3>1. ~found /\ hit.at = from + 1
      BY <1>4, <2>1, <2>4
    <3>2. hit.at - 1 = from
      BY <1>3, <3>1
    <3> QED
      BY <1>6, <3>1, <3>2
  <2> QED
    BY <2>2, <2>3, <2>4
<1>10. AbsenceIsReal'
  <2> SUFFICES ASSUME Answered', Authoritative(v), ~given.found,
                      NEW i \in 1 .. Len(s.fields)
               PROVE  s.fields[i].tag # tag
    BY <1>1, <1>6 DEF AbsenceIsReal, Authoritative
  <2>1. ~Truncates(s) /\ ~Overflows(s)
    BY <1>2 DEF Authoritative, AsBuilt
  <2>2. n = Len(s.fields)
    BY <1>2, <2>1, StoredResult DEF AsBuilt
  <2>3. hit.found \in BOOLEAN /\ ~hit.found
    BY <1>4, <1>6, <1>8
  <2>4. \A k \in 1 .. (n + 1) - 1 : s.fields[k].tag # tag
    <3>1. 1 \in Nat /\ n + 1 \in Nat /\ from + 1 \in Nat /\ 1 <= from + 1 /\ from + 1 <= n + 1
      BY <1>2, <1>3
    <3>2. ~hit.found => \A k \in 1 .. (n + 1) - 1 : s.fields[k].tag # tag
      <4> DEFINE end == n + 1
                 start == from + 1
                 fields == s.fields
      <4>1. end \in Nat /\ start \in Nat /\ 1 \in Nat /\ 1 <= start /\ start <= end
        BY <3>1
      <4>2. hit = FindWithHint(fields, 1, end, tag, start)
        BY DEF hit
      <4> HIDE DEF end, start, fields, hit, n, s
      <4>3. ~hit.found => \A k \in 1 .. end - 1 : fields[k].tag # tag
        BY <4>1, <4>2, FindWithHintResult
      <4> QED
        BY <4>3 DEF end, fields
    <3> QED
      BY <2>3, <3>2
  <2>5. i \in 1 .. (n + 1) - 1
    BY <1>2, <2>2
  <2> QED
    BY <2>4, <2>5
<1>11. Shaped'
  BY <1>1 DEF IInv, Shaped
<1>12. \A w \in Views : index'[w] # None => (AsBuilt(w) /\ (Intact(w) => Holds(w)))'
  BY <1>1 DEF IInv, AsBuilt, Intact, Holds
<1>13. answer'.view \in Views /\ index'[answer'.view] # None
  BY <1>1, <1>6
<1> QED
  BY <1>9, <1>10, <1>11, <1>12, <1>13 DEF IInv

LEMMA StepKeeps == IInv /\ [Next]_vars => IInv'
<1> SUFFICES ASSUME IInv, [Next]_vars PROVE IInv'
  OBVIOUS
<1>1. ASSUME NEW v \in Views, NEW s \in Sources, Build(v, s) PROVE IInv'
  BY <1>1, BuildKeeps
<1>2. ASSUME NEW v \in Views, NEW tag \in Tags, NEW hint \in 0 .. Capacity + 1, Lookup(v, tag, hint)
      PROVE  IInv'
  <2>1. hint \in Nat
    BY CapacityAssumption
  <2> QED
    BY <1>2, <2>1, LookupKeeps
<1>3. CASE UNCHANGED vars
  BY <1>3 DEF vars, IInv, Shaped, AsBuilt, Intact, Holds, AgreesWithIterator, AbsenceIsReal,
              Answered, Authoritative
<1> QED
  BY <1>1, <1>2, <1>3 DEF Next

----------------------------------------------------------------------------
(* What a program that looks fields up can rely on *)

\* Of every behaviour, whatever is indexed where: what an index says of its
\* source is so, and what an intact one holds are the source's fields.
THEOREM Invariance == Spec => []IInv
<1>1. Init => IInv
  BY InitEstablishes
<1>2. IInv /\ [Next]_vars => IInv'
  BY StepKeeps
<1> QED
  BY <1>1, <1>2, PTL DEF Spec

\* Slots hold what fits 64 bits, and an index counts no more fields than its
\* buffer has slots or its source has fields.
THEOREM TypeCorrect == Spec => []TypeOK
<1>1. IInv => TypeOK
  <2> SUFFICES ASSUME IInv PROVE TypeOK
    OBVIOUS
  <2>1. ASSUME NEW buffer \in Buffers, NEW i \in 0 .. Capacity - 1
        PROVE  slots[buffer][i].posLen \in 0 .. HalfModulus * HalfModulus - 1
    <3>1. slots[buffer][i] \in SlotType
      BY DEF IInv, Shaped
    <3> QED
      BY <3>1 DEF SlotType, Square
  <2>2. ASSUME NEW v \in Views, index[v] # None
        PROVE  /\ index[v].count \in 0 .. Capacity
               /\ index[v].count <= Len(index[v].source.fields)
               /\ ~(index[v].truncated /\ index[v].overflowed)
    <3>1. /\ index[v].source \in Sources /\ index[v].count \in Nat
          /\ index[v].count <= Stored(index[v].source) /\ AsBuilt(v)
      BY <2>2, ViewFields
    <3>2. /\ Stored(index[v].source) \in Nat /\ Stored(index[v].source) <= Capacity
          /\ Stored(index[v].source) <= Len(index[v].source.fields)
      BY <3>1, StoredResult
    <3>3. Len(index[v].source.fields) \in Nat /\ Capacity \in Nat
      BY <3>1, SourceFields, CapacityAssumption
    <3>4. index[v].count \in 0 .. Capacity /\ index[v].count <= Len(index[v].source.fields)
      BY <3>1, <3>2, <3>3
    <3>5. ~(index[v].truncated /\ index[v].overflowed)
      BY <3>1 DEF AsBuilt, Truncates
    <3> QED
      BY <3>4, <3>5
  <2> QED
    BY <2>1, <2>2 DEF TypeOK
<1> QED
  BY <1>1, Invariance, PTL

\* An intact index answers as find_with_hint does over the fields it holds, and
\* gives the same bytes and the same hint.
THEOREM FindsWhatIteratorFinds == Spec => []AgreesWithIterator
<1>1. IInv => AgreesWithIterator
  BY DEF IInv
<1> QED
  BY <1>1, Invariance, PTL

\* What an index that is neither truncated nor overflowed does not find, the
\* source does not have.
THEOREM AbsentIsAbsent == Spec => []AbsenceIsReal
<1>1. IInv => AbsenceIsReal
  BY DEF IInv
<1> QED
  BY <1>1, Invariance, PTL
=============================================================================
