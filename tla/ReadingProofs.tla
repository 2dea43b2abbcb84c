--------------------------- MODULE ReadingProofs ---------------------------
(***************************************************************************)
(* What the loops over bytes and fields come to, for every input: the      *)
(* searches, the numbers read digit by digit, and what a reader says of a  *)
(* message: where its frame lies, and that it does not change its mind     *)
(* when more bytes arrive.                                                 *)
(***************************************************************************)
EXTENDS Framing, Fields, WellFoundedInduction, TLAPS

(* Searches of bytes *)

\* Every non-empty set of numbers has a least one.
LEMMA LeastNumber ==
  ASSUME NEW T, T \subseteq Nat, T # {}
  PROVE  \E x \in T : \A y \in T : x <= y
<1>1. PICK x \in T : \A y \in T : ~ (<<y, x>> \in OpToRel(<, Nat))
  <2>1. IsWellFoundedOn(OpToRel(<, Nat), Nat)
    BY NatLessThanWellFounded, Zenon
  <2> QED
    BY <2>1, WFMin, Zenon
<1>2. \A y \in T : ~ (y < x)
  BY <1>1, Zenon DEF OpToRel
<1>3. \A y \in T : x <= y
  BY <1>2
<1> QED
  BY <1>3

\* A search ends at the first hit, or at the end of the range.
LEMMA FirstInResult ==
  ASSUME NEW S, NEW i \in Nat, NEW end \in Nat, i <= end
  PROVE  /\ FirstIn(S, i, end) \in i .. end
         /\ FirstIn(S, i, end) < end =>
              /\ FirstIn(S, i, end) \in S
              /\ \A k \in i .. FirstIn(S, i, end) - 1 : k \notin S
         /\ FirstIn(S, i, end) = end => \A k \in i .. end - 1 : k \notin S
<1> DEFINE hits == S \cap (i .. end - 1)
           first == CHOOSE j \in hits : \A k \in hits : j <= k
<1>1. CASE hits = {}
  <2>1. FirstIn(S, i, end) = end
    BY <1>1 DEF FirstIn
  <2>2. \A k \in i .. end - 1 : k \notin S
    BY <1>1
  <2> QED
    BY <2>1, <2>2
<1>2. CASE hits # {}
  <2>1. hits \subseteq Nat
    OBVIOUS
  <2>2. \E j \in hits : \A k \in hits : j <= k
    <3> HIDE DEF hits
    <3> QED
      BY <1>2, <2>1, LeastNumber
  <2>3. first \in hits /\ \A k \in hits : first <= k
    <3> HIDE DEF hits
    <3> QED
      BY <2>2
  <2>4. FirstIn(S, i, end) = first
    BY <1>2 DEF FirstIn
  <2> HIDE DEF first
  <2>5. first \in i .. end - 1 /\ first \in S
    BY <2>3
  <2>6. \A k \in i .. first - 1 : k \notin S
    BY <2>3, <2>5
  <2> QED
    BY <2>4, <2>5, <2>6
<1> QED
  BY <1>1, <1>2

LEMMA FirstInRange ==
  ASSUME NEW S, NEW i \in Nat, NEW end \in Nat, i <= end
  PROVE  FirstIn(S, i, end) \in i .. end
  BY FirstInResult

\* A range may begin beyond its end.
LEMMA FirstInAny ==
  ASSUME NEW S, NEW i \in Nat, NEW end \in Nat
  PROVE  /\ FirstIn(S, i, end) \in 0 .. end
         /\ FirstIn(S, i, end) < end => i <= FirstIn(S, i, end) /\ FirstIn(S, i, end) \in S
<1>1. CASE i <= end
  <2>1. FirstIn(S, i, end) \in i .. end
    BY <1>1, FirstInResult
  <2>2. FirstIn(S, i, end) < end => FirstIn(S, i, end) \in S
    BY <1>1, FirstInResult
  <2> QED
    BY <2>1, <2>2
<1>2. CASE end < i
  <2>1. S \cap (i .. end - 1) = {}
    BY <1>2
  <2>2. FirstIn(S, i, end) = end
    BY <2>1 DEF FirstIn
  <2> QED
    BY <2>2
<1> QED
  BY <1>1, <1>2

LEMMA FirstInMiss ==
  ASSUME NEW S, NEW i \in Nat, NEW end \in Nat, i <= end, FirstIn(S, i, end) = end
  PROVE  \A k \in i .. end - 1 : k \notin S
  BY FirstInResult

\* A hit is found whatever lies behind it.
LEMMA FirstInUnique ==
  ASSUME NEW S, NEW i \in Nat, NEW end \in Nat, NEW f \in i .. end - 1,
         f \in S, \A k \in i .. f - 1 : k \notin S
  PROVE  FirstIn(S, i, end) = f
<1>1. i <= end
  OBVIOUS
<1> DEFINE first == FirstIn(S, i, end)
<1>2. /\ first \in i .. end
      /\ first < end => first \in S /\ \A k \in i .. first - 1 : k \notin S
      /\ first = end => \A k \in i .. end - 1 : k \notin S
  BY <1>1, FirstInResult
<1> HIDE DEF first
<1>3. first < end
  BY <1>2
<1>4. ~(first < f)
  BY <1>2, <1>3
<1>5. ~(f < first)
  BY <1>2, <1>3
<1>6. first = f
  BY <1>2, <1>4, <1>5
<1> QED
  BY <1>6 DEF first

\* Two sets that agree up to the first hit in one give the same hit.
LEMMA FirstInStable ==
  ASSUME NEW S, NEW T, NEW i \in Nat, NEW end \in Nat, NEW later \in Nat,
         i <= end, end <= later, FirstIn(S, i, end) < end,
         \A k \in i .. end - 1 : k \in S <=> k \in T
  PROVE  FirstIn(T, i, later) = FirstIn(S, i, end)
<1> DEFINE first == FirstIn(S, i, end)
<1>1. first \in i .. end - 1 /\ first \in S /\ \A k \in i .. first - 1 : k \notin S
  BY FirstInResult
<1> HIDE DEF first
<1>2. first \in i .. later - 1 /\ first \in T /\ \A k \in i .. first - 1 : k \notin T
  BY <1>1
<1>3. FirstIn(T, i, later) = first
  BY <1>2, FirstInUnique
<1> QED
  BY <1>3 DEF first

----------------------------------------------------------------------------
(* Searches of fields *)

\* A search ends at the first field of the tag, or at the end of the range.
LEMMA FindIfResult ==
  ASSUME NEW fields, NEW from \in Nat, NEW to \in Nat, from <= to, NEW tag
  PROVE  /\ FindIf(fields, from, to, tag) \in from .. to
         /\ FindIf(fields, from, to, tag) < to =>
              /\ fields[FindIf(fields, from, to, tag)].tag = tag
              /\ \A k \in from .. FindIf(fields, from, to, tag) - 1 : fields[k].tag # tag
         /\ FindIf(fields, from, to, tag) = to =>
              \A k \in from .. to - 1 : fields[k].tag # tag
<1> DEFINE S == {i \in from .. to - 1 : fields[i].tag = tag}
           first == FirstIn(S, from, to)
<1>1. FindIf(fields, from, to, tag) = first
  BY DEF FindIf
<1>2. /\ first \in from .. to
      /\ first < to => first \in S /\ \A k \in from .. first - 1 : k \notin S
      /\ first = to => \A k \in from .. to - 1 : k \notin S
  <2> HIDE DEF S
  <2> QED
    BY FirstInResult
<1> HIDE DEF first
<1> QED
  BY <1>1, <1>2

\* find_with_hint: the first hit from the hint on, else the first before it;
\* without one the hint is what it was, and there is no field of the tag.
LEMMA FindWithHintResult ==
  ASSUME NEW fields, NEW begin \in Nat, NEW hint \in Nat, NEW end \in Nat,
         begin <= hint, hint <= end, NEW tag,
         NEW hit, hit = FindWithHint(fields, begin, end, tag, hint)
  PROVE  /\ hit.found \in BOOLEAN
         /\ hit.found => hit.at \in begin .. end - 1 /\ fields[hit.at].tag = tag
         /\ ~hit.found => hit.at = hint /\ \A k \in begin .. end - 1 : fields[k].tag # tag
<1> DEFINE behind == FindIf(fields, hint, end, tag)
           before == FindIf(fields, begin, hint, tag)
<1>1. /\ behind \in hint .. end
      /\ behind < end => fields[behind].tag = tag
      /\ behind = end => \A k \in hint .. end - 1 : fields[k].tag # tag
  <2>1. behind \in hint .. end
    BY FindIfResult
  <2>2. behind < end => fields[behind].tag = tag
    BY FindIfResult
  <2>3. behind = end => \A k \in hint .. end - 1 : fields[k].tag # tag
    BY FindIfResult
  <2> QED
    BY <2>1, <2>2, <2>3
<1>2. /\ before \in begin .. hint
      /\ before < hint => fields[before].tag = tag
      /\ before = hint => \A k \in begin .. hint - 1 : fields[k].tag # tag
  <2>1. before \in begin .. hint
    BY FindIfResult
  <2>2. before < hint => fields[before].tag = tag
    BY FindIfResult
  <2>3. before = hint => \A k \in begin .. hint - 1 : fields[k].tag # tag
    BY FindIfResult
  <2> QED
    BY <2>1, <2>2, <2>3
<1>3. hit = IF behind # end THEN [found |-> TRUE, at |-> behind]
            ELSE IF before # hint THEN [found |-> TRUE, at |-> before]
            ELSE [found |-> FALSE, at |-> hint]
  BY DEF FindWithHint
<1> HIDE DEF behind, before
<1>4. CASE behind # end
  <2>1. hit = [found |-> TRUE, at |-> behind]
    BY <1>3, <1>4
  <2> QED
    BY <1>1, <1>4, <2>1
<1>5. CASE behind = end /\ before # hint
  <2>1. hit = [found |-> TRUE, at |-> before]
    BY <1>3, <1>5
  <2> QED
    BY <1>2, <1>5, <2>1
<1>6. CASE behind = end /\ before = hint
  <2>1. hit = [found |-> FALSE, at |-> hint]
    BY <1>3, <1>6
  <2>2. \A k \in begin .. end - 1 : fields[k].tag # tag
    BY <1>1, <1>2, <1>6
  <2> QED
    BY <2>1, <2>2
<1> QED
  BY <1>4, <1>5, <1>6

----------------------------------------------------------------------------
(* Numbers *)

\* The digits from i on, one by one, as a function of where they stop.
Reads(val, s, i, j, modulus) ==
  val = [k \in i .. j |->
          IF k = i THEN 0 ELSE (val[k - 1] * 10 + (Char(At(s, k - 1)) - Zero)) % modulus]

\* There is a function of that kind: the recursion is well founded.
LEMMA ReadsExists ==
  ASSUME NEW s, NEW i \in Nat, NEW modulus
  PROVE  \A j \in Nat : i <= j => \E val : Reads(val, s, i, j, modulus)
<1> DEFINE T == {j \in Nat : i <= j /\ ~ \E val : Reads(val, s, i, j, modulus)}
<1> SUFFICES ASSUME T # {} PROVE FALSE
  OBVIOUS
<1>1. T \subseteq Nat
  OBVIOUS
<1>2. PICK x \in T : \A y \in T : x <= y
  <2> HIDE DEF T
  <2> QED
    BY <1>1, LeastNumber
<1>3. CASE x = i
  <2>1. Reads([k \in i .. x |-> 0], s, i, x, modulus)
    BY <1>3 DEF Reads
  <2> QED
    BY <2>1
<1>4. CASE x # i
  <2>1. x \in Nat /\ x - 1 \in Nat /\ i <= x - 1
    BY <1>4
  <2>2. x - 1 \notin T
    BY <1>2, <2>1
  <2>3. PICK g : Reads(g, s, i, x - 1, modulus)
    BY <2>1, <2>2
  <2> DEFINE next == (g[x - 1] * 10 + (Char(At(s, x - 1)) - Zero)) % modulus
             h == [k \in i .. x |-> IF k = x THEN next ELSE g[k]]
  <2>4. ASSUME NEW k \in i .. x
        PROVE  h[k] = IF k = i THEN 0 ELSE (h[k - 1] * 10 + (Char(At(s, k - 1)) - Zero)) % modulus
    <3>1. CASE k = x
      <4>1. h[k - 1] = g[x - 1]
        BY <2>1, <3>1
      <4> QED
        BY <1>4, <3>1, <4>1
    <3>2. CASE k # x
      <4>1. k \in i .. x - 1 /\ h[k] = g[k]
        BY <2>1, <3>2
      <4>2. k # i => h[k - 1] = g[k - 1]
        BY <2>1, <4>1
      <4>3. g[k] = IF k = i THEN 0 ELSE (g[k - 1] * 10 + (Char(At(s, k - 1)) - Zero)) % modulus
        BY <2>3, <4>1 DEF Reads
      <4> HIDE DEF h
      <4> QED
        BY <4>1, <4>2, <4>3
    <3> QED
      BY <3>1, <3>2
  <2>5. h = [k \in i .. x |-> h[k]]
    OBVIOUS
  <2>6. Reads(h, s, i, x, modulus)
    <3> HIDE DEF h
    <3> QED
      BY <2>4, <2>5 DEF Reads
  <2> QED
    BY <2>6
<1> QED
  BY <1>3, <1>4

\* Where two of them stop says nothing about what both have read.
LEMMA ReadsAgree ==
  ASSUME NEW s, NEW i \in Nat, NEW modulus, NEW j \in Nat, NEW later \in Nat, j <= later,
         NEW f, Reads(f, s, i, j, modulus), NEW g, Reads(g, s, i, later, modulus)
  PROVE  \A k \in i .. j : f[k] = g[k]
<1> DEFINE T == {k \in i .. j : f[k] # g[k]}
<1> SUFFICES ASSUME T # {} PROVE FALSE
  OBVIOUS
<1>1. T \subseteq Nat
  OBVIOUS
<1>2. PICK x \in T : \A y \in T : x <= y
  <2> HIDE DEF T
  <2> QED
    BY <1>1, LeastNumber
<1>3. x \in i .. j /\ x \in i .. later /\ f[x] # g[x]
  OBVIOUS
<1>4. x # i => f[x - 1] = g[x - 1]
  BY <1>2, <1>3
<1>5. f[x] = IF x = i THEN 0 ELSE (f[x - 1] * 10 + (Char(At(s, x - 1)) - Zero)) % modulus
  BY <1>3 DEF Reads
<1>6. g[x] = IF x = i THEN 0 ELSE (g[x - 1] * 10 + (Char(At(s, x - 1)) - Zero)) % modulus
  BY <1>3 DEF Reads
<1> HIDE DEF T
<1> QED
  BY <1>3, <1>4, <1>5, <1>6

LEMMA UnsignedReads ==
  ASSUME NEW s, NEW i \in Nat, NEW j \in Nat, i <= j, NEW modulus
  PROVE  \E val : Reads(val, s, i, j, modulus) /\ Unsigned(s, i, j, modulus) = val[j]
<1> DEFINE val == CHOOSE v : Reads(v, s, i, j, modulus)
<1>1. Reads(val, s, i, j, modulus)
  BY ReadsExists
<1>2. Unsigned(s, i, j, modulus) = val[j]
  BY DEF Unsigned, Reads
<1> HIDE DEF val
<1> QED
  BY <1>1, <1>2

\* val = 0 before the first digit, val * 10 + (c - '0') behind each.
THEOREM UnsignedSteps ==
  ASSUME NEW s, NEW i \in Nat, NEW j \in Nat, i <= j, NEW modulus
  PROVE  /\ Unsigned(s, i, i, modulus) = 0
         /\ Unsigned(s, i, j + 1, modulus)
              = (Unsigned(s, i, j, modulus) * 10 + (Char(At(s, j)) - Zero)) % modulus
<1>1. PICK f : Reads(f, s, i, i, modulus) /\ Unsigned(s, i, i, modulus) = f[i]
  BY UnsignedReads
<1>2. PICK g : Reads(g, s, i, j, modulus) /\ Unsigned(s, i, j, modulus) = g[j]
  BY UnsignedReads
<1>3. PICK h : Reads(h, s, i, j + 1, modulus) /\ Unsigned(s, i, j + 1, modulus) = h[j + 1]
  BY UnsignedReads
<1>4. f[i] = 0
  BY <1>1 DEF Reads
<1>5. g[j] = h[j]
  BY <1>2, <1>3, ReadsAgree
<1>6. h[j + 1] = (h[j] * 10 + (Char(At(s, j)) - Zero)) % modulus
  BY <1>3 DEF Reads
<1> QED
  BY <1>1, <1>2, <1>3, <1>4, <1>5, <1>6

\* A digit is the same number as a char.
THEOREM UnsignedDigits ==
  ASSUME NEW s, NEW i \in Nat, NEW j \in Nat, i <= j, NEW modulus, At(s, j) \in Digits
  PROVE  /\ Unsigned(s, i, i, modulus) = 0
         /\ Unsigned(s, i, j + 1, modulus)
              = (Unsigned(s, i, j, modulus) * 10 + (At(s, j) - Zero)) % modulus
<1>1. Char(At(s, j)) = At(s, j)
  BY DEF Digits, Char
<1> QED
  BY <1>1, UnsignedSteps

LEMMA AtType ==
  ASSUME NEW s \in Seq(Byte), NEW i \in Nat
  PROVE  At(s, i) \in Int
<1>1. \A n \in 1 .. Len(s) : s[n] \in Byte
  OBVIOUS
<1>2. \A c \in Byte \cup {Outside} : c \in Int
  BY DEF Byte, Outside
<1> QED
  BY <1>1, <1>2 DEF At

\* Whatever the bytes are, the number is one of its type.
THEOREM UnsignedType ==
  ASSUME NEW s \in Seq(Byte), NEW modulus \in Nat \ {0}, NEW i \in Nat, NEW j \in Nat, i <= j
  PROVE  Unsigned(s, i, j, modulus) \in 0 .. modulus - 1
<1> DEFINE Value(k) == Unsigned(s, i, k, modulus)
           T == {k \in Nat : i <= k /\ Value(k) \notin 0 .. modulus - 1}
<1> SUFFICES ASSUME T # {} PROVE FALSE
  OBVIOUS
<1>1. T \subseteq Nat
  OBVIOUS
<1>2. PICK x \in T : \A y \in T : x <= y
  <2> HIDE DEF T
  <2> QED
    BY <1>1, LeastNumber
<1>3. x \in Nat /\ i <= x /\ Value(x) \notin 0 .. modulus - 1
  OBVIOUS
<1>4. x # i
  <2>1. Value(i) = 0
    BY UnsignedSteps
  <2> HIDE DEF Value
  <2> QED
    BY <1>3, <2>1
<1>5. x - 1 \in Nat /\ i <= x - 1 /\ Value(x - 1) \in 0 .. modulus - 1
  <2>1. x - 1 \in Nat /\ i <= x - 1 /\ x - 1 \notin T
    BY <1>2, <1>3, <1>4
  <2> HIDE DEF Value
  <2> QED
    BY <2>1
<1>6. Value(x) = (Value(x - 1) * 10 + (Char(At(s, x - 1)) - Zero)) % modulus
  <2>1. Value((x - 1) + 1) = (Value(x - 1) * 10 + (Char(At(s, x - 1)) - Zero)) % modulus
    BY <1>5, UnsignedSteps
  <2>2. (x - 1) + 1 = x
    BY <1>3
  <2> HIDE DEF Value
  <2> QED
    BY <2>1, <2>2
<1>7. Char(At(s, x - 1)) \in Int
  BY <1>5, AtType DEF Char
<1> DEFINE sum == Value(x - 1) * 10 + (Char(At(s, x - 1)) - Zero)
<1>8. sum \in Int
  <2> HIDE DEF Value
  <2> QED
    BY <1>5, <1>7 DEF Zero
<1>9. sum % modulus \in 0 .. modulus - 1
  <2> HIDE DEF sum
  <2> QED
    BY <1>8
<1> HIDE DEF T, Value
<1> QED
  BY <1>3, <1>6, <1>9

----------------------------------------------------------------------------
(* The three parts of a verdict *)

Verdicts(v, p, e) ==
  \/ v = Incomplete
  \/ v = Invalid
  \/ /\ IsFrame(v)
     /\ v.end \in p + 1 .. e
     /\ v.body \in p + 1 .. e /\ v.checksum \in Nat /\ v.end = v.checksum + 7
     /\ v.typeEnd \in v.body + 3 .. v.checksum - 1

LEMMA BodyVerdictResult ==
  ASSUME NEW s, NEW i, NEW stop \in Nat, NEW e \in Nat
  PROVE  Verdicts(BodyVerdict(s, i, stop, e), stop, e)
<1> DEFINE b == stop + 1
           length == Unsigned(s, i, stop, SizeModulus)
           checksum == b + length
           Closed[c \in Nat] == IsClosed(s, c) /\ FindSOH(s, b + 3, c) < c
           v == BodyVerdict(s, i, stop, e)
<1>1. v = IF b + 3 >= e THEN Incomplete
          ELSE IF At(s, b) # 51 \/ At(s, b + 1) # 53 THEN Invalid
          ELSE IF ~HasArrived(length, checksum, b, e) THEN Incomplete
          ELSE IF Closed[checksum] THEN Frame(b, FindSOH(s, b + 3, checksum), checksum)
          ELSE Invalid
  BY DEF BodyVerdict
<1> HIDE DEF length, Closed, v
<1> DEFINE typeEnd == FindSOH(s, b + 3, checksum)
<1>2. CASE v = Frame(b, typeEnd, checksum) /\ HasArrived(length, checksum, b, e) /\ Closed[checksum]
  <2>1. length \in 0 .. e - b /\ checksum + 7 <= e
    BY <1>2 DEF HasArrived
  <2>2. checksum \in Nat /\ b \in Nat /\ b <= e
    BY <2>1
  <2>3. typeEnd < checksum
    BY <1>2, <2>2 DEF Closed
  <2>4. typeEnd \in b + 3 .. checksum - 1
    <3>1. CASE b + 3 >= checksum
      BY <2>2, <2>3, <3>1 DEF FindSOH
    <3>2. CASE ~(b + 3 >= checksum)
      <4> DEFINE S == {j \in b + 3 .. checksum - 1 : At(s, j) = SOH}
      <4> HIDE DEF S, checksum, b
      <4>1. b + 3 \in Nat /\ b + 3 <= checksum
        BY <2>2, <3>2
      <4>2. FirstIn(S, b + 3, checksum) \in b + 3 .. checksum
        BY <2>2, <4>1, FirstInRange
      <4>3. typeEnd = FirstIn(S, b + 3, checksum)
        BY <3>2 DEF FindSOH, S
      <4> QED
        BY <2>2, <2>3, <4>1, <4>2, <4>3
    <3> QED
      BY <3>1, <3>2
  <2> HIDE DEF typeEnd, checksum
  <2>5. /\ v.complete /\ v.valid /\ v.end = checksum + 7
        /\ v.body = b /\ v.typeEnd = typeEnd /\ v.checksum = checksum
    BY <1>2 DEF Frame
  <2>6. v.end \in stop + 1 .. e
    BY <2>1, <2>2, <2>5 DEF checksum
  <2>7. v.body \in stop + 1 .. e /\ v.checksum \in Nat /\ v.end = v.checksum + 7
    BY <2>2, <2>5
  <2>8. v.typeEnd \in v.body + 3 .. v.checksum - 1
    BY <2>4, <2>5
  <2> QED
    BY <2>5, <2>6, <2>7, <2>8 DEF Verdicts, IsFrame, v
<1> QED
  BY <1>1, <1>2 DEF Verdicts, v

LEMMA BodyVerdictStable ==
  ASSUME NEW s, NEW i, NEW stop \in Nat, NEW e \in Nat, NEW later \in Nat, e <= later,
         BodyVerdict(s, i, stop, e).complete
  PROVE  BodyVerdict(s, i, stop, later) = BodyVerdict(s, i, stop, e)
<1> DEFINE b == stop + 1
           length == Unsigned(s, i, stop, SizeModulus)
           checksum == b + length
           Closed[c \in Nat] == IsClosed(s, c) /\ FindSOH(s, b + 3, c) < c
           Answer(end) ==
             IF b + 3 >= end THEN Incomplete
             ELSE IF At(s, b) # 51 \/ At(s, b + 1) # 53 THEN Invalid
             ELSE IF ~HasArrived(length, checksum, b, end) THEN Incomplete
             ELSE IF Closed[checksum] THEN Frame(b, FindSOH(s, b + 3, checksum), checksum)
             ELSE Invalid
<1>1. BodyVerdict(s, i, stop, e) = Answer(e) /\ BodyVerdict(s, i, stop, later) = Answer(later)
  BY DEF BodyVerdict
<1>2. ~Incomplete.complete
  BY DEF Incomplete
<1> HIDE DEF length, Closed
<1>3. b + 3 < e
  BY <1>1, <1>2
<1>4. b + 3 < later
  BY <1>3
<1>5. HasArrived(length, checksum, b, e) => HasArrived(length, checksum, b, later)
  BY DEF HasArrived
<1>6. (At(s, b) = 51 /\ At(s, b + 1) = 53) => HasArrived(length, checksum, b, e)
  BY <1>1, <1>2, <1>3
<1> QED
  BY <1>1, <1>3, <1>4, <1>5, <1>6

LEMMA LengthVerdictResult ==
  ASSUME NEW s, NEW h \in Nat, NEW e \in Nat
  PROVE  Verdicts(LengthVerdict(s, h, e), h, e)
<1> DEFINE S == {j \in h + 3 .. e - 1 : At(s, j) \notin Digits}
           stop == FirstIn(S, h + 3, e)
           Stopped[n \in Nat] ==
             IF n >= e THEN Incomplete
             ELSE IF At(s, n) # SOH THEN Invalid
             ELSE BodyVerdict(s, h + 3, n, e)
<1>1. LengthVerdict(s, h, e) =
        IF h + 1 >= e THEN Incomplete
        ELSE IF At(s, h + 1) # 57 THEN Invalid
        ELSE Stopped[stop]
  BY DEF LengthVerdict
<1>2. CASE h + 1 < e
  <2>1. stop \in Nat /\ (stop < e => h < stop)
    <3>1. CASE h + 3 <= e
      <4>1. stop \in h + 3 .. e
        BY <3>1, FirstInRange
      <4> QED
        BY <4>1
    <3>2. CASE e < h + 3
      <4>1. stop = e
        BY <3>2 DEF FirstIn
      <4> QED
        BY <4>1
    <3> QED
      BY <3>1, <3>2
  <2> HIDE DEF stop
  <2>2. CASE stop < e /\ At(s, stop) = SOH
    <3>1. Stopped[stop] = BodyVerdict(s, h + 3, stop, e)
      BY <2>1, <2>2
    <3>2. Verdicts(BodyVerdict(s, h + 3, stop, e), stop, e)
      BY <2>1, BodyVerdictResult
    <3>3. Verdicts(BodyVerdict(s, h + 3, stop, e), h, e)
      BY <2>1, <2>2, <3>2 DEF Verdicts
    <3> QED
      BY <1>1, <1>2, <3>1, <3>3 DEF Verdicts
  <2>3. CASE ~(stop < e /\ At(s, stop) = SOH)
    <3>1. Stopped[stop] = Incomplete \/ Stopped[stop] = Invalid
      BY <2>1, <2>3
    <3> HIDE DEF Stopped
    <3> QED
      BY <1>1, <1>2, <3>1 DEF Verdicts
  <2> QED
    BY <2>2, <2>3
<1>3. CASE h + 1 >= e
  BY <1>1, <1>3 DEF Verdicts
<1> QED
  BY <1>2, <1>3

LEMMA LengthVerdictStable ==
  ASSUME NEW s, NEW h \in Nat, NEW e \in Nat, NEW later \in Nat, e <= later,
         LengthVerdict(s, h, e).complete
  PROVE  LengthVerdict(s, h, later) = LengthVerdict(s, h, e)
<1> DEFINE S(end) == {j \in h + 3 .. end - 1 : At(s, j) \notin Digits}
           stop(end) == FirstIn(S(end), h + 3, end)
           Answer(n, end) ==
             IF n >= end THEN Incomplete
             ELSE IF At(s, n) # SOH THEN Invalid
             ELSE BodyVerdict(s, h + 3, n, end)
           Stopped(end) == [n \in Nat |-> Answer(n, end)]
           Whole(end) ==
             IF h + 1 >= end THEN Incomplete
             ELSE IF At(s, h + 1) # 57 THEN Invalid
             ELSE Stopped(end)[stop(end)]
<1>1. LengthVerdict(s, h, e) = Whole(e) /\ LengthVerdict(s, h, later) = Whole(later)
  BY DEF LengthVerdict
<1>2. ~Incomplete.complete
  BY DEF Incomplete
<1>3. h + 1 < e /\ h + 1 < later
  <2> HIDE DEF Stopped
  <2> QED
    BY <1>1, <1>2
<1>4. CASE At(s, h + 1) # 57
  <2> HIDE DEF Stopped
  <2> QED
    BY <1>1, <1>3, <1>4
<1>5. CASE At(s, h + 1) = 57
  <2>1. LengthVerdict(s, h, e) = Stopped(e)[stop(e)] /\ LengthVerdict(s, h, later) = Stopped(later)[stop(later)]
    <3> HIDE DEF Stopped
    <3> QED
      BY <1>1, <1>3, <1>5
  <2>2. h + 3 <= e => stop(e) \in h + 3 .. e
    <3> HIDE DEF S
    <3> QED
      BY FirstInRange
  <2>3. e < h + 3 => stop(e) = e
    BY DEF FirstIn
  <2>4. stop(e) \in Nat
    <3> HIDE DEF stop
    <3> QED
      BY <2>2, <2>3
  <2>5. LengthVerdict(s, h, e) = Answer(stop(e), e)
    <3> HIDE DEF stop, Answer
    <3> QED
      BY <2>1, <2>4
  <2>6. stop(e) < e
    <3> HIDE DEF stop
    <3> QED
      BY <1>2, <2>4, <2>5
  <2>7. stop(later) = stop(e)
    <3>1. h + 3 <= e
      <4> HIDE DEF stop
      <4> QED
        BY <2>3, <2>6
    <3>2. \A k \in h + 3 .. e - 1 : k \in S(e) <=> k \in S(later)
      OBVIOUS
    <3> HIDE DEF S
    <3> QED
      BY <2>6, <3>1, <3>2, FirstInStable
  <2>8. LengthVerdict(s, h, later) = Answer(stop(e), later)
    <3> HIDE DEF stop, Answer
    <3> QED
      BY <2>1, <2>4, <2>7
  <2> HIDE DEF stop
  <2>9. CASE At(s, stop(e)) # SOH
    BY <2>4, <2>5, <2>6, <2>8, <2>9
  <2>10. CASE At(s, stop(e)) = SOH
    <3>1. LengthVerdict(s, h, e) = BodyVerdict(s, h + 3, stop(e), e)
      BY <2>5, <2>6, <2>4, <2>10
    <3>2. LengthVerdict(s, h, later) = BodyVerdict(s, h + 3, stop(e), later)
      BY <2>8, <2>6, <2>4, <2>10
    <3> QED
      BY <2>4, <3>1, <3>2, BodyVerdictStable
  <2> QED
    BY <2>9, <2>10
<1> QED
  BY <1>4, <1>5

----------------------------------------------------------------------------
(* Verdicts *)

\* A message a reader accepts lies between its start and the end of what has
\* arrived; one it rejects began at least ten bytes before.
THEOREM VerdictResult ==
  ASSUME NEW s, NEW p \in Nat, NEW e \in Nat
  PROVE  /\ Verdicts(Verdict(s, p, e), p, e)
         /\ Verdict(s, p, e) # Incomplete => p + 9 < e
<1> DEFINE ends == {j \in p + 9 .. p + 12 : j < e /\ At(s, j) = SOH}
           h == FirstIn(ends, p + 9, e)
           From[n \in Nat] == LengthVerdict(s, n, e)
<1>1. Verdict(s, p, e) =
        IF ends # {} THEN From[h]
        ELSE IF TooLong(p, e) THEN Invalid ELSE Incomplete
  BY DEF Verdict, PrefixEnds
<1>2. CASE ends # {}
  <2>1. p + 9 < e
    BY <1>2
  <2>2. h \in p + 9 .. e
    <3> HIDE DEF ends
    <3> QED
      BY <2>1, FirstInRange
  <2> HIDE DEF ends, h
  <2>3. Verdict(s, p, e) = LengthVerdict(s, h, e)
    BY <1>1, <1>2, <2>2
  <2>4. Verdicts(LengthVerdict(s, h, e), h, e)
    BY <2>2, LengthVerdictResult
  <2> QED
    BY <2>1, <2>2, <2>3, <2>4 DEF Verdicts
<1>3. CASE ends = {}
  <2> HIDE DEF ends, From
  <2> QED
    BY <1>1, <1>3 DEF Verdicts, TooLong
<1> QED
  BY <1>2, <1>3

\* A complete verdict, valid or not, stands whatever arrives afterwards.
THEOREM VerdictStable ==
  ASSUME NEW s, NEW p \in Nat, NEW e \in Nat, NEW later \in Nat, e <= later,
         Verdict(s, p, e).complete
  PROVE  Verdict(s, p, later) = Verdict(s, p, e)
<1> DEFINE ends(end) == {j \in p + 9 .. p + 12 : j < end /\ At(s, j) = SOH}
           h(end) == FirstIn(ends(end), p + 9, end)
           From(end) == [n \in Nat |-> LengthVerdict(s, n, end)]
           Whole(end) ==
             IF ends(end) # {} THEN From(end)[h(end)]
             ELSE IF TooLong(p, end) THEN Invalid ELSE Incomplete
<1>1. Verdict(s, p, e) = Whole(e) /\ Verdict(s, p, later) = Whole(later)
  BY DEF Verdict, PrefixEnds
<1>2. ~Incomplete.complete
  BY DEF Incomplete
<1>3. CASE ends(e) # {}
  <2>1. ends(later) # {} /\ p + 9 < e
    BY <1>3
  <2>2. h(e) \in p + 9 .. e
    <3> HIDE DEF ends
    <3> QED
      BY <2>1, FirstInRange
  <2>3. h(e) < e
    <3>1. h(e) = e => \A k \in p + 9 .. e - 1 : k \notin ends(e)
      <4> HIDE DEF ends
      <4> QED
        BY <2>1, FirstInMiss
    <3>2. \E k \in p + 9 .. e - 1 : k \in ends(e)
      BY <1>3
    <3> HIDE DEF ends, h
    <3> QED
      BY <2>2, <3>1, <3>2
  <2>4. h(later) = h(e)
    <3>1. \A k \in p + 9 .. e - 1 : k \in ends(e) <=> k \in ends(later)
      OBVIOUS
    <3> HIDE DEF ends
    <3> QED
      BY <2>1, <2>3, <3>1, FirstInStable
  <2> HIDE DEF ends, h
  <2>5. Verdict(s, p, e) = LengthVerdict(s, h(e), e)
    BY <1>1, <1>3, <2>2
  <2>6. Verdict(s, p, later) = LengthVerdict(s, h(e), later)
    BY <1>1, <2>1, <2>2, <2>4
  <2> QED
    BY <2>2, <2>5, <2>6, LengthVerdictStable
<1>4. CASE ends(e) = {}
  <2>1. TooLong(p, e)
    <3> HIDE DEF ends, From
    <3> QED
      BY <1>1, <1>2, <1>4
  <2>2. TooLong(p, later) /\ ends(later) = {}
    BY <1>4, <2>1 DEF TooLong
  <2> HIDE DEF ends, From
  <2> QED
    BY <1>1, <1>4, <2>1, <2>2
<1> QED
  BY <1>3, <1>4

\* The search for the next message moves forward and stays in what has arrived.
LEMMA ResyncResult ==
  ASSUME NEW s, NEW p \in Nat, NEW e \in Nat, p < e
  PROVE  Resync(s, p, e) \in p + 1 .. e
<1> DEFINE S == {j \in p + 1 .. e - 11 : StartsFIX(s, j)}
           stop == Larger(p + 1, e - 10)
<1>1. CASE e - p < 10
  BY <1>1 DEF Resync
<1>2. CASE e - p >= 10
  <2>1. stop \in p + 1 .. e
    BY <1>2 DEF Larger
  <2>2. Resync(s, p, e) = FirstIn(S, p + 1, stop)
    BY <1>2 DEF Resync
  <2> HIDE DEF S, stop
  <2>3. FirstIn(S, p + 1, stop) \in p + 1 .. stop
    BY <2>1, FirstInRange
  <2> QED
    BY <2>1, <2>2, <2>3
<1> QED
  BY <1>1, <1>2
=============================================================================
