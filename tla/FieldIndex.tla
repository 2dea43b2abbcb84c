----------------------------- MODULE FieldIndex -----------------------------
(***************************************************************************)
(* build_field_index and basic_indexed_message: indices of messages and of *)
(* group entries in buffers of the caller, which the indices share when    *)
(* the caller builds one after the other into the same buffer.             *)
(***************************************************************************)
EXTENDS Fields

CONSTANTS
  Sources,      \* what is indexed: messages and group entries, see below
  Views,        \* the indexed messages a program holds
  BufferOf,     \* the field_index_buffer each of them is built into
  Capacity,     \* the N of these buffers
  Tags,         \* the tags that are looked up
  HalfModulus,  \* 2^32 in the code: half a pos_len
  Unset         \* the content of a slot never written

\* A source is a message or, if isEntry, a group entry: its fields, each with
\* its tag, the offset from the message's start where it and its value begin,
\* and the length of its value.  Values lie in the message, one behind the
\* other, but a malformed data field may end behind the trailer's start.
IsSource(s) ==
  /\ s.isEntry \in BOOLEAN /\ s.size \in Nat /\ Len(s.fields) \in Nat
  /\ \A i \in 1 .. Len(s.fields) :
       s.fields[i].at \in Nat /\ s.fields[i].pos \in Nat /\ s.fields[i].len \in Nat
  /\ \A i \in 1 .. Len(s.fields) :
       /\ s.fields[i].at <= s.fields[i].pos
       /\ s.fields[i].pos + s.fields[i].len <= s.size
       /\ i > 1 => s.fields[i - 1].pos + s.fields[i - 1].len <= s.fields[i].at

ASSUME SourcesAssumption == \A s \in Sources : IsSource(s)
ASSUME CapacityAssumption == Capacity \in Nat \ {0} /\ HalfModulus \in Nat \ {0}

Buffers == {BufferOf[v] : v \in Views}
None    == [source |-> Unset]
Nothing == [view |-> Unset]

VARIABLES
  slots,    \* tags and pos_len of each buffer, from slot 0 on
  index,    \* the indexed message of each view
  owner,    \* history: the view each buffer was last built for
  answer    \* history: the last lookup and its result

vars == <<slots, index, owner, answer>>

----------------------------------------------------------------------------
(* pos_len *)

\* (uint64)pos << 32 | (uint32)len, and its halves.
Pack(pos, len) == ((pos * HalfModulus) % (HalfModulus * HalfModulus)) + (len % HalfModulus)
Pos(posLen)    == posLen \div HalfModulus
Length(posLen) == posLen % HalfModulus

\* Positions count from the message, or from the entry's first byte.
Base(s) == IF s.isEntry THEN s.fields[1].at ELSE 0
Slot(s, i) ==
  [tag |-> s.fields[i].tag, posLen |-> Pack(s.fields[i].pos - Base(s), s.fields[i].len)]

\* Which fields of an entry a half cannot hold.
TooFar(s) ==
  {i \in 1 .. Len(s.fields) : s.isEntry /\
     (s.fields[i].pos - Base(s) >= HalfModulus \/ s.fields[i].len >= HalfModulus)}

\* A message is refused as a whole.
TooLarge(s) == ~s.isEntry /\ s.size > HalfModulus - 1

----------------------------------------------------------------------------
(* Actions *)

Init ==
  /\ slots = [buffer \in Buffers |-> [i \in 0 .. Capacity - 1 |-> [tag |-> Unset, posLen |-> 0]]]
  /\ index = [v \in Views |-> None]
  /\ owner = [buffer \in Buffers |-> Unset]
  /\ answer = Nothing

\* The loop fills slots until the fields or the slots are used up, or until a
\* field of an entry lies too far.  Faulty: count <= N.
StoredTill(s, n) ==
  IF TooLarge(s) THEN 0
  ELSE FirstIn({i \in 0 .. Len(s.fields) - 1 : i + 1 \in TooFar(s)}, 0,
               IF Len(s.fields) < n THEN Len(s.fields) ELSE n)
StoredOneMore(s) == StoredTill(s, Capacity + 1)
Stored(s)        == StoredTill(s, Capacity)
Overflows(s) == TooLarge(s) \/ (Stored(s) + 1 \in TooFar(s) /\ Stored(s) < Capacity)

\* Faulty: a full buffer counts as complete.
NeverTruncated(s) == FALSE
Truncates(s)      == ~Overflows(s) /\ Len(s.fields) > Capacity

Build(v, s) ==
  LET stored    == Stored(s)
      overflows == Overflows(s)
  IN  /\ slots' = [slots EXCEPT ![BufferOf[v]] =
           [i \in 0 .. Capacity - 1 |-> IF i < stored THEN Slot(s, i + 1) ELSE @[i]]]
      /\ index' = [index EXCEPT ![v] =
           [source |-> s,
            count |-> IF overflows THEN 0 ELSE stored,
            truncated |-> Truncates(s),
            overflowed |-> overflows]]
      /\ owner' = [owner EXCEPT ![BufferOf[v]] = v]
      /\ answer' = Nothing

\* details::find_tag_in_index over the slots from i up to n.
FindTag(v, i, n, tag) == FirstIn({j \in i .. n - 1 : slots[BufferOf[v]][j].tag = tag}, i, n)

\* Faulty: the search does not wrap around to the slots before the hint.
BehindOnly(v, from, tag) ==
  FindTag(v, from, index[v].count, tag)
\* The slot find_with_hint finds, or the count: [hint, count), then [0, hint).
Find(v, from, tag) ==
  LET behind == FindTag(v, from, index[v].count, tag)
      before == FindTag(v, 0, from, tag)
  IN  IF behind # index[v].count \/ before = from THEN behind ELSE before

\* A hint beyond the last field starts over.
From(v, hint) == IF hint > index[v].count THEN 0 ELSE hint

Lookup(v, tag, hint) ==
  /\ index[v] # None
  /\ LET slot  == Find(v, From(v, hint), tag)
         found == slot # index[v].count
         posLen == slots[BufferOf[v]][slot].posLen
     IN  answer' =
           [view |-> v, tag |-> tag, hint |-> hint,
            found |-> found,
            hintAfter |-> IF found THEN slot ELSE From(v, hint),
            value |-> IF found
                      THEN [pos |-> Base(index[v].source) + Pos(posLen), len |-> Length(posLen)]
                      ELSE [pos |-> 0, len |-> 0]]
  /\ UNCHANGED <<slots, index, owner>>

Next ==
  \E v \in Views :
    \/ \E s \in Sources : Build(v, s)
    \/ \E tag \in Tags, hint \in 0 .. Capacity + 1 : Lookup(v, tag, hint)

Spec == Init /\ [][Next]_vars

----------------------------------------------------------------------------
(* Properties *)

TypeOK ==
  /\ \A buffer \in Buffers, i \in 0 .. Capacity - 1 :
       slots[buffer][i].posLen \in 0 .. HalfModulus * HalfModulus - 1
  /\ \A v \in Views : index[v] # None =>
       /\ index[v].count \in 0 .. Capacity
       /\ index[v].count <= Len(index[v].source.fields)
       /\ ~(index[v].truncated /\ index[v].overflowed)

\* An index is intact until another one is built into its buffer.
Intact(v)        == owner[BufferOf[v]] = v
Authoritative(v) == ~index[v].truncated /\ ~index[v].overflowed
Answered         == answer # Nothing /\ Intact(answer.view)

\* Whatever was built into other buffers, and into this one before, an index
\* finds what find_with_hint of the reader or the entry finds among the fields
\* it holds, from the same hint, and hands out the same bytes and the same hint:
\* after a miss the one that was given, or the first if that is beyond the last.
AgreesWithIterator ==
  Answered =>
    LET v      == answer.view
        fields == index[v].source.fields
        hint   == IF answer.hint > index[v].count THEN 0 ELSE answer.hint
        hit    == FindWithHint(fields, 1, index[v].count + 1, answer.tag, hint + 1)
    IN  /\ answer.found = hit.found
        /\ answer.hintAfter = hit.at - 1
        /\ hit.found =>
             answer.value = [pos |-> fields[hit.at].pos, len |-> fields[hit.at].len]

\* "Check both before treating find_with_hint() "absent" as real": with both
\* flags down, what is not found is not there.
AbsenceIsReal ==
  Answered /\ Authoritative(answer.view) /\ ~answer.found =>
    \A i \in 1 .. Len(index[answer.view].source.fields) :
      index[answer.view].source.fields[i].tag # answer.tag
=============================================================================
