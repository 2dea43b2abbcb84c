------------------------------- MODULE Groups -------------------------------
(***************************************************************************)
(* Repeating groups: basic_group_view, basic_group_iterator and            *)
(* basic_group_entry.  A program ranges over a group of a message and over *)
(* groups nested in its entries, and leaves the innermost loop at any time.*)
(***************************************************************************)
EXTENDS Fields

CONSTANTS
  Messages,   \* what may be read: [fields, sent], see below
  FirstTag,   \* groups::group_def: the delimiter of the group of a count tag
  MaxDepth,   \* how deep a program nests its loops
  NoNumber    \* the count of a field whose value is no number

\* A field is its tag and what try_as_int makes of its value.
ASSUME MessagesAssumption ==
  \A m \in Messages :
    /\ Len(m.fields) \in Nat /\ Len(m.sent) \in Nat
    /\ \A i \in 1 .. Len(m.fields) : m.fields[i].count \in Nat \cup {NoNumber}
ASSUME DepthAssumption == MaxDepth \in Nat /\ NoNumber \notin Nat

\* In a message whose sender kept the rules of one of its groups, sent holds the
\* sender's entries, as [from, to]; else it is empty.  The count field stands
\* before the first of them and counts them, each begins with the delimiter and
\* holds no other, and the next one follows.
KeepsTheRules(fields, sent) ==
  LET n     == Len(sent)
      count == fields[sent[1].from - 1]
  IN  /\ n > 0 /\ sent[1].from > 1
      /\ count.tag \in DOMAIN FirstTag /\ count.count = n
      /\ \A i \in 1 .. n :
           /\ sent[i].from \in Nat /\ sent[i].to \in sent[i].from + 1 .. Len(fields) + 1
           /\ \A j \in sent[i].from .. sent[i].to - 1 :
                fields[j].tag = FirstTag[count.tag] <=> j = sent[i].from
      /\ \A i \in 1 .. n - 1 : sent[i].to = sent[i + 1].from
ASSUME SentAssumption ==
  \A m \in Messages : m.sent # <<>> => KeepsTheRules(m.fields, m.sent)

VARIABLES
  msg,   \* the message
  open   \* the loops the program is in, the outermost first

vars == <<msg, open>>

End   == Len(msg.fields) + 1     \* end() of the message
Outer == Len(open) = 0
Top   == open[Len(open)]

\* A loop: its view (from, to, count, delimiter) and its iterator (begin, end,
\* remaining); entries is the history of what it was given.
Finished(loop) == loop.begin = loop.to /\ loop.remaining = 0

----------------------------------------------------------------------------
(* Views and iterators *)

\* Where group() looks for the count field: in the message, or in the current
\* entry.  Faulty: up to the end of the message.
ScopeBegin   == IF Outer THEN 1 ELSE Top.begin
WholeMessage == End
ScopeEnd     == IF Outer THEN End ELSE Top.end

\* The first delimiter behind this entry's first field, or the view's end.
EntryEnd(begin, to, delimiter) == FindIf(msg.fields, begin + 1, to, delimiter)

\* basic_group_iterator: the entry at begin, or the end.
IteratorAt(begin, to, delimiter, remaining) ==
  IF remaining = 0 \/ begin = to
  THEN [begin |-> to, end |-> to, remaining |-> 0]
  ELSE [begin |-> begin, end |-> EntryEnd(begin, to, delimiter), remaining |-> remaining]

EntryOf(it) == IF it.begin = it.end THEN <<>> ELSE <<[from |-> it.begin, to |-> it.end]>>

Loop(from, to, count, delimiter, it, entries) ==
  [from |-> from, to |-> to, count |-> count, delimiter |-> delimiter,
   begin |-> it.begin, end |-> it.end, remaining |-> it.remaining, entries |-> entries]

\* begin(): the fields before the first delimiter are skipped.  Faulty: they
\* are not.
StartAtOnce(from, to, delimiter) == from
Start(from, to, delimiter)       == FindIf(msg.fields, from, to, delimiter)

ViewLoop(from, to, count, delimiter) ==
  LET it == IteratorAt(Start(from, to, delimiter), to, delimiter, count)
  IN  Loop(from, to, count, delimiter, it, EntryOf(it))

----------------------------------------------------------------------------
(* Actions *)

Init == msg \in Messages /\ open = <<>>

\* for (auto const& entry : group<tag>()), of the message or of the current
\* entry: nothing to range over if the count field is missing or no number.
OpenGroup(tag) ==
  /\ Len(open) < MaxDepth
  /\ ~Outer => ~Finished(Top)
  /\ LET hit  == FindWithHint(msg.fields, ScopeBegin, ScopeEnd, tag, ScopeBegin)
         none == ~hit.found \/ msg.fields[hit.at].count = NoNumber
     IN  open' = Append(open,
           IF none THEN ViewLoop(ScopeEnd, ScopeEnd, 0, FirstTag[tag])
           ELSE ViewLoop(hit.at + 1, ScopeEnd, msg.fields[hit.at].count, FirstTag[tag]))
  /\ UNCHANGED msg

\* Faulty: the declared count is counted below zero.
RemainingWraps(loop) == loop.remaining - 2
Remaining(loop)      == IF loop.remaining > 0 THEN loop.remaining - 1 ELSE 0

\* Faulty: the last entry is left out.
StopsEarly(loop) == Remaining(loop) <= 1 \/ loop.end = loop.to
Stops(loop)      == Remaining(loop) = 0 \/ loop.end = loop.to

\* operator++ of basic_group_iterator.
Incremented(loop) ==
  LET it == IF Stops(loop)
            THEN [begin |-> loop.to, end |-> loop.to, remaining |-> 0]
            ELSE [begin |-> loop.end, end |-> EntryEnd(loop.end, loop.to, loop.delimiter),
                  remaining |-> Remaining(loop)]
  IN  Loop(loop.from, loop.to, loop.count, loop.delimiter, it, loop.entries \o EntryOf(it))

\* The innermost loop goes on.
Advance ==
  /\ ~Outer /\ ~Finished(Top)
  /\ open' = [open EXCEPT ![Len(open)] = Incremented(Top)]
  /\ UNCHANGED msg

\* The loop is over, or left before its end.
Leave ==
  /\ ~Outer
  /\ open' = SubSeq(open, 1, Len(open) - 1)
  /\ UNCHANGED msg

Next == (\E tag \in DOMAIN FirstTag : OpenGroup(tag)) \/ Advance \/ Leave

Spec == Init /\ [][Next]_vars

----------------------------------------------------------------------------
(* Properties *)

Loops == {open[k] : k \in 1 .. Len(open)}
Delimiters(loop) ==
  {i \in loop.from .. loop.to - 1 : msg.fields[i].tag = loop.delimiter}

TypeOK ==
  \A loop \in Loops :
    /\ loop.from \in 1 .. End /\ loop.to \in loop.from .. End
    /\ loop.begin \in loop.from .. loop.to /\ loop.end \in loop.begin .. loop.to
    /\ loop.count \in Nat /\ loop.remaining \in 0 .. loop.count

\* Whatever the message holds and the count says, each entry begins with the
\* delimiter and holds no other, and the next begins where it ends: no field
\* between two delimiters is lost and none is in two entries.  A count that is
\* too large or too small is no harm: a finished loop has given as many entries
\* as declared, or as there are if these are fewer.
EntriesTile ==
  \A loop \in Loops :
    LET n == Len(loop.entries)
        begun == {loop.entries[i].from : i \in 1 .. n}
    IN  /\ \A i \in 1 .. n :
             Delimiters(loop) \cap loop.entries[i].from .. loop.entries[i].to - 1
               = {loop.entries[i].from}
        /\ \A i \in 1 .. n - 1 : loop.entries[i].to = loop.entries[i + 1].from
        /\ n <= loop.count
        /\ Finished(loop) /\ n < loop.count => begun = Delimiters(loop)

\* The group of an entry lies in the entry, whatever its count says: the
\* entries of a nested loop never reach into the next entry of the outer one.
NestedInside ==
  \A k \in 1 .. Len(open) - 1 :
    \A i \in 1 .. Len(open[k + 1].entries) :
      /\ open[k].begin < open[k + 1].entries[i].from
      /\ open[k + 1].entries[i].to <= open[k].end

SentLoops ==
  {open[k] : k \in {n \in 1 .. Len(open) : n = 1 /\ msg.sent # <<>> /\ open[1].from = msg.sent[1].from}}

\* Of a group its sender wrote by the rules, the loop gives the entries that
\* were sent, all but the last one exactly: where the group ends the code does
\* not know.
EntriesAsSent ==
  \A loop \in SentLoops :
    /\ Len(loop.entries) <= Len(msg.sent)
    /\ \A i \in 1 .. Len(loop.entries) :
         /\ loop.entries[i].from = msg.sent[i].from
         /\ i < Len(msg.sent) => loop.entries[i].to = msg.sent[i].to
    /\ Finished(loop) => Len(loop.entries) = Len(msg.sent)

\* "trailing non-group fields do not leak into the last entry."
LastEntryEndsWithGroup ==
  \A loop \in SentLoops : \A i \in 1 .. Len(loop.entries) :
    loop.entries[i].to = msg.sent[i].to
=============================================================================
