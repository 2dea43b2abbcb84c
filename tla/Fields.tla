------------------------------- MODULE Fields -------------------------------
(***************************************************************************)
(* The fields of a message as an iterator shows them: a sequence, in which *)
(* an iterator is a position and end() the position behind the last.  The  *)
(* bytes they come from are FieldIterator.tla's.                           *)
(***************************************************************************)
EXTENDS Bytes

\* std::find_if(from, to, tag_equal(tag)).
FindIf(fields, from, to, tag) ==
  FirstIn({i \in from .. to - 1 : fields[i].tag = tag}, from, to)

\* hffix::find_with_hint(begin, end, tag_equal(tag), hint): the hit, or the
\* hint as it was.
FindWithHint(fields, begin, end, tag, hint) ==
  LET behind == FindIf(fields, hint, end, tag)
      before == FindIf(fields, begin, hint, tag)
  IN  IF behind # end THEN [found |-> TRUE, at |-> behind]
      ELSE IF before # hint THEN [found |-> TRUE, at |-> before]
      ELSE [found |-> FALSE, at |-> hint]
=============================================================================
