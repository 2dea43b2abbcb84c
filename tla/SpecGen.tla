------------------------------ MODULE SpecGen ------------------------------
(***************************************************************************)
(* fixspec-gen-fields: from the XML specifications given to it, the names  *)
(* of the fields and messages, the table of the length fields the reader   *)
(* looks tags up in, and the delimiter each repeating group is dispatched  *)
(* on, with the alternates other contexts use.                             *)
(* The documents are what their visit comes across: the entries of all of  *)
(* them, in the order of the command line, one sequence per kind of entry. *)
(***************************************************************************)
EXTENDS Integers, Sequences, FiniteSets, Functions

CONSTANTS
  Specs,              \* what the program may be run on, see below
  None,               \* an attribute or a child that is not there
  MaxComponentDepth,  \* kMaxComponentDepth
  BitmapSize          \* kBitmapSize of the reader's length_tag_index

Kinds == {"fields", "messages", "components", "groups"}

\* fields are [tag, name, type], messages [name, value], components and groups
\* name the first field, group or component in them: [name, first, isComponent]
\* and [count, first, isComponent, context], where the context is the message,
\* component, header or trailer around the group.  The program does not look at
\* isComponent, which says what `first` is.  args are the outputs asked for.
ASSUME SpecsAssumption ==
  \A s \in Specs :
    /\ s.args \subseteq {"-o", "-go"}
    /\ \A k \in Kinds : Len(s[k]) \in Nat
    /\ \A i \in 1 .. Len(s["fields"]) : s["fields"][i].tag \in Int \ {None}
ASSUME DepthAssumption == MaxComponentDepth \in Nat \ {0}
ASSUME BitmapAssumption == BitmapSize \in Nat

VARIABLES
  spec,            \* what is read
  read,            \* how many entries of each kind have been read
  phase,           \* "load", "groups", "done" or, when a file does not open, "failed"
  fields,          \* by tag: [name, type, aliases]
  messages,        \* in order: [name, value, aliases]
  lengths,         \* length_fields as written
  componentFirst,  \* component_first
  dedup,           \* by count field: the first-seen first_name
  conflicts,       \* by count field: the alternates, [first, contexts]
  groups           \* by count field: the delimiter registered

vars == <<spec, read, phase, fields, messages, lengths, componentFirst, dedup, conflicts, groups>>
fieldVars == <<fields, messages, lengths>>
groupVars == <<componentFirst, dedup, conflicts, groups>>

NoEntries == [x \in {} |-> None]

Init ==
  /\ spec \in Specs
  /\ read = [k \in Kinds |-> 0]
  /\ phase = "load"
  /\ fields = NoEntries /\ messages = <<>> /\ lengths = <<>>
  /\ componentFirst = NoEntries /\ dedup = NoEntries
  /\ conflicts = NoEntries /\ groups = NoEntries

Pending(kind) == read[kind] < Len(spec[kind])
Entry(kind)   == spec[kind][read[kind] + 1]
Visit(kind)   == /\ Pending(kind)
                 /\ read' = [read EXCEPT ![kind] = @ + 1]

\* try_emplace: what is there stays.
Emplaced(map, key, value) ==
  [k \in DOMAIN map \cup {key} |-> IF k \in DOMAIN map THEN map[k] ELSE value]

----------------------------------------------------------------------------
(* Fields and messages *)

\* Another name of what has one.  Faulty: an alias is appended each time.
AnotherAlias(x, name) == IF x.name = name THEN x ELSE [x EXCEPT !.aliases = Append(@, name)]
WithAlias(x, name) ==
  IF name \in {x.name} \cup Range(x.aliases) THEN x
  ELSE [x EXCEPT !.aliases = Append(@, name)]

\* The table of normalize_type as far as is_data_length can tell.
NormalizeType(type) == IF type = "LENGTH" THEN "Length" ELSE type

\* A declaration that is skipped: an attribute is missing, or the tag is none.
\* Faulty: a tag of zero is taken.
SkippedNegative(f) == f.tag < 0 \/ None \in {f.name, f.type}
Skipped(f)         == f.tag <= 0 \/ None \in {f.name, f.type}

LoadField ==
  /\ phase = "load"
  /\ Visit("fields")
  /\ LET f == Entry("fields")
     IN  fields' = IF Skipped(f) THEN fields
                   ELSE IF f.tag \in DOMAIN fields
                        THEN [fields EXCEPT ![f.tag] = WithAlias(@, f.name)]
                        ELSE Emplaced(fields, f.tag,
                               [name |-> f.name, type |-> NormalizeType(f.type), aliases |-> <<>>])
  /\ UNCHANGED <<spec, phase, messages, lengths, groupVars>>

\* The tables of fields and messages are independent: all fields are read first.
LoadMessage ==
  /\ phase = "load" /\ ~Pending("fields")
  /\ Visit("messages")
  /\ LET m == Entry("messages")
         same(i) == messages[i].value = m.value
     IN  messages' = IF None \in {m.name, m.value} THEN messages
                     ELSE IF \E i \in DOMAIN messages : same(i)
                          THEN [i \in DOMAIN messages |->
                                 IF same(i) THEN WithAlias(messages[i], m.name) ELSE messages[i]]
                          ELSE Append(messages,
                                 [name |-> m.name, value |-> m.value, aliases |-> <<>>])
  /\ UNCHANGED <<spec, phase, fields, lengths, groupVars>>

\* BodyLength and MaxMessageSize count no data.
IsDataLength(tag) == fields[tag].type = "Length" /\ tag \notin {9, 383}

\* In the order of the map of fields.  Faulty: in the order of the documents.
LengthsAsRead ==
  LET tags == [i \in 1 .. Len(spec["fields"]) |-> spec["fields"][i].tag]
  IN  SelectSeq(tags, LAMBDA t : t \in DOMAIN fields /\ IsDataLength(t))
Ascends(s, S) ==
  /\ Range(s) = S
  /\ \A i, j \in DOMAIN s : i < j => s[i] < s[j]
Lengths ==
  LET S == {t \in DOMAIN fields : IsDataLength(t)}
  IN  CHOOSE s \in [1 .. Cardinality(S) -> S] : Ascends(s, S)

AllLoaded == phase = "load" /\ ~Pending("fields") /\ ~Pending("messages")

EmitFields ==
  /\ AllLoaded
  /\ lengths' = IF spec.args = {"-go"} THEN lengths ELSE Lengths
  /\ phase' = IF "-go" \in spec.args THEN "groups" ELSE "done"
  /\ UNCHANGED <<spec, read, fields, messages, groupVars>>

----------------------------------------------------------------------------
(* Components and groups *)

LoadComponent ==
  /\ phase = "groups"
  /\ Visit("components")
  /\ LET c == Entry("components")
     IN  componentFirst' = IF None \in {c.name, c.first} THEN componentFirst
                           ELSE Emplaced(componentFirst, c.name, c.first)
  /\ UNCHANGED <<spec, phase, fieldVars, dedup, conflicts, groups>>

\* The alternate of a first name gets the contexts, a new one if there is none;
\* their order is only the comment's.
WithContexts(alternates, first, contexts) ==
  IF \E i \in DOMAIN alternates : alternates[i].first = first
  THEN [i \in DOMAIN alternates |->
         IF alternates[i].first = first
         THEN [alternates[i] EXCEPT !.contexts = @ \cup contexts] ELSE alternates[i]]
  ELSE Append(alternates, [first |-> first, contexts |-> contexts])

CollectGroup ==
  /\ phase = "groups" /\ ~Pending("components")
  /\ Visit("groups")
  /\ LET g     == Entry("groups")
         known == Emplaced(conflicts, g.count, <<>>)
     IN  IF None \in {g.count, g.first} THEN UNCHANGED <<dedup, conflicts>>
         ELSE /\ dedup' = Emplaced(dedup, g.count, g.first)
              /\ conflicts' = [known EXCEPT ![g.count] = WithContexts(@, g.first, {g.context} \ {None})]
  /\ UNCHANGED <<spec, phase, fieldVars, componentFirst, groups>>

IsComponent(name) == name \in DOMAIN componentFirst

\* The names the chase comes by: name, then the first of the component each is.
Chase(name) ==
  LET hop[n \in Nat] ==
        IF n = 0 THEN name
        ELSE IF IsComponent(hop[n - 1]) THEN componentFirst[hop[n - 1]] ELSE hop[n - 1]
  IN  hop

\* resolve_first_field: at most MaxComponentDepth names are looked up.  A cycle
\* comes to no other end, for the set of the visited only reports it earlier.
\* Faulty: one more is looked up.
LeafBehind(name) ==
  LET leaf == Chase(name)[MaxComponentDepth] IN IF IsComponent(leaf) THEN None ELSE leaf
Leaf(name) ==
  LET leaf == Chase(name)[MaxComponentDepth - 1] IN IF IsComponent(leaf) THEN None ELSE leaf

\* An alternate that resolves to nothing keeps its name.
AlternateLeaf(name) == IF Leaf(name) = None THEN name ELSE Leaf(name)

\* Alternates with the same leaf become one, in order.  Faulty: they stay apart.
Resolved(alternates) ==
  [i \in DOMAIN alternates |-> [alternates[i] EXCEPT !.first = AlternateLeaf(@)]]
Merged(alternates) ==
  LET merged[n \in 0 .. Len(alternates)] ==
        IF n = 0 THEN <<>>
        ELSE WithContexts(merged[n - 1], AlternateLeaf(alternates[n].first), alternates[n].contexts)
  IN  merged[Len(alternates)]

Registered == {c \in DOMAIN dedup : Leaf(dedup[c]) # None}

\* Entries with a single delimiter are no conflict.
Conflicting(c) == Len(Merged(conflicts[c])) >= 2

Resolve ==
  /\ phase = "groups" /\ ~Pending("components") /\ ~Pending("groups")
  /\ groups' = [c \in Registered |-> Leaf(dedup[c])]
  /\ conflicts' = [c \in {r \in Registered : Conflicting(r)} |-> Merged(conflicts[c])]
  /\ phase' = "done"
  /\ UNCHANGED <<spec, read, fieldVars, componentFirst, dedup>>

\* An output file does not open: of the groups, after all else is done.
CannotOpen ==
  /\ \/ AllLoaded /\ "-o" \in spec.args
     \/ phase = "groups" /\ ~Pending("components") /\ ~Pending("groups")
  /\ phase' = "failed"
  /\ UNCHANGED <<spec, read, fieldVars, groupVars>>

Next ==
  \/ LoadField \/ LoadMessage \/ EmitFields
  \/ LoadComponent \/ CollectGroup \/ Resolve
  \/ CannotOpen

Spec == Init /\ [][Next]_vars

----------------------------------------------------------------------------
(* Properties *)

\* What the entries of a kind say.
Said(kind, key) == {spec[kind][i][key] : i \in 1 .. Len(spec[kind])} \ {None}

FieldRecords   == [name : Said("fields", "name"), type : Said("fields", "type") \cup {"Length"},
                   aliases : Seq(Said("fields", "name"))]
MessageRecords == [name : Said("messages", "name"), value : Said("messages", "value"),
                   aliases : Seq(Said("messages", "name"))]
Firsts         == Said("groups", "first") \cup Said("components", "first")
Alternates     == [first : Firsts, contexts : SUBSET Said("groups", "context")]

ReadTypes ==
  /\ DOMAIN read = Kinds /\ \A k \in Kinds : read[k] \in 0 .. Len(spec[k])
  /\ phase \in {"load", "groups", "done", "failed"}
FieldTypes ==
  /\ DOMAIN fields \subseteq Nat \ {0} /\ fields \in [DOMAIN fields -> FieldRecords]
  /\ lengths \in Seq(DOMAIN fields)
MessageTypes == messages \in Seq(MessageRecords)
ComponentTypes ==
  /\ DOMAIN componentFirst \subseteq Said("components", "name")
  /\ componentFirst \in [DOMAIN componentFirst -> Said("components", "first")]
GroupTypes ==
  /\ DOMAIN dedup \subseteq Said("groups", "count")
  /\ dedup \in [DOMAIN dedup -> Said("groups", "first")]
  /\ conflicts \in [DOMAIN conflicts -> Seq(Alternates)]
  /\ groups \in [DOMAIN groups -> Firsts]

TypeOK == ReadTypes /\ FieldTypes /\ MessageTypes /\ ComponentTypes /\ GroupTypes

\* Where the documents declare a tag or a message type, as far as they are read.
FieldPlaces(tag) ==
  {i \in 1 .. read["fields"] :
     LET f == spec["fields"][i] IN f.tag = tag /\ f.name # None /\ f.type # None}
MessagePlaces(value) ==
  {i \in 1 .. read["messages"] :
     LET m == spec["messages"][i] IN m.value = value /\ m.name # None}

\* Of the names at some places, each once, in the order they appear.
Names(x) == <<x.name>> \o x.aliases
NamesOf(x, entries, places) ==
  /\ Range(Names(x)) = {entries[p].name : p \in places}
  /\ \A i, j \in DOMAIN Names(x) : i < j =>
       \E p \in places :
         entries[p].name = Names(x)[i] /\ \A q \in places : entries[q].name = Names(x)[j] => p < q

FieldNamesKept ==
  /\ \A tag \in DOMAIN fields : NamesOf(fields[tag], spec["fields"], FieldPlaces(tag))
  /\ \A tag \in Said("fields", "tag") : tag > 0 /\ FieldPlaces(tag) # {} => tag \in DOMAIN fields
MessageNamesKept ==
  /\ \A i \in DOMAIN messages :
       NamesOf(messages[i], spec["messages"], MessagePlaces(messages[i].value))
  /\ \A value \in Said("messages", "value") :
       MessagePlaces(value) # {} => \E i \in DOMAIN messages : messages[i].value = value
  /\ \A i, j \in DOMAIN messages : messages[i].value = messages[j].value => i = j

\* A field or message keeps every name it is given, once: the first it is known
\* by, the others are aliases.  A name lost or emitted twice is a constant that
\* programs miss or a header that does not compile (load_fields, load_messages).
NamesKept == FieldNamesKept /\ MessageNamesKept

\* std::lower_bound in lengths[first .. last - 1]: half of what is left, at
\* least one, is gone with every step.
LowerBound(first, last, tag) ==
  LET step(r) == LET mid == (r.lo + r.hi) \div 2
                 IN  IF r.lo >= r.hi THEN r
                     ELSE IF lengths[mid] < tag THEN [r EXCEPT !.lo = mid + 1]
                     ELSE [r EXCEPT !.hi = mid]
      range[n \in Nat] == IF n = 0 THEN [lo |-> first, hi |-> last] ELSE step(range[n - 1])
  IN  range[last - first].lo

\* length_tag_index: a bitmap of the tags before the first one beyond it, and
\* std::binary_search of the rest of the table.
IsSplit(n) ==
  /\ \A i \in 1 .. n - 1 : lengths[i] < BitmapSize
  /\ n <= Len(lengths) => lengths[n] >= BitmapSize
InLengthTable(tag) ==
  LET split == CHOOSE n \in 1 .. Len(lengths) + 1 : IsSplit(n)
      lower == LowerBound(split, Len(lengths) + 1, tag)
  IN  IF tag < BitmapSize THEN \E i \in 1 .. split - 1 : lengths[i] = tag
      ELSE lower <= Len(lengths) /\ lengths[lower] = tag

\* The reader, looking a tag up in the table as written, takes it for the length
\* of data just if the first declaration of the tag says so, whatever the order
\* of the documents (length_fields, length_tag_index).
LengthTable ==
  phase = "done" /\ spec.args # {"-go"} =>
    \A tag \in Said("fields", "tag") :
      InLengthTable(tag) <=>
        /\ tag \notin {9, 383} /\ tag > 0
        /\ \E p \in FieldPlaces(tag) :
             /\ spec["fields"][p].type \in {"LENGTH", "Length"}
             /\ \A q \in FieldPlaces(tag) : p <= q

\* What the first child of a component or group comes down to: a path of first
\* children to one that is no component, by fewer than MaxComponentDepth of them.
Declares(p, name) ==
  LET c == spec["components"][p]
  IN  p \in 1 .. Len(spec["components"]) /\ c.name = name /\ c.first # None
IsDeclared(name) == \E p \in 1 .. Len(spec["components"]) : Declares(p, name)
FirstDeclares(p, name) ==
  Declares(p, name) /\ \A q \in 1 .. p - 1 : ~Declares(q, name)
Child(x) == [name |-> x.first, isComponent |-> x.isComponent]
Opens(c) == c.isComponent /\ IsDeclared(c.name)
Children ==
  {Child(spec["components"][p]) : p \in 1 .. Len(spec["components"])} \cup
  {Child(spec["groups"][p]) : p \in 1 .. Len(spec["groups"])}
LeadsTo(c, next) ==
  /\ Opens(c)
  /\ \E p \in 1 .. Len(spec["components"]) :
       FirstDeclares(p, c.name) /\ next = Child(spec["components"][p])
IsPath(path, n, child) ==
  path[1] = child /\ \A i \in 1 .. n - 1 : LeadsTo(path[i], path[i + 1])
PathTo(child, leaf) ==
  \E n \in 1 .. MaxComponentDepth : \E path \in [1 .. n -> Children] :
    IsPath(path, n, child) /\ path[n].name = leaf /\ ~Opens(path[n])

\* The paths from a child come by no field or group with the name of a component.
Mistakable(c) == ~c.isComponent /\ IsDeclared(c.name)
DistinctNames(child) ==
  \A n \in 1 .. MaxComponentDepth : \A path \in [1 .. n -> Children] :
    IsPath(path, n, child) => \A i \in 1 .. n : ~Mistakable(path[i])

Occurrences(c) ==
  {p \in 1 .. Len(spec["groups"]) :
     spec["groups"][p].count = c /\ spec["groups"][p].first # None}
First(p, c)    == p \in Occurrences(c) /\ \A q \in Occurrences(c) : p <= q
Begins(p)      == Child(spec["groups"][p])
PossibleLeaves == {c.name : c \in Children}
Finished       == phase = "done" /\ "-go" \in spec.args

\* A group is dispatched on a field just if its first occurrence leads there.
DelimiterExact(c) ==
  \A leaf \in PossibleLeaves :
    (c \in DOMAIN groups /\ groups[c] = leaf)
      <=> \E p \in Occurrences(c) : First(p, c) /\ PathTo(Begins(p), leaf)

\* "The delimiter tag (first tag of the entry block)": every repeating group is
\* dispatched on the field its first occurrence starts with, however deep in
\* components that field is; one whose first occurrence leads to no field within
\* the limit, a circle for one, is not registered at all.  It fails of a group
\* whose own path comes by a field with the name of a component, which the
\* search takes for the component (resolve_first_field, load_groups).
DelimiterBeginsEntry ==
  Finished => \A c \in Said("groups", "count") : DelimiterExact(c)

\* The same of each group whose own path, that of its first occurrence, comes by
\* no such field, whatever other groups of the specification do.
DelimiterIsLeaf ==
  Finished =>
    \A c \in Said("groups", "count") :
      (\A p \in Occurrences(c) : First(p, c) => DistinctNames(Begins(p))) => DelimiterExact(c)

\* An occurrence starts with the field its path leads to, or, if it leads to
\* none, with whatever it names first.
Starts(p, name) ==
  \/ PathTo(Begins(p), name)
  \/ Begins(p).name = name /\ ~\E leaf \in PossibleLeaves : PathTo(Begins(p), leaf)
Delimiters(c) == {name \in PossibleLeaves : \E p \in Occurrences(c) : Starts(p, name)}
ContextsOf(c, name) ==
  {spec["groups"][p].context : p \in {q \in Occurrences(c) : Starts(q, name)}} \ {None}

AlternatesExact(c) ==
  /\ c \in DOMAIN conflicts <=> Cardinality(Delimiters(c)) >= 2
  /\ c \in DOMAIN conflicts =>
       /\ Len(conflicts[c]) = Cardinality(Delimiters(c))
       /\ conflicts[c][1].first = groups[c]
       /\ \A name \in Delimiters(c) :
            [first |-> name, contexts |-> ContextsOf(c, name)] \in Range(conflicts[c])

\* A registered group has alternates just if its occurrences start with several
\* fields: each of these fields once, the dispatched one first, with the contexts
\* it was found in, so that a caller finds the delimiter of its message there.
\* It is said of each group the paths of whose own occurrences come by no field
\* with the name of a component (collect_groups, load_groups, emit_groups).
ConflictsExact ==
  Finished =>
    /\ DOMAIN conflicts \subseteq DOMAIN groups
    /\ \A c \in DOMAIN groups :
         (\A p \in Occurrences(c) : DistinctNames(Begins(p))) => AlternatesExact(c)
=============================================================================
