# A verification development for hffix-simd

This directory specifies and verifies hffix-simd, a header-only C++ library that
writes and reads FIX messages in place (`src/include/hffix.hpp`, 2789 lines). It
holds TLA+ modules translated from the source, TLC configurations that check
them on small instances, and theorems checked by TLAPS that hold for every
value of the constants.

The generator of its tables (`src/utils/fixspec-gen-fields/`) and the read loop of
`src/utils/fixprint/` are modelled, too.

`PROJECT.json` lists the components, the runs, the theorems, the lines each
definition stands for (`map`), the mistakes each property was shown to notice
(`mutants`), and the hazards the properties are for.

Line numbers below are those of `src/include/hffix.hpp` unless a file is named.

## 1. The system

The library never allocates and owns no bytes. A writer writes into a buffer of
its caller, a reader points into one. What makes it hard is arithmetic on
pointers and lengths, some of which come out of the message itself, and loops
whose end depends on it; not threads. One object belongs to one thread; the only
shared state of the whole library is a counter of failed assertions.

| component | lines | state | operations |
|---|---|---|---|
| `message_writer` | 608-1060 | `buffer_`, `next_`, `buffer_end_`, `body_length_`, `error_` | `push_back_header`, twelve kinds of `push_back_*`, `push_back_data`, `push_back_trailer` |
| `try_write_message` | 1062-1085 | none of its own | the caller's calls, a trailer, `end_out` on success only |
| `basic_message_reader`: framing | 1683-2110 | `buffer_`, `buffer_end_`, `begin_`, `end_`, `is_complete_`, `is_valid_` | `init()`, `next_message_reader()` |
| parse loops: `for_each_message`, `basic_message_range`, `fixprint` | 2654-2785, `src/utils/fixprint/fixprint.cpp` | a read buffer and how full it is | read, deliver, skip, keep the tail |
| field iterator | 1489-1530, 2322-2426 | `buffer_`, `message_end_`, `current_` | `++` |
| `find_with_hint` on iterators | 1636-1652 | the caller's hint | search from the hint, then from the start |
| repeating groups | 2117-2300 | iterators of the entry, the next entry, `remaining_` | `group()`, `++`, nested `group()` |
| field index | 2484-2634 | slots in a shared buffer, `count_`, two flags | `build_field_index`, `find_with_hint`, `value_at` |
| conversions and accessors | 151-600, 1187-1446 | the caller's variables | numbers, dates, times, to and from text |
| assertion counter | 100-114 | one atomic counter | increment, read, reset |
| `fixspec-gen-fields` | `src/utils/fixspec-gen-fields/` | tables of fields and groups | merges specifications into the generated headers |

How they interact:

```
   application                                          application
       | push_back_*                                         ^ fields, groups, values
   message_writer --bytes--> network --chunks--> read buffer |
                                                    |        |
                                             message_reader -+-> field iterator -> groups
                                              init / next     \-> field index (shared slots)
```

* The writer's output is the reader's input, but the reader may not rely on it:
  chunks end anywhere, bytes may be damaged, noise may stand between messages.
* The reader decides where a message is, and hands `begin()` and `end()` to the
  iterator; the iterator's loop ends only because both agree on where the
  checksum field is.
* The accessors see the bytes of one value, and set variables of their caller.
* The reader looks length tags up in a table, and `group<tag>()` its delimiter in
  another; `fixspec-gen-fields` writes both from XML specifications.
* Groups and the index see a message as the sequence of fields the iterator
  visits. Groups keep no state in the message; the index keeps its fields in a
  buffer that the caller may use again for another message.

What is hard, and what makes each component correct:

* **Writer.** Each `push_back_*` compares the free room with a worst case and then
  writes unchecked. Errors are silent: a field that does not fit sets a flag, and
  the caller may look only at the trailer. Correct means: no byte is written past
  the end; success means nothing is missing; an error is for good; the BodyLength
  digits, written late through a saved pointer, land in the header and count the
  body exactly; all of this in any order of calls.
* **Framing.** The verdict on a prefix of the stream must be the verdict on every
  longer one, otherwise a message that is still arriving is dropped. No byte
  outside the buffer is read, whatever BodyLength claims, also where it wraps
  around. After an invalid message the search moves forward, and neither jumps
  over a message nor takes a piece of one for a message.
* **Parse loop.** Messages are delivered once, in order and whole, however reads
  cut the stream; the loop ends; nothing is lost that fits the buffer.
* **Iterator.** A data-length field says how many bytes the next value has, and
  the message may lie about it. Values stay in the message, and
  `for (; i != end(); ++i)` ends, although `!=` compares one pointer only.
* **Groups.** The end of an entry is inferred from the next delimiter, the end of
  the group from the declared count; both may be wrong in a message. Entries tile
  the group, nested groups stay inside their entry, there are never more entries
  than declared.
* **Index.** The slots are fewer than the fields of some message, are shared, and
  pack two numbers into 64 bits. An index must answer as the iterator does, and
  admit when it does not know.
* **Conversions.** Digits are added up four or eight at a time in a machine word; the
  checked forms must refuse exactly what their type does not hold; days are counted
  by formulas with a correction for every kind of leap year. They must agree with
  the plain definition of a number or a date, and with the functions that print.
* **Writing and reading.** What was written by the rules is read whole, field by
  field, with its checksum; `end_out` is set on success only, and success means that
  no call of the body was lost.
* **Generator.** Documents name the same tag, message or group again and again, in any
  order. Every name is kept once; the length table is one the reader's search finds
  things in; a group is dispatched on the field its entries start with, through
  components nested in components, circles among them.

## 2. The modules

| module | models | composition |
|---|---|---|
| `FieldLog` | what the writer promises: a log of sections that is whole or has failed for good | abstract specification |
| `Writer` | `message_writer` as offsets and sizes | implements `FieldLog` |
| `Bytes` | bytes, `find_soh`, `atou` with wrap-around | |
| `Framing` | `init()` and `next_message_reader()` as functions of the bytes | extends `Bytes` |
| `MessageStream` | chunked reads and the parse loop, one reader per step | extends `Framing` |
| `FrameScanner` | `for_each_message` pointer by pointer, with every dereference | extends `Framing`, implements `MessageStream` |
| `FieldIterator` | `increment()` from `begin()` to `end()` | extends `Framing` for what a valid message is |
| `WriteRead` | `try_write_message` byte for byte, then reader and iterator over what it wrote | extends `FieldIterator` and `Numbers`, implements `Writer` |
| `Fields` | `find_with_hint` on a sequence of fields | |
| `Groups` | group views, iterators and entries, nested | extends `Fields` |
| `FieldIndex` | index buffers, views, building and looking up | extends `Fields` |
| `Numbers` | integers and decimals to and from bytes; digits in parallel | extends `Bytes` |
| `Calendar` | dates, times and points of time to and from bytes | extends `Numbers` |
| `Values` | one value: pushed or received, then read by an accessor | extends `Calendar` |
| `Printing` | the writer together with the values it prints: sizes and bytes of the same call | extends `Writer` and `Values` |
| `SpecGen` | `fixspec-gen-fields` from its documents to its tables | |
| `ReadingProofs` | theorems: what the searches, the loops over digits and `init()` come to | extends `Framing` and `Fields` |
| `MessageStreamProofs`, `FrameScannerProofs`, `WriteReadProofs`, `GroupsProofs`, `FieldIndexProofs` | theorems; those of `FieldIterator` are in `WriteReadProofs` | each extends the module it is named for, and `ReadingProofs` |
| `WriterProofs`, `SpecGenProofs` | theorems | each extends the module it is named for |
| `MCWriter`, `MCStream`, `MCScanner`, `MCFields`, `MCGroups`, `MCIndex`, `MCValues`, `MCPrinting`, `MCSpecGen` | the small instances | |

Some definitions are preceded by variants called faulty. Each has one mistake
that a programmer could have made there; none is used by a specification. They
are the mutants of `PROJECT.json`: put in the place of the definition, each makes
the property named there fail.

### Writer

`next`, `bodyLength`, `error` and `cap` are the members, as offsets from
`buffer_`. `declared` is what the six BodyLength digits say. `placed`, `calls` and
`told` are histories: the sections written, how many were asked for, what the last
call returned. Contents are the number of bytes they take. That loses the
checksum's value and the printed characters, and keeps every check, every early
return, and the order of the trailer, which writes the BodyLength digits *before*
it knows that there is room for itself (655-659). One action per `push_back_*`,
each with its own worst case; they share `PushField`, the check and the writing
that their bodies have in common.

### Bytes and Framing

`Verdict(s, p, e)` is `basic_message_reader(begin + p, begin + e)`: incomplete,
invalid, or a frame with its parts. Its three operators follow the three stages of
`init()`: BeginString, BodyLength, and the body with the checksum field. BodyLength
is read into a number that wraps at `SizeModulus`. `init()` does not compare the
checksum with the bytes, and neither does the model. `Resync` is
`next_message_reader()` of an invalid reader.

### MessageStream

The loop of fixprint: `Read` is `fread` behind the tail, `Deliver` and `Skip` are
the two branches of the loop, `KeepTail` the `memmove`, `EndOfInput` the read that
returns nothing. The parse loop in it is the one of `for_each_message` and of
`message_range`. A stream carries, as a history, where its sender's frames are.
`KeepsTheRules` says what it takes for these to be the messages of the stream: each is
valid and begins with `8=FIX`, none overlaps another, and from no place between them
does a reader with the whole stream accept anything that does not end with the next
of them. It is a hypothesis of two theorems, not of the model.

### FrameScanner

The same loop over one buffer with `b`, the pointer of `find_soh`, `bodylength` and
the buffer's end as the code moves them. `read` holds the offsets the last step
dereferenced. The refinement maps each pass from one reader to the next to one
step of `MessageStream` and all steps in between to stutters. An empty buffer is a
stream of which nothing can be read: the code looks at it and returns, the loop of
`MessageStream` does not get that far.

### FieldIterator

`field` is the iterator's `buffer_` and `current_`. The five actions are the ways
through `increment()`: no separator is left, the field has no `=`, a plain field, a
data field, and a data field that is not there. `IsDataLength` has the split of
the table into bitmap and sorted rest. `Next` is enabled at `end()` too: the code
allows it and `operator+` does it. A message that was written by the rules names its
fields; `WrittenAssumption` says, byte by byte, what that means: each is a tag, `=` and
a value without SOH, or a length, a tag and as many bytes as the length says.

### WriteRead

`buffer` holds the bytes from `buffer_` to `next_`; the other variables of the writer
are those of `Writer`. `Body` is the body that `try_write_message` calls: any push,
a second header or a trailer of its own among them. `TryWriteMessage` adds the
trailer and sets `endOut`, `OpenReader` makes a reader of the bytes up to it, and
`Increment` is any step of `FieldIterator`. A behavior may also begin with a message
that was received, so that the iterator meets messages no writer writes. Each value
is written by one of three functions, for a string, an int and data; the others
differ in the size they check and the text they write, which `Printing`
has. Integers, lengths and checksum are printed by `Numbers`.

`ImplementsWriter` maps a behavior to one of `Writer`: the texts to their sizes, and
the six bytes of BodyLength to the number they spell. It says that the abstraction
to sizes is one of these bytes.

A message is `Regular` if it was put together by the rules: a header with a
BeginString the reader takes, MsgType behind it, and every section with the tag and value
its kind allows. The reader's claims are about these; what is said of
a message that is only `Headed`, with such a header in front, is less, and
of the rest nothing but the writer's own bookkeeping. A capacity is below
`SizeModulus`, as the size of a span is a `size_t`.

### Groups

Fields are records of a tag and the number that its value spells. An iterator is
what `basic_group_iterator` keeps; the loops over nested groups form a stack, in
which only the innermost one advances. A loop may be left early. Where the sender
wrote one group by the rules, `sent` has the entries, and `SentAssumption` says what
the rules are.

### FieldIndex

`slots` are the buffers, `index` the views built into them. `Build` is
`build_field_index` of a message or an entry, `Lookup` is `find_with_hint` with
`value_at`. Positions and lengths are packed into halves of `HalfModulus`.
`owner` is a history: which view was built last into a buffer.

### Numbers, Calendar and Values

An integer type is its modulus; types of 8 and 16 bits stand for those of 32 and 64,
as the code is the same template. `TryAtoi`, `TryAtou` and `TryAtod` return what the
code returns and which of the caller's variables it has set. `ParseFour` and
`ParseEight` are the arithmetic on whole words, mask by mask, with the borrow of the
lower half. The bytes of a word are masked and have no sign; where the code takes '0' from
a plain `char`, a byte of 128 or more is negative (`Char`), as it is on x86, and in
`atoi_unchecked` and `atod_unchecked`, which take it from an unsigned one, it is not
(`Wrapped`). A point of time is a day, a second and a nanosecond instead of one count
of 64 bits, which TLC's integers do not hold; `TimePointToParts` and `PointOf` have
the code's order of divisions and remainders, rounded towards zero as C++ does.

In `Values` a text comes over the wire or is printed by a push; then one accessor is
called. `called` and `pushed` are histories. The reference definitions, a number as
the sum of its digits by place and a calendar counted month by month, stand before
the properties and are used by them only.

### Printing

`Writer` knows a value by its shape, the digits it takes, and `Values` by its bytes. A
`Print...` action is one `push_back_*` with both: it takes the shape of the value
(`Shape`), does what `Writer` does with that shape, and prints the text if the field was
written. `PrintedAsCounted` says that the two agree, so that what the other properties say
of sizes holds of the bytes. A value is looked at in the first call only, as what it
prints does not depend on the calls before; after it, the text is read. In the other
behaviors calls follow each other without a value, or a received value is read while
the writer rests.

### SpecGen

A document is what its visit comes across: declarations of fields and messages, the
first child of each component, and of each group the count field, the first child
and what is around it. All of a kind are visited in the order of the command line
before the next kind, which is the order of the code's loops. `fields`, `messages`,
`componentFirst`, `dedup`, `conflicts` and `groups` are its tables; `lengths` is the
array written into the header. `CannotOpen` is either output failing to open. An
entry says whether its first child is a component, which the program does not look
at: names are all it has, and that is finding 4.

## 3. The runs

| run | question | result |
|---|---|---|
| `printing` | may anything go wrong in up to four calls in any order? does each value take the bytes the writer counts? are conversions exact at the limits of their types and of the calendar, and is what is printed read back? | passes |
| `writer_small_exponent` | is the worst case of a decimal one? | **violated** |
| `stream` | frames and noise, cut anywhere: order, finality, nothing lost or invented; frames only, in a tight buffer: all of them; the loop ends | passes |
| `scanner` | reads in bounds, the scan returns and finds what `MessageStream` says | passes |
| `fields` | what is written is read, with its fields and its checksum; values lie in the message; the loop meets `end()`; the bytes follow `Writer` | passes |
| `groups` | tiling, counts, nesting, the sender's entries | passes |
| `groups_tail` | does the last entry end with the group? | **violated** |
| `index` | the index answers as the iterator does | passes |
| `values_epoch` | is every signed epoch count printed as a timestamp? | **violated** |
| `values_outs` | does an accessor that refuses a value leave the caller's variables alone? | **violated** |
| `specgen` | names, length table, delimiters and alternates are what the documents declare, the last two for every group that does not come by a field with the name of a component | passes |
| `specgen_names` | also where a field has the name of a component? | **violated** |

Each violation is one a document or comment of the repository denies; section 5.

### Bounds, and why they are enough

* **Writer.** Four calls reach header, field, failing field, trailer, and field,
  header, trailer, second trailer. Buffers of 0, 12, 39 and 60 bytes fail at the
  first call, at the second, or later; one of 1 000 080 bytes with a string of 999 980
  brings the body to either side of 999 999. Integers are the widest of 16 bits and
  the narrowest of 64. The decimals' exponents go down to minus the digits of their
  type, the limit the worst case allows for. In `printing` the first call may also be a
  decimal with a value and an exponent beyond that limit; the buffers are then so small
  that it is refused, or leave room, as the overrun is the question of
  `writer_small_exponent`.
* **Streams.** A heartbeat of 26 bytes and an order whose body holds another `9=`
  field; noise that is a letter, four letters, an SOH, the start `8=FIX`, a truncated
  message, a message with a letter for its length, one that claims 40 bytes, and one
  that claims a byte less than it has. Every stream of up to three segments goes
  through a buffer of 120 bytes, and every one of up to four frames through a buffer of
  31 bytes, exactly the longest frame. Reads of one byte cut at every place;
  reads of 29 and 200 give the reader much at once. The reader keeps nothing between
  messages but its position, so longer streams repeat these situations. `RulesAreKept`
  in `MCStream` has TLC evaluate the hypothesis of the theorems on each of them.
* **`SizeModulus`** is 2^24 instead of 2^64 (TLC's integers have 32 bits): above six
  digits, and small enough for eight digits to wrap. **`TagModulus`** is 2^16 for
  2^32, **`BitmapSize`** 98 with length tags 95 and 100 on either side of it, and
  **`HalfModulus`** 16 for 2^32, with fields on both sides of the limit.
* **Scanner.** A heartbeat with every byte replaced in turn by five values, cut
  everywhere, the empty buffer included, followed by an intact one, preceded by a
  letter; a length that is huge and one that wraps to the right value.
* **Iterator.** Received messages have up to three fields that keep the rules, or up to
  two that may break each rule; a step depends on one field and the one behind it.
  They end with a checksum field or with something else of its length; only the
  former are written by the rules.
* **Writing and reading.** Up to four calls of the body: the header with a BeginString
  that is long enough or too short, strings that are empty, hold an SOH or announce
  data, a negative number, data with separators in it and data whose length tag is
  none. In buffers of 40, 62 and 120 bytes the body does not fit, the trailer does
  not fit, or all does.
* **Values.** All texts of up to four bytes out of nine, one of them above 127, every number within two of
  a limit of 8 and 16 bits with a point at every place, fractions of 126 to 129 digits
  (the exponent of an 8-bit decimal wraps at 129), dates at the limits of supported
  years, months and days, times of every length of fraction. Pushed points are the
  first and last days of every month of years that differ in their leap days. Texts
  with other bytes than digits in the fraction of a time are not among them: the code
  passes what they come to through narrower types, which the model leaves out.
* **Generator.** Up to three declarations of fields or messages from sets that hold
  each way to be skipped, excepted or repeated, with length tags on both sides of
  `BitmapSize`; up to three groups over every way three components may begin,
  `MaxComponentDepth` being 3, so that chains are just short enough, too long, or
  circles. Files, headers and trailers differ in names only. One component may begin
  with a group that begins with a field of the component's name (`MixedNames`), beside
  another group that comes by the component, by the field, or by neither.
* **Groups.** All sequences of up to five fields out of nine, and groups of up to
  three entries written by the rules; nesting of two, as one level looks at the
  level around it only.
* **Index.** Two views that share a buffer of two slots, sources of up to three
  fields, so that the buffer is too small, just large enough and too large.

`CHECK_DEADLOCK FALSE` stands where the system stops: the writer after `MaxCalls`,
a stream at its end, a scan that has returned, a message that was refused, a value
that was read, a generator that has ended. The other runs check for deadlock.

### Fairness

`MessageStream`, `FrameScanner`, `FieldIterator` and `WriteRead` assume weak fairness of
`Next`: each is a loop in one thread that keeps running while it can. In `MessageStream` that includes
the read: `fread` returns what there is, and a stream is finite. Nothing is assumed
of which chunk a read returns, nor of which branch is taken. The body in `WriteRead`
makes a bounded number of calls, then `try_write_message` goes on by itself. `Writer`,
`Groups`, `FieldIndex`, `Values` and `Printing` are driven by a caller, and `SpecGen` is judged by
what it has done when it is done; they assume no fairness.

## 4. The proofs

tlapm checks eight modules to the last leaf. The assumptions are the `ASSUME`s of the
modules and, for two theorems on streams, a hypothesis; TLC evaluates all of them on
each instance. Every theorem holds for all values of the constants that satisfy them:
any buffer, message, stream, table, number of calls or depth.

**Searches and numbers** (`ReadingProofs`). What `FirstIn`, `FindIf` and
`FindWithHint` return, and that tags and lengths are what the loop of the code adds up:
`UnsignedSteps` says that the number of a run of digits is ten times that of all but
the last, plus the last, modulo the width, and `UnsignedDigits` that the sign of `char` does
not matter to digits. `Unsigned` is defined by a recursive
function of the position. That it exists is shown without an induction theorem, by
the least counterexample (`LeastNumber`, from the library's well-founded order on the
naturals).

**Writer** (`WriterProofs`). The invariants are not inductive alone: that success
means an exact BodyLength needs to know where the digits are and that sections tile.
`IInv` is the conjunction of

* `TypeOK`;
* `Tiling`: every section begins where the one before ends, and the last ends at
  `next`;
* `Accounting`: without an error, every call has placed one section, and success is
  reported without an error only;
* `HeaderPlaced`: if `body_length_` is set, the digits it points at end a section that
  is there, before `next`;
* `PatchInsideHeader` and `ExactBodyLength`.

`Initially` and `Preserved` give `Invariance`, and `TypeOK`, `EndToEnd`,
`NothingMissing`, `ExactBodyLength`, `PatchInsideHeader` follow. `EndToEnd`,
`PatchInsideHeader` and `AppendOnly` are what the others rest on; no run lists them,
as they are proved and `ImplementsFieldLog` or `ExactBodyLength` would fail with them.
`ErrorIsSticky` and `AppendOnly` are proved from the actions, `ImplementsFieldLog` from
`IInv`: a written section is `Write`, a refused call is `Lose`. `NoOverrun` is proved
under `ModestExponents`, that no decimal's exponent is below minus its type's
`digits10`; without it the property is false (section 5).

**Framing** (`ReadingProofs`). `VerdictStable`: a verdict other than incomplete is the
verdict on every longer buffer. This is what chunked reading rests on, and TLC can
check it only for the streams it is given. `VerdictResult`: a verdict is incomplete,
invalid, or a frame whose body, MsgType and checksum field lie in this order in the
bytes received.

**MessageStream** (`MessageStreamProofs`). `IInv` is `TypeOK`, `InOrder`, and that a
round begins with the reader at the front of the buffer. `TypeOK`, `InOrder`,
`VerdictIsFinal` (by `VerdictStable`) and `MovesForward` (by `VerdictResult`) follow.
`MovesForward` and, of the scanner, `FramesInBuffer` are proved only; no run lists
them.

`NothingInvented` and `NothingLost` are proved for streams that satisfy
`KeepsTheRules`. That is a statement about a reader that has the whole stream, at each
place between two frames; what is proved is that a reader that has any part of it,
in whichever chunks, loses and invents nothing. Neither property is inductive:
`Matched` adds that the reader is in no frame, that each delivery began where it could
begin, and that a round ends at an incomplete message. A delivery moves the reader
behind the frame the rules name; a skip stops at the next frame because it begins
with `8=FIX`, or before it, as the search leaves the last ten bytes received alone.

**FrameScanner** (`FrameScannerProofs`). `IInv` is `TypeOK`, `ReadsInBounds`,
`FramesInBuffer` and `Position`: what is known of `b`, `scan` and `length` at each
place of the code, for example that at `close` the whole frame has arrived. Only
with `Position` does it follow that the next step reads inside the buffer: the checks
and the reads they protect are several steps apart.

`ImplementsStream` needs to know what the bytes already scanned say of the verdict:
`Scanned` has, for each place of the code, the stage of `Verdict` that is left to
decide, among the digits that `length` is the number of those seen so far. Each
action either keeps it and is a stutter, or decides, and is the step of
`MessageStream` that the verdict calls for.

**FieldIterator** (`WriteReadProofs`). `ValueInMessage` is proved of every valid
message, whatever lengths its fields claim. For messages written by the rules,
`Sees` relates the position of the iterator to the history: it is at the last field it
has visited or at the checksum field, where it stays however often it is incremented.
Each part of a field (`IsText`, `IsData`) determines which action is taken and where
its searches end. `IInv` is `Shaped` and `Sees`.

**WriteRead** (`WriteReadProofs`). The three things the runs ask of writer and reader
together follow from one inductive invariant, `ReadInv`:

* `Accounted`: one section for each call as long as `error_` is not set
  (`CallsCounted`), sections one behind the other from the first byte to `next_` (`Tiled`),
  and `end_out` set behind a trailer only (`Finished`). `EndOut` follows.
* `Contents`: a first header is in the buffer as it was written, with six bytes
  for its BodyLength (`HeadWritten`), and each section has the bytes of its fields
  (`FieldsHeld`). A call appends, and only the trailer writes at an earlier place, in those
  six bytes; without `Contents` nothing could be said of a byte after the next call.
* `Closed`: behind a trailer the six bytes spell the size of the body, and the trailer's
  three digits the sum of all bytes before it. The digits of the length are
  written before the sum is taken, and are part of it.
* `Opened`: the reader's message is that buffer, and it is being read exactly if its
  verdict is a frame. `WrittenIsRead` follows from these four (`Delivered`).
* `Read`: the loop over the fields has `IInv`, of a message that was written as of one
  that was received.

That the fields of a regular message satisfy `KeepsTheRules`, the hypothesis
under which the iterator sees what was written, is a theorem here
(`RegularKeepsTheRules`) and no longer an assumption: what the iterator asks of a sender, this
writer does. It needs what a number printed and padded reads as (`NumeralReads`,
`SixDigitsRead`), that no digit is a separator, and that the checksum of a part of a
buffer depends on its bytes only. `Numeral`, `Padded` and the sums are recursive
functions; that they exist, and each of their properties, is shown by the least
counterexample.

`WritesAsWriter` is the refinement: a step of the body, of `try_write_message` or of the
reader is a call of `Writer` or none. `OutlinesGrow` says that a section added here is
one placed there; `DigitsStay`, `DigitsReserved` and `DigitsPutSay` say what becomes of the
number in BodyLength when bytes are appended, a header is written or a trailer closes the
message; `CountSizeIs` that the sizes `Writer` gives a count are the digits that are
printed. With it, what `WriterProofs` shows of sizes is a statement about bytes.

**Groups** (`GroupsProofs`). A loop is `Sound` when its positions lie in its view
(`Bounded`), what remains and what was given add up to the count (`Counted`), the
entries given tile (`Tiled`), and no delimiter before the reach of the entries begins
none of them (`Begun`). `NestedInside` follows from `Inside`, which compares the view
of a loop with the current entry of the one around it and survives because only the
innermost loop advances. `AsSent` relates the outermost loop to the sender's entries.

**FieldIndex** (`FieldIndexProofs`). `AsBuilt` says that the count and the flags of an
index follow from its source, `Holds` that its slots are the source's first fields as
long as no other index was built into the buffer. Looking up then is a search of
the same tags in the same order; `PackUnpack` says that position and length survive
being packed into one number.

**SpecGen** (`SpecGenProofs`). What the properties say of a table that is finished is not
inductive: it has to be said of a table that is half read. `IInv` has a part for each
table, of the entries read so far:

* `TypeOK`, and `FieldsRead`: the type of a field is that of its first declaration;
* `FieldNamesKept` and `MessageNamesKept`: names in the order of their first place;
* `PhasesKept`: what has been read in which phase, and that `lengths` ascends and has
  the length fields once it is written;
* `ComponentsRead` and `GroupsRead`: what is kept of a component or a group is what its
  first declaration says;
* `AlternatesRead`: while groups are collected, the alternates are the first names of
  the occurrences read, each once, in the order of appearance and with its contexts;
  when they are resolved, the same of the fields these names lead to.

Each part has a lemma for each action that may disturb it. The rest are arguments about
the finished tables. `LowerBoundResult` is the binary search: what is left shrinks, and
all before it is less, all behind it not; `LengthTableExact` is that of both halves of
the reader's table. `PathGoes` and `ChaseEnds` turn the chase into a path of first children
and back. The program follows names, a path follows children; they part where a field or
group has the name of a component. `DistinctNames` says of one child that the paths from it
come by no such place, and under it a path and a chase of the same length meet the same
names; one that comes back to a name it has been at never ends, and neither finds a
leaf. It is asked of each group by itself: `DelimitersAreLeaves` assumes it of the group's
first occurrence, `ConflictsAreExact` of all its occurrences, so that a clash elsewhere in a
specification, as that of RateSource in FIX50SP2 (finding 4), takes no other group out of
the theorems. `ConflictsAreExact` counts: alternates and the fields
occurrences start with are in bijection (`Counting`). The recursive functions in the
model (the chase, the merged alternates, the halves of the search) are shown to exist
as `Unsigned` is, by the least counterexample.

The assumptions are those of `SpecGen`: a specification is a finite sequence of each kind
of entry, a tag is an integer, and the depth limit is positive.

**Only model-checked.**

* Liveness: `LoopEnds`, `EverythingDelivered`, `Returns`, `Ends`. It needs `ENABLED`.
  `MovesForward` and the bounds of the positions are the safety part of it.
* `NumbersExact`, `DatesExact` and `ReadBack` of `Values`, and `PrintedAsCounted` of `Printing`:
  what the conversions compute is defined by recursion over the digits, and the
  parallel ones by divisions and remainders of words, masked and added; neither has been
  proved to come to the reference definitions. Of `Numbers`, what tags, lengths, counts and
  checksums are printed with is proved, as `WriteRead` needs it. What `Writer` says of
  sizes is proved, that these are the sizes of the bytes is proved for the values
  of `WriteRead` and checked for all others.

## 5. Where code and documents differ

1. **A decimal may overrun the buffer** (773, run `writer_small_exponent`). The check
   reserves the digits of the mantissa's type. `dtoa_unchecked` (369-385) prints
   zeros until a digit stands before the point: exponent -18 of a 16-bit mantissa
   prints 20 characters into a room of 7. The README calls the check one against
   "the field's worst-case byte count".
2. **Time points before 1970 are printed with bytes that are no digits** (532, run
   `values_epoch`). The remainder of the day is negative there, and
   `itoa_padded_unchecked` prints `'0'` plus a negative remainder. Line 1014 documents
   the function for "signed epoch milliseconds".
3. **The last entry of a group takes all that follows** (2208, run `groups_tail`).
   `src/README.md:603` says that it does not.
4. **A field with the name of a component is taken for the component**
   (`src/utils/fixspec-gen-fields/fixspec-gen-fields.cpp:238`, run `specgen_names`). The
   names of both are looked up in one table. In `src/fixspec/FIX50SP2.xml:9815` the
   component RateSource begins with the group NoRateSources, whose first field is
   RateSource, and `src/include/hffix_groups.hpp:402` registers NoRateSources as its own
   delimiter. `src/README.md:574` says the delimiter is the first tag of the entry.
5. **A time that is refused has set hour, minute and second** (425, run `values_outs`).
   `atotime_nano` sets them before it refuses a fraction of another length than 3, 6
   or 9, the missing one among them; `as_timeonly_nano` and `as_timestamp_nano` pass the
   caller's variables to it. Their documentation (1352, 1372) says "Out-params set only on
   success". The other accessors keep to it (`RefusedSetsNothing` in `DatesExact`).

Without a run, as the text concerned is no promise of what is computed, or the
difference shows in a single line:

* When a buffer ends with the 9 of BodyLength, `b` moves two past `buffer_end_` (2018).
  Nothing is read there (`ReadsInBounds`). The comment at 1983 calls the same kind of
  step undefined behaviour.
* The documentation of `is_valid` (1767) says that the first field is BeginString. What
  stands before the first SOH is never compared, so that up to three bytes of noise
  become part of a valid message; `NothingInvented` says that it is no more.
* A miss of the indexed `find_with_hint` sets a hint beyond the fields to 0 (2535);
  line 2520 says that a miss leaves it. `AgreesWithIterator` says what it is set to.
* Lines 1227 and 1293 say that `try_as_decimal` and `try_as_int` do not detect overflow.
  They do, exactly (`NumbersExact`).
* `src/README.md:497-499` says that the overload of `as_timestamp` with int parameters
  bounds month and day. It bounds neither (1363-1379).
* The day of a month is checked up to 31 for every month (470-472): 30 February means
  2 March or 1 March (`DatesExact` states this).
* `dtoa_unchecked` prints nothing for a positive exponent, so that 5 times 10 to the 2
  is printed as 5.
* The comment at line 279 of the generator says that alternates are resolved "so the
  conflict comment shows real field names". One that leads nowhere keeps the name of
  its component.

## 6. Limits of the models

* In `Writer` contents are sizes. `Printing` has the texts of all values of a first call,
  `WriteRead` those of a whole message for three of the push functions.
* Lengths of strings and data are below 2^31 (`LengthAssumption`): `push_back_data` prints
  the length as an `int` (1045), which a longer one is not.
* `char` is signed, as on x86; where it is not, bytes of 128 and above read differently in
  `atou` and in the parsers of two digits.
* `NamesKept` is about the names of one tag or message type. That two tags are given the
  same name, which makes a header that does not compile, the program does not look for.
* Of `message_range` the models have the loop, not the comparison of its iterators and
  `remainder()`.
* `init()` does not look at the checksum, and neither does `Framing`; `WriteRead` has the
  checksum of messages that were written.
* In `Values` a time point is not one number of 64 bits, so that arithmetic that leaves
  its range is out of reach; the supported years keep clear of it.
* `SpecGen` does not model documents that do not parse, the warnings, nor the layout of
  the headers.
* In `Resync`, both in the code and in the models, the case of fewer than ten bytes
  never occurs for an invalid message: only ten bytes can make one invalid. The
  guard is kept, as the code has it.
* `MessageStream` reads until the input ends; a read that fails for another reason
  looks the same to the code.
* Loops over nested groups end in the order opposite to that in which they began, as
  range-based `for` loops do.
* The hint of another message or entry, in `find_with_hint` on iterators, is a
  precondition the code leaves to its caller; only hints of the same range are used.
* An older index is judged only as long as no other was built into its buffer: the
  code documents no result for it.
* The index of an invalid reader and of an empty entry are not built; both are empty.
* Tags of ten or more digits wrap around, in the code and in `FieldIterator`; no
  property says what they should be.

### Not modelled

* *Views over values* (`as_string_view`, comparison, `begin`, `end`) keep no state and
  compute nothing.
* *The counter of failed assertions* (100-114): every operation is one atomic access of
  one variable, so that interleavings do nothing a sequence would not. A caller who
  reads and then resets it loses what fails in between; the code gives no way to
  tell, and no promise.
* *Generated tables* (`hffix_fields.hpp`, `hffix_groups.hpp`; more than 13 000 of the
  17 500 lines of the implementation) are constants. `SpecGen` has how they come about.
* *`fixgen`*, the printing in *`fixprint`*, tests, fuzzers and benchmarks call the library;
  build files and scripts have no behaviour at run time.
* A tag of ten or more digits, an index of an invalid reader, a hint of another
  message's iterators, a value that is empty or absent: see above; the code
  documents no result.

The generated tables and the callers are the reason that the map covers an eighth of
all lines: of `hffix.hpp` it covers all that has state or computes, of the generator
all but its printing.

## 7. Plan

Written in the order of importance: what is written past a buffer or lost on the
network first, what is misread later.

1. *Done*: `Writer` and `FieldLog`; `Framing`, `MessageStream`, `FrameScanner`;
   `FieldIterator`; `Groups`; `FieldIndex`.
2. *Done*: the conversions (`Numbers`, `Calendar`, `Values`), the composition of writer,
   reader and iterator (`WriteRead`), and the generator (`SpecGen`).
3. *Done*: the proofs of the modules under 1, of `SpecGen`, and of `WriteRead` with its
   refinement of `Writer`.
4. *Done*: what the writer counts and what it prints, side by side (`Printing`).
5. *Left*: proofs of what the conversions of `Values` compute. `Unsigned` and `Numeral` show
   the way (section 4); for the arithmetic on whole words the lanes have to be separated
   first.
