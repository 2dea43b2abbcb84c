------------------------------ MODULE Printing ------------------------------
(***************************************************************************)
(* The writer and the values it prints.  Writer.tla knows a value by the   *)
(* number of bytes it takes, Values.tla by the bytes; here a push_back     *)
(* function does both, and what it printed is read back by an accessor.    *)
(*                                                                         *)
(* A behavior is a sequence of calls on one writer, or its first call with *)
(* a value that is looked at byte by byte and then read, or a value that   *)
(* was received and is read while the writer rests.                        *)
(***************************************************************************)
EXTENDS Writer, Values

PrintingInit ==
  /\ Init /\ ValueInit
  /\ text # <<>> => cap = CHOOSE size \in BufferSizes : TRUE

----------------------------------------------------------------------------
(* Shapes of numbers: the smallest type that holds them, and their digits *)

Digits10(n) == IF InType(n, 256) THEN 2 ELSE IF InType(n, 65536) THEN 4 ELSE 9
Shape(n) == [digits10 |-> Digits10(n), digits |-> CountSize(Size(n)), neg |-> n < 0]
DecimalShape(n, e) == Shape(n) @@ [exponent |-> e]

\* A call on the writer prints the value where there is room for it.
Written(push) == IF placed' = placed THEN UNCHANGED valueVars ELSE push

PrintInt(t) ==
  \E n \in Integers : PushBackInt(t, Shape(n)) /\ Written(PushInt(n))
PrintDecimal(t) ==
  \E n \in Mantissas, e \in Exponents :
    PushBackDecimal(t, DecimalShape(n, e)) /\ Written(PushDecimal(n, e))
PrintDate(t) ==
  \E tp \in Civil : PushBackDate(t) /\ Written(PushDate(tp))
PrintMonthYear(t) ==
  \E tp \in Civil : PushBackMonthYear(t) /\ Written(PushMonthYear(tp))

PushBackTimeOnlyOf(t, width) ==
  \/ width = 0 /\ PushBackTimeOnly(t)
  \/ width = 3 /\ PushBackTimeOnlyMillis(t)
  \/ width = 9 /\ PushBackTimeOnlyNano(t)
PrintTimeOnly(t) ==
  \E time \in Times, width \in Widths :
    PushBackTimeOnlyOf(t, width) /\ Written(PushTimeOnly(time, width))

PushBackTimestampOf(t, width) ==
  \/ width = 0 /\ PushBackTimestamp(t)
  \/ width = 3 /\ PushBackTimestampMillis(t)
  \/ width = 9 /\ PushBackTimestampNano(t)
PrintTimestamp(t) ==
  \E width \in Widths : \E tp \in Takes(width) :
    PushBackTimestampOf(t, width) /\ Written(PushTimestamp(tp, width))

----------------------------------------------------------------------------
(* The specification *)

\* Calls on the writer, with no value looked at.
CallWriter == NothingYet /\ Next /\ UNCHANGED valueVars

\* The first call, with a value.
PrintFirst ==
  /\ NothingYet /\ calls = 0
  /\ \E t \in TagDigits :
       \/ PrintInt(t) \/ PrintDecimal(t)
       \/ PrintDate(t) \/ PrintMonthYear(t)
       \/ PrintTimeOnly(t) \/ PrintTimestamp(t)

\* An accessor, on what was printed or received.
Read ==
  /\ calls = 0 \/ pushed # Untouched
  /\ ReadAny
  /\ UNCHANGED vars

PrintingNext == CallWriter \/ PrintFirst \/ Read
PrintingSpec == PrintingInit /\ [][PrintingNext]_<<vars, valueVars>>

----------------------------------------------------------------------------
(* Properties *)

\* Every push_back function puts as many bytes in the buffer as its value takes
\* when it is printed, with the tag, '=' and SOH; so what NoOverrun,
\* ExactBodyLength and the log say of sizes holds of the bytes, the zeros of a
\* decimal and the padding of dates and times among them.
PrintedAsCounted ==
  pushed # Untouched =>
    \E t \in TagDigits :
      placed = <<[kind |-> "field", at |-> 0, size |-> t + 1 + Len(text) + 1]>>
=============================================================================
