------------------------------ MODULE FieldLog ------------------------------
(***************************************************************************)
(* What hffix::message_writer promises its caller, without buffers, byte   *)
(* counts or pointers (src/README.md, "Writing messages"): a log of the    *)
(* sections of one message that either holds every section the caller has  *)
(* asked for, or has failed for good and never grows again.  The caller    *)
(* may be told that the message is finished only when nothing is missing.  *)
(***************************************************************************)
EXTENDS Naturals, Sequences

VARIABLES
  log,      \* the sizes of the sections written so far, oldest first
  calls,    \* how many sections the caller has asked for
  failed,   \* the sticky error flag
  told      \* what the caller learnt from its last call

logVars == <<log, calls, failed, told>>

Init ==
  /\ log = <<>>
  /\ calls = 0
  /\ failed = FALSE
  /\ told = "none"

\* A section is written whole; the caller learns of success only for the
\* trailer, and then everything it asked for is in the log.
Write(seal) ==
  /\ ~failed
  /\ Len(log) = calls
  /\ Len(log') = Len(log) + 1
  /\ \A i \in 1 .. Len(log) : log'[i] = log[i]
  /\ calls' = calls + 1
  /\ told' = IF seal THEN "ok" ELSE "none"
  /\ UNCHANGED failed

\* A section is lost whole, and with it the message.
Lose(seal) ==
  /\ failed' = TRUE
  /\ calls' = calls + 1
  /\ told' = IF seal THEN "failed" ELSE "none"
  /\ UNCHANGED log

Next ==
  \E seal \in BOOLEAN : Write(seal) \/ Lose(seal)

Spec == Init /\ [][Next]_logVars
=============================================================================
