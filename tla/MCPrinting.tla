----------------------------- MODULE MCPrinting -----------------------------
(* The instances of MCWriter and MCValues, side by side. *)
EXTENDS Printing, MCWriter, MCValues
=============================================================================
