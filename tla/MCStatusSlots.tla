---------------------------- MODULE MCStatusSlots ----------------------------
(***************************************************************************)
(* A finite instance of StatusSlots.                                       *)
(***************************************************************************)
EXTENDS StatusSlots
==============================================================================
