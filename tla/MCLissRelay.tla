----------------------------- MODULE MCLissRelay -----------------------------
(***************************************************************************)
(* A finite instance of LissRelay.                                         *)
(***************************************************************************)
EXTENDS LissRelay
==============================================================================
