----------------------------- MODULE MCDiskLoop -----------------------------
(***************************************************************************)
(* Finite instances of DiskLoop.                                           *)
(***************************************************************************)
EXTENDS DiskLoop
==============================================================================
