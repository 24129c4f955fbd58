------------------------------- MODULE MCPcomm -------------------------------
(***************************************************************************)
(* Finite instances of Pcomm.                                              *)
(***************************************************************************)
EXTENDS Pcomm

\* One listener.
MCListeners == <<1>>
==============================================================================
