------------------------------ MODULE MCNetReq ------------------------------
(***************************************************************************)
(* Finite instances of NetReq.                                             *)
(***************************************************************************)
EXTENDS NetReq
==============================================================================
