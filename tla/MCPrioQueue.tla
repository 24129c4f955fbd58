----------------------------- MODULE MCPrioQueue -----------------------------
(***************************************************************************)
(* Finite instances of PrioQueue.                                          *)
(***************************************************************************)
EXTENDS PrioQueue, TLC

\* Records are interchangeable.
Symmetry == Permutations(Data)
==============================================================================
