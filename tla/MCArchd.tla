------------------------------- MODULE MCArchd -------------------------------
(***************************************************************************)
(* Finite instances of Archd.                                              *)
(***************************************************************************)
EXTENDS Archd

CONSTANTS f1, f2, c1, c2

\* A feeder that waits, and one that does not and also sends a command.
IngestScript == (f1 :> <<"log">>) @@ (f2 :> <<"log", "control", "data">>)

\* Their LOG channels begin with the same letters.
IngestPrefix == (f1 :> 1) @@ (f2 :> 1)

\* One feeder with records for the telemetry clients.
RelayScript == f1 :> <<"data", "log", "data">>
RelayPrefix == f1 :> 1
==============================================================================
