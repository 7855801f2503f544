------------------------------ MODULE MCClient ------------------------------
(***************************************************************************)
(* The client with four requests: enough for threads before, in and past   *)
(* the barrier at once, with main still creating or already joining.       *)
(***************************************************************************)
EXTENDS Client
=============================================================================
