------------------------------ MODULE MC_Streams ------------------------------
(***************************************************************************)
(* An instance of Streams for TLC.                                         *)
(***************************************************************************)
EXTENDS Streams

CONSTANTS v1, v2
=============================================================================
