-------------------------- MODULE MCRuntimeSession --------------------------
(* A small instance of RuntimeSession. *)
EXTENDS RuntimeSession
CONSTANTS p1, p2
=============================================================================
