---------------------------- MODULE MCRumination ----------------------------
(* A small instance of Rumination. *)
EXTENDS Rumination
CONSTANTS a, b
=============================================================================
