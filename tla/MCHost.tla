------------------------------- MODULE MCHost -------------------------------
(***************************************************************************)
(* The instance of Host for TLC: a run of two calls.                       *)
(***************************************************************************)
EXTENDS Host

TwoCalls == 2
=============================================================================
