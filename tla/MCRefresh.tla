----------------------------- MODULE MCRefresh -----------------------------
(***************************************************************************)
(* Instances of Refresh for TLC: three visitors press the button at once.  *)
(***************************************************************************)
EXTENDS Refresh

Visitors == {"r1", "r2", "r3"}
=============================================================================
