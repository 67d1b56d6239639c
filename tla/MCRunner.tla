------------------------------ MODULE MCRunner -------------------------------
(***************************************************************************)
(* TestRunner for TLC: the constants are in the .cfg.                       *)
(***************************************************************************)
EXTENDS TestRunner
=============================================================================
