------------------------------- MODULE MCScripts -------------------------------
(***************************************************************************)
(* Scripts with two scales and two probes at once.                         *)
(***************************************************************************)
EXTENDS Scripts

TwoScales == {1, 2}
=============================================================================
