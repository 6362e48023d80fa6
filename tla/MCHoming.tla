------------------------------ MODULE MCHoming ------------------------------
(***************************************************************************)
(* Two axes, one with its switch at either end, that may overrun it by one  *)
(* step, and switches that work, never engage or never release.             *)
(***************************************************************************)
EXTENDS Homing

TwoAxes == <<"x", "y">>
=============================================================================
