-------------------------- MODULE MCAdditiveShare --------------------------
(***************************************************************************)
(* AdditiveShare with four parties, one of which may die at any point.     *)
(***************************************************************************)
EXTENDS AdditiveShare
=============================================================================
