------------------------------ MODULE MCLaunch ------------------------------
(***************************************************************************)
(* Launch with three parties of one or two cores each, in an OT_MPSI or a  *)
(* KISSNER_MPSI experiment; the first two may die.                         *)
(***************************************************************************)
EXTENDS Launch
=============================================================================
