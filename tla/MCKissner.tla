----------------------------- MODULE MCKissner -----------------------------
(***************************************************************************)
(* Kissner with four parties, the second of which leads, and sets of two   *)
(* elements: polynomials of three coefficients, of five around the ring.   *)
(* A connection has room for a whole polynomial or for one number less.    *)
(***************************************************************************)
EXTENDS Kissner
=============================================================================
