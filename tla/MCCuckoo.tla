------------------------------ MODULE MCCuckoo ------------------------------
(***************************************************************************)
(* Cuckoo on every address function of a small instance.  NumBins is what  *)
(* PsiParty::setBinsParameters computes: ceil(1.2 * NumEles).              *)
(***************************************************************************)
EXTENDS Cuckoo

ASSUME BinsAsInCode == NumBins = (12 * NumEles + 9) \div 10
=============================================================================
