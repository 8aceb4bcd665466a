--------------------------- MODULE KeyAgreementMC ---------------------------
(***************************************************************************)
(* KeyAgreement for TLC: initiators are told apart by what they derive only, *)
(* so permuting them is sound.                                              *)
(***************************************************************************)
EXTENDS KeyAgreement

InitiatorSymmetry == Permutations(Initiator)
=============================================================================
