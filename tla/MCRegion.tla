------------------------------- MODULE MCRegion -------------------------------
(* Instances of Region for TLC. *)
EXTENDS Region, TLC

RgSymmetry == Permutations(RgId)
=============================================================================
