---------------------------- MODULE MCModelBundle -----------------------------
(* Instances of ModelBundle for TLC.                                         *)
EXTENDS ModelBundle, TLC

MCSymmetry == Permutations(Jobs)
=============================================================================
