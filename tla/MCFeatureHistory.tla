---------------------------- MODULE MCFeatureHistory ----------------------------
(* Instances of FeatureHistory: the writers are interchangeable. *)
EXTENDS FeatureHistory, TLC

CONSTANTS w1, w2

MCSymmetry == Permutations({w1, w2})
================================================================================
