----------------------------- MODULE MCTrendHistory -----------------------------
(* Instances of TrendHistory: the writers are interchangeable. *)
EXTENDS TrendHistory, TLC

CONSTANTS w1, w2, w3

MCSymmetry == Permutations({w1, w2, w3})
================================================================================
