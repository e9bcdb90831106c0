--------------------------- MODULE MCPredictThreads ---------------------------
(* Instances of PredictThreads for TLC: the threads are interchangeable.     *)
EXTENDS PredictThreads, TLC

MCSymmetry == Permutations(Threads)
=============================================================================
