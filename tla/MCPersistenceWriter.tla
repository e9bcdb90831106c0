------------------------- MODULE MCPersistenceWriter -------------------------
(* Instances of PersistenceWriter for TLC.  Connections and writers are      *)
(* interchangeable and no liveness is checked, so both are symmetric.        *)
EXTENDS PersistenceWriter, TLC

MCSymmetry == Permutations(Conns) \union Permutations(Writers)
=============================================================================
