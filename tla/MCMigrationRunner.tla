-------------------------- MODULE MCMigrationRunner --------------------------
(* Instances of MigrationRunner for TLC: files 1 and 3 define the shared     *)
(* constraint, file 2 is one without a transaction of its own.               *)
EXTENDS MigrationRunner, TLC

MCWrapped  == {1, 3}
MCDefiners == {1, 3}
MCSymmetry == Permutations(Runners)
=============================================================================
