------------------------ MODULE MCMigrationTransfers ------------------------
(* A small instance of MigrationTransfers for TLC.                         *)
EXTENDS MigrationTransfersInv, TLC

\* Parts are interchangeable.
Symmetry == Permutations(Part)
============================================================================
