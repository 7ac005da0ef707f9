-------------------------- MODULE MCMigrationLocks --------------------------
(* A small instance of MigrationLocks for TLC.                             *)
EXTENDS MigrationLocks, TLC
============================================================================
