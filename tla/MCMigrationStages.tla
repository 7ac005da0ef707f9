------------------------ MODULE MCMigrationStages ------------------------
(* A root stage and a dependent stage with the prepared notes.             *)
EXTENDS MigrationStagesInv

MCParent == [s \in Stage |-> IF s = "leaf" THEN {"root"} ELSE {}]
MCFinal == {"leaf"}
MCExpiry == [s \in Stage |-> IF s = "leaf" THEN 4 ELSE 3]
==========================================================================
