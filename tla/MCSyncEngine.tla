--------------------------- MODULE MCSyncEngine ---------------------------
(* Small instances of SyncEngine for TLC.                                  *)
EXTENDS SyncEngineInv

Distances == <<2, 3>>
RepairSteps == <<1, 2>>
============================================================================
