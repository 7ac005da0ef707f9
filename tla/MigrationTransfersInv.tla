----------------------- MODULE MigrationTransfersInv -----------------------
(***************************************************************************)
(* The inductive invariant of MigrationTransfers.                          *)
(***************************************************************************)
EXTENDS MigrationTransfers

\* The network has at most one transaction for a note, signed once and not
\* expired; what the wallet scanned it has stored.
NetworkInv ==
    /\ \A t \in mempool : mined[t.part].at = 0 /\ t.expiry > tip /\ t.gen < born[t.part]
    /\ \A t, u \in mempool : t.part = u.part => t = u
    /\ \A p \in Part : mined[p].tx.part = p /\ mined[p].at <= tip
    /\ \A p \in Part : mined[p].at > 0 => mined[p].tx.gen < born[p]
    /\ \A p \in Part : mined[p].at \in 1 .. scanned => mined[p].tx \in stored

\* A row's transaction was signed, was attempted if the network can know it,
\* and is in the wallet database if it is confirmed.
RowInv ==
    \A p \in Part : row[p].status # "none" =>
        /\ row[p].tx.gen < born[p]
        /\ Known(row[p].tx) => row[p].tried
        /\ row[p].status = "confirmed" => row[p].tx \in stored

\* Where a pass goes on only if no accepted transaction is missing locally.
StoreChecked == {"policy", "expiry", "rebuild", "due", "attempt", "submit", "answer"}

\* A scheduled transaction that the network knows is among txs.
KnownAreIn(txs) ==
    \A p \in Part : row[p].status = "scheduled" /\ Known(row[p].tx) => row[p].tx \in txs

\* What the foreground operation found out still holds.
PassInv ==
    /\ pass.tip <= tip
    /\ pass.pc \in {"attempt", "submit"} => pass.tx.gen < born[pass.tx.part]
    /\ pass.pc = "submit" =>
          \A p \in Part : row[p].status # "none" /\ row[p].tx = pass.tx => row[p].tried
    /\ pass.pc \in StoreChecked => Missing = {}
    /\ pass.pc = "ask" => KnownAreIn(pass.ask \cup stored)
    /\ pass.pc = "abandon" => KnownAreIn(stored)

TransferInv ==
    /\ TypeOK /\ NetworkInv /\ RowInv /\ PassInv
    /\ CompleteMeansMigrated /\ RetiredRunIsStored
============================================================================
