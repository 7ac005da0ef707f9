---------------------- MODULE MigrationTransfersProofs ----------------------
(***************************************************************************)
(* The safety properties of MigrationTransfers, for any number of parts,   *)
(* signatures, windows, delays, blocks and failures.                       *)
(*                                                                         *)
(* Most steps only move rows from one status to another: RowsMove says     *)
(* what such a step may do to a row, and the first lemmas that no such     *)
(* step disturbs the invariant.  The steps that sign, send, store or mine  *)
(* follow one by one.                                                      *)
(***************************************************************************)
EXTENDS MigrationTransfersInv, TLAPS

----------------------------------------------------------------------------
(* Constants and records                                                   *)

\* The bounds, one by one.
LEMMA Bounds ==
    /\ Part # {} /\ Window \in Nat /\ Window > 0 /\ Depth \in Nat /\ Depth >= 2
    /\ SafetyBlocks \in Nat /\ MaxDelay \in Nat /\ MaxHeight \in Nat /\ MaxHeight >= 1
    /\ MaxGen \in Nat /\ MaxFaults \in Nat
BY TransferConstants

PassType ==
    [pc : Steps, tip : 0 .. MaxHeight, resume : BOOLEAN, tx : Tx, ask : SUBSET Tx,
     outcome : {"none", "accepted", "rejected", "ambiguous"}]

\* The canonical expiry of a height that can be scheduled.
LEMMA CanonicalBound ==
    ASSUME NEW h \in 0 .. MaxHeight + MaxDelay
    PROVE  Canonical(h) \in Height
<1>1. h \in Nat /\ h <= MaxHeight + MaxDelay
  BY Bounds
<1>2. h % Window \in Nat /\ h % Window <= h
  BY <1>1, Bounds
<1> QED
  BY <1>1, <1>2, Bounds DEF Canonical, Height

\* A height is before its canonical expiry.
LEMMA CanonicalIsLater ==
    ASSUME NEW h \in Nat
    PROVE  Canonical(h) \in Nat /\ h < Canonical(h)
<1>1. h % Window \in 0 .. Window - 1 /\ h % Window <= h
  BY Bounds
<1>2. CASE h % Window = 0
  BY <1>2, Bounds DEF Canonical
<1>3. CASE h % Window # 0
  BY <1>1, <1>3, Bounds DEF Canonical
<1> QED
  BY <1>2, <1>3

\* No transaction yet.
LEMMA NoTxOK ==
    ASSUME NEW p \in Part
    PROVE  NoTx(p) \in Tx /\ NoTx(p).part = p /\ NoRow(p) \in Row
<1>1. 0 \in 0 .. MaxGen /\ 0 \in Height
  BY Bounds DEF Height
<1>2. NoTx(p) \in Tx /\ NoTx(p).part = p
  BY <1>1 DEF NoTx, Tx
<1> QED
  BY <1>1, <1>2 DEF NoRow, Row, Statuses

\* The state between two foreground operations.
LEMMA IdleOK ==
    /\ Idle \in PassType /\ Idle.pc = "idle" /\ Idle.tip = 0 /\ NoRedraw \in [txs : SUBSET Tx, tip : 0 .. MaxHeight]
<1>1. AnyTx \in Tx
  <2>1. PICK p \in Part : TRUE
    BY Bounds
  <2>2. NoTx(p) \in Tx /\ NoTx(p).gen = 0 /\ NoTx(p).expiry = 0
    BY NoTxOK DEF NoTx
  <2> QED
    BY <2>2 DEF AnyTx
<1>2. 0 \in 0 .. MaxHeight
  BY Bounds
<1> QED
  BY <1>1, <1>2 DEF Idle, PassType, NoRedraw, Steps

\* A row signed now.
LEMMA SignedRowOK ==
    ASSUME TypeOK, NEW p \in Part, NEW d \in 0 .. MaxDelay, born[p] <= MaxGen
    PROVE  /\ SignedRow(p, d) \in Row /\ SignedRow(p, d).tx.part = p
           /\ SignedRow(p, d).tx.gen = born[p] /\ SignedRow(p, d).status = "scheduled"
<1>1. tip \in Height /\ tip + d \in Height /\ tip + d \in 0 .. MaxHeight + MaxDelay
  BY Bounds DEF TypeOK, Height
<1>2. born[p] \in 0 .. MaxGen
  BY Bounds DEF TypeOK
<1>3. Canonical(tip + d) \in Height
  BY <1>1, CanonicalBound
<1>4. [part |-> p, gen |-> born[p], expiry |-> Canonical(tip + d)] \in Tx
  BY <1>2, <1>3 DEF Tx
<1> QED
  BY <1>1, <1>4 DEF SignedRow, Row, Statuses

\* A pass goes to another step.
LEMMA GotoOK ==
    ASSUME TypeOK, NEW step \in Steps, Goto(step)
    PROVE  /\ pass' \in PassType /\ pass'.pc = step /\ pass'.tip = pass.tip
           /\ pass'.tx = pass.tx /\ pass'.ask = pass.ask
<1>1. pass \in PassType
  BY DEF TypeOK, PassType
<1> QED
  BY <1>1 DEF Goto, PassType

----------------------------------------------------------------------------
(* Steps that move rows                                                    *)

\* A row keeps its transaction, and what a change of its status means.
RowChanges(p, new) ==
    /\ new \in Row /\ new.tx = row[p].tx /\ (row[p].tried => new.tried)
    /\ new.status = "none" <=> row[p].status = "none"
    /\ new.status = "scheduled" => row[p].status \in {"scheduled", "confirmed"}
    /\ new.status = "confirmed" => row[p].status = "confirmed" \/ Identity(row[p].tx)
RowsChange(rows) == rows \in [Part -> Row] /\ \A p \in Part : RowChanges(p, rows[p])

\* The same, and nothing is recorded as accepted.
RowMoves(p, new) ==
    RowChanges(p, new) /\ (new.status = "broadcasted" => row[p].status = "broadcasted")
RowsMove(rows) == rows \in [Part -> Row] /\ \A p \in Part : RowMoves(p, rows[p])

\* A row that is not touched.
LEMMA StillMoves ==
    ASSUME TypeOK, NEW p \in Part
    PROVE  RowMoves(p, row[p])
BY DEF RowMoves, RowChanges, TypeOK

\* reconcile_run_confirmations moves rows.
LEMMA ReconcileMoves ==
    ASSUME TypeOK
    PROVE  RowsMove(ReconciledRows)
<1>1. CASE phase \in Terminal
  BY <1>1, StillMoves DEF ReconciledRows, RowsMove, TypeOK
<1>2. CASE phase \notin Terminal
  <2>1. ReconciledRows = [p \in Part |-> ReconciledRow(p)]
    BY <1>2 DEF ReconciledRows
  <2>2. ASSUME NEW p \in Part PROVE RowMoves(p, ReconciledRow(p))
    <3>1. row[p] \in Row
      BY DEF TypeOK
    <3>2. CASE row[p].status \in {"scheduled", "broadcasted"} /\ Identity(row[p].tx)
      <4>1. ReconciledRow(p) = [row[p] EXCEPT !.status = "confirmed"]
        BY <3>2 DEF ReconciledRow
      <4> QED
        BY <3>1, <3>2, <4>1 DEF RowMoves, RowChanges, Row, Statuses
    <3>3. CASE row[p].status = "confirmed" /\ ~Identity(row[p].tx)
      <4>1. ReconciledRow(p) = [row[p] EXCEPT !.status = "scheduled", !.sched = row[p].target]
        BY <3>3 DEF ReconciledRow
      <4> QED
        BY <3>1, <3>3, <4>1 DEF RowMoves, RowChanges, Row, Statuses
    <3>4. CASE /\ ~(row[p].status \in {"scheduled", "broadcasted"} /\ Identity(row[p].tx))
               /\ ~(row[p].status = "confirmed" /\ ~Identity(row[p].tx))
      <4>1. ReconciledRow(p) = row[p]
        BY <3>4 DEF ReconciledRow
      <4> QED
        BY <4>1, StillMoves
    <3> QED
      BY <3>2, <3>3, <3>4
  <2>3. \A p \in Part : ReconciledRow(p) \in Row
    BY <2>2 DEF RowMoves, RowChanges
  <2> QED
    BY <2>1, <2>2, <2>3 DEF RowsMove
<1> QED
  BY <1>1, <1>2

\* A scheduled or broadcast row is to be signed again.
LEMMA ResignMoves ==
    ASSUME NEW p \in Part, NEW r, RowMoves(p, r), r.status \in {"scheduled", "broadcasted"}
    PROVE  RowMoves(p, [r EXCEPT !.status = "needs_resign"])
BY DEF RowMoves, RowChanges, Row, Statuses

\* Expired parts are marked.
LEMMA MarkExpiredMoves ==
    ASSUME TypeOK, NEW h, MarkExpired(h)
    PROVE  RowsMove(row')
<1>1. row' = [p \in Part |-> IF ExpiredForResign(ReconciledRows[p], h)
                 THEN [ReconciledRows[p] EXCEPT !.status = "needs_resign"] ELSE ReconciledRows[p]]
  BY DEF MarkExpired, Resigned
<1>2. ASSUME NEW p \in Part PROVE RowMoves(p, row'[p])
  <2>1. RowMoves(p, ReconciledRows[p])
    BY ReconcileMoves DEF RowsMove
  <2>2. CASE ExpiredForResign(ReconciledRows[p], h)
    <3>1. ReconciledRows[p].status \in {"scheduled", "broadcasted"}
      BY <2>2 DEF ExpiredForResign
    <3> QED
      BY <1>1, <2>1, <2>2, <3>1, ResignMoves
  <2>3. CASE ~ExpiredForResign(ReconciledRows[p], h)
    BY <1>1, <2>1, <2>3
  <2> QED
    BY <2>2, <2>3
<1>3. \A p \in Part : row'[p] \in Row
  BY <1>2 DEF RowMoves, RowChanges
<1> QED
  BY <1>1, <1>2, <1>3 DEF RowsMove

\* Due parts that missed their window are marked.
LEMMA MarkNoncanonicalMoves ==
    ASSUME TypeOK, NEW h, MarkNoncanonical(h)
    PROVE  RowsMove(row')
<1>1. row' = [p \in Part |-> IF NoncanonicalDue(ReconciledRows[p], h)
                 THEN [ReconciledRows[p] EXCEPT !.status = "needs_resign"] ELSE ReconciledRows[p]]
  BY DEF MarkNoncanonical, Resigned
<1>2. ASSUME NEW p \in Part PROVE RowMoves(p, row'[p])
  <2>1. RowMoves(p, ReconciledRows[p])
    BY ReconcileMoves DEF RowsMove
  <2>2. CASE NoncanonicalDue(ReconciledRows[p], h)
    <3>1. ReconciledRows[p].status \in {"scheduled", "broadcasted"}
      BY <2>2 DEF NoncanonicalDue
    <3> QED
      BY <1>1, <2>1, <2>2, <3>1, ResignMoves
  <2>3. CASE ~NoncanonicalDue(ReconciledRows[p], h)
    BY <1>1, <2>1, <2>3
  <2> QED
    BY <2>2, <2>3
<1>3. \A p \in Part : row'[p] \in Row
  BY <1>2 DEF RowMoves, RowChanges
<1> QED
  BY <1>1, <1>2, <1>3 DEF RowsMove

\* A redrawn row.
LEMMA RedrawnMoves ==
    ASSUME TypeOK, NEW p \in Part, NEW h \in 0 .. MaxHeight, NEW d \in 0 .. MaxDelay,
           row[p].status = "scheduled"
    PROVE  RowMoves(p, RedrawnRow(p, h, d))
<1>1. row[p] \in Row /\ h + d \in Height
  BY Bounds DEF TypeOK, Height
<1>2. CASE row[p].tx.expiry = Canonical(h + d)
  <2>1. RedrawnRow(p, h, d) = [row[p] EXCEPT !.sched = h + d]
    BY <1>2 DEF RedrawnRow
  <2> QED
    BY <1>1, <2>1 DEF RowMoves, RowChanges, Row, Statuses
<1>3. CASE row[p].tx.expiry # Canonical(h + d)
  <2>1. RedrawnRow(p, h, d) = [row[p] EXCEPT !.status = "needs_resign"]
    BY <1>3 DEF RedrawnRow
  <2> QED
    BY <1>1, <2>1, StillMoves, ResignMoves
<1> QED
  BY <1>2, <1>3

\* Such a step leaves the network, the rows and the store consistent.
LEMMA ChangesKeep ==
    ASSUME TransferInv, RowsChange(row'), UNCHANGED <<born, tip, scanned, mempool, mined>>,
           stored \subseteq stored'
    PROVE  /\ NetworkInv' /\ RowInv' /\ \A p \in Part : row'[p].tx.part = p
           /\ \A txs : KnownAreIn(txs \cup stored) => KnownAreIn(txs \cup stored)'
<1>1. NetworkInv'
  BY DEF TransferInv, NetworkInv
<1>2. ASSUME NEW p \in Part, row'[p].status # "none"
      PROVE  /\ row'[p].tx.gen < born[p]
             /\ Known(row[p].tx)' => row'[p].tried
             /\ row'[p].status = "confirmed" => row'[p].tx \in stored'
  <2>1. RowChanges(p, row'[p]) /\ row'[p].tx = row[p].tx /\ row[p].status # "none"
    BY <1>2 DEF RowsChange, RowChanges
  <2>2. /\ row[p].tx.gen < born[p] /\ (Known(row[p].tx) => row[p].tried)
        /\ row[p].status = "confirmed" => row[p].tx \in stored
    BY <2>1 DEF TransferInv, RowInv
  <2>3. Known(row[p].tx)' <=> Known(row[p].tx)
    BY <2>1 DEF Known, OnChain
  <2>4. Identity(row[p].tx) => row[p].tx \in stored
    <3>1. row[p].tx.part = p /\ mined[p].at \in 0 .. MaxHeight /\ scanned \in Nat
      BY Bounds DEF TransferInv, TypeOK
    <3>2. mined[p].at \in 1 .. scanned => mined[p].tx \in stored
      BY DEF TransferInv, NetworkInv
    <3> QED
      BY <3>1, <3>2, Bounds DEF Identity, OnChain
  <2> QED
    BY <2>1, <2>2, <2>3, <2>4 DEF RowChanges
<1>3. RowInv'
  BY <1>2 DEF RowInv
<1>4. \A p \in Part : row'[p].tx.part = p
  BY DEF RowsChange, RowChanges, TransferInv, TypeOK
<1>5. ASSUME NEW txs, KnownAreIn(txs \cup stored) PROVE KnownAreIn(txs \cup stored)'
  <2>1. SUFFICES ASSUME NEW p \in Part, row'[p].status = "scheduled", Known(row[p].tx)'
                 PROVE  row'[p].tx \in txs \cup stored'
    BY DEF KnownAreIn
  <2>2. RowChanges(p, row'[p]) /\ row'[p].tx = row[p].tx
    BY DEF RowsChange, RowChanges
  <2>3. Known(row[p].tx)
    BY <2>1, <2>2 DEF Known, OnChain
  <2>4. CASE row[p].status = "scheduled"
    BY <1>5, <2>2, <2>3, <2>4 DEF KnownAreIn
  <2>5. CASE row[p].status = "confirmed"
    BY <2>2, <2>5 DEF TransferInv, RowInv
  <2> QED
    BY <2>1, <2>2, <2>4, <2>5 DEF RowChanges
<1> QED
  BY <1>1, <1>3, <1>4, <1>5

\* Nothing goes missing.
LEMMA MissingShrinks ==
    ASSUME RowsMove(row'), stored \subseteq stored'
    PROVE  Missing' \subseteq Missing /\ RowsChange(row')
BY DEF Missing, With, RowsMove, RowMoves, RowChanges, RowsChange

\* The phase such a step may set.
Migrated == \A p \in Part : mined[p].at > 0 /\ tip - mined[p].at + 1 >= Depth
PhaseOK(ph) ==
    /\ ph \in Phases
    /\ ph = "complete" => Migrated
    /\ ph = "failed_terminal" => Missing = {}

\* The phase it has.
LEMMA SamePhaseOK == ASSUME TransferInv PROVE PhaseOK(phase)
BY DEF TransferInv, TypeOK, CompleteMeansMigrated, RetiredRunIsStored, PhaseOK, Migrated

\* A phase in which the run goes on.
LEMMA WorkingPhaseOK ==
    ASSUME NEW ph \in Phases, ph \notin Terminal
    PROVE  PhaseOK(ph)
BY DEF PhaseOK, Terminal

\* The phase that reconcile_run_confirmations leaves: complete only when every
\* part is mined deep enough.
LEMMA ReconciledPhaseOK == ASSUME TransferInv PROVE PhaseOK(ReconciledPhase)
<1> DEFINE rows == ReconciledRows
           resumed == IF Rescheduled THEN "broadcast_scheduled" ELSE phase
           deep == \A p \in Part : rows[p].status = "confirmed" => Deep(rows[p].tx)
<1>1. CASE phase \in Terminal
  <2>1. ReconciledPhase = phase
    BY <1>1 DEF ReconciledPhase
  <2> QED
    BY <2>1, SamePhaseOK
<1>2. CASE phase \notin Terminal /\ AllConfirmed(rows) /\ deep
  <2>1. ReconciledPhase = "complete"
    BY <1>2 DEF ReconciledPhase
  <2>2. ASSUME NEW p \in Part PROVE mined[p].at > 0 /\ tip - mined[p].at + 1 >= Depth
    <3>1. Deep(rows[p].tx)
      BY <1>2 DEF AllConfirmed
    <3>2. rows[p].tx.part = p
      BY ReconcileMoves DEF RowsMove, RowMoves, RowChanges, TransferInv, TypeOK
    <3>3. mined[p].at > 0 /\ scanned - mined[p].at + 1 >= Depth
      BY <3>1, <3>2 DEF Deep, Identity, OnChain
    <3>4. mined[p].at \in 0 .. MaxHeight /\ scanned \in 0 .. tip /\ tip \in 1 .. MaxHeight
      BY DEF TransferInv, TypeOK
    <3> QED
      BY <3>3, <3>4, Bounds
  <2> QED
    BY <2>1, <2>2 DEF PhaseOK, Migrated, Phases, Terminal
<1>3. CASE phase \notin Terminal /\ ~(AllConfirmed(rows) /\ deep)
  <2>1. ReconciledPhase \in {phase, "broadcast_scheduled"}
    BY <1>3 DEF ReconciledPhase
  <2> QED
    BY <2>1, <1>3, WorkingPhaseOK DEF TransferInv, TypeOK, Phases, Terminal
<1> QED
  BY <1>1, <1>2, <1>3

\* A step that changes rows, sets the phase and goes on in the pass keeps the
\* invariant, if the pass was right to go on.
LEMMA ChangeStep ==
    ASSUME TransferInv, RowsChange(row'), phase' \in Phases, phase' = "complete" => Migrated,
           phase' = "failed_terminal" => Missing' = {},
           UNCHANGED <<born, tip, scanned, mempool, mined>>,
           stored \subseteq stored', stored' \subseteq Tx,
           child' \subseteq Part, faults' \in 0 .. MaxFaults,
           redraw' \in [txs : SUBSET Tx, tip : 0 .. MaxHeight],
           pass' \in PassType, PassInv'
    PROVE  TransferInv'
<1>1. NetworkInv' /\ RowInv' /\ \A p \in Part : row'[p].tx.part = p
  BY ChangesKeep
<1>2. TypeOK'
  BY <1>1 DEF RowsChange, TransferInv, TypeOK, PassType
<1>3. CompleteMeansMigrated' /\ RetiredRunIsStored'
  BY DEF Migrated, CompleteMeansMigrated, RetiredRunIsStored
<1> QED
  BY <1>1, <1>2, <1>3 DEF TransferInv

\* The same for a step that records nothing as accepted.
LEMMA MoveStep ==
    ASSUME TransferInv, RowsMove(row'), PhaseOK(phase'),
           UNCHANGED <<born, tip, scanned, mempool, mined>>,
           stored \subseteq stored', stored' \subseteq Tx,
           child' \subseteq Part, faults' \in 0 .. MaxFaults,
           redraw' \in [txs : SUBSET Tx, tip : 0 .. MaxHeight],
           pass' \in PassType, pass'.tip <= tip,
           pass'.pc \in {"attempt", "submit"} => pass'.tx.gen < born[pass'.tx.part],
           pass'.pc = "submit" =>
               \A p \in Part : row'[p].status # "none" /\ row'[p].tx = pass'.tx => row'[p].tried,
           pass'.pc \in StoreChecked => Missing = {} \/ Missing' = {},
           pass'.pc = "ask" => KnownAreIn(pass'.ask \cup stored),
           pass'.pc = "abandon" => KnownAreIn(stored)
    PROVE  TransferInv'
<1>1. Missing' \subseteq Missing /\ RowsChange(row')
  BY MissingShrinks
<1>2. \A txs : KnownAreIn(txs \cup stored) => KnownAreIn(txs \cup stored)'
  BY <1>1, ChangesKeep
<1>3. PassInv'
  <2>1. pass'.pc = "ask" => KnownAreIn(pass.ask \cup stored)'
    <3>1. ASSUME NEW txs, txs = pass'.ask, KnownAreIn(txs \cup stored)
          PROVE  KnownAreIn(pass.ask \cup stored)'
      BY <1>2, <3>1 DEF KnownAreIn
    <3> QED
      BY <3>1
  <2>2. pass'.pc = "abandon" => KnownAreIn(stored)'
    <3>1. KnownAreIn({} \cup stored) => KnownAreIn({} \cup stored)'
      BY <1>2
    <3> QED
      BY <3>1 DEF KnownAreIn
  <2>3. pass'.pc \in StoreChecked => Missing' = {}
    BY <1>1
  <2> QED
    BY <2>1, <2>2, <2>3 DEF PassInv
<1>4. /\ phase' \in Phases /\ (phase' = "complete" => Migrated)
      /\ phase' = "failed_terminal" => Missing' = {}
  BY <1>1 DEF PhaseOK
<1> QED
  BY <1>1, <1>3, <1>4, ChangeStep

\* The pass is over.
LEMMA ReturnStep ==
    ASSUME TransferInv, RowsMove(row'), PhaseOK(phase'),
           UNCHANGED <<born, tip, scanned, mempool, mined>>,
           stored \subseteq stored', stored' \subseteq Tx,
           child' \subseteq Part, faults' \in 0 .. MaxFaults,
           redraw' \in [txs : SUBSET Tx, tip : 0 .. MaxHeight], Return
    PROVE  TransferInv'
<1>1. pass' \in PassType /\ pass'.pc = "idle" /\ pass'.tip <= tip
  BY IdleOK, Bounds DEF Return, TransferInv, TypeOK
<1> QED
  BY <1>1, MoveStep DEF StoreChecked

\* The pass is not involved.
LEMMA AsideStep ==
    ASSUME TransferInv, RowsMove(row'), PhaseOK(phase'),
           UNCHANGED <<born, tip, scanned, mempool, mined, stored, pass>>,
           child' \subseteq Part, faults' \in 0 .. MaxFaults,
           redraw' \in [txs : SUBSET Tx, tip : 0 .. MaxHeight]
    PROVE  TransferInv'
<1>1. pass' \in PassType /\ pass'.tip <= tip /\ stored' \subseteq Tx
  BY DEF TransferInv, TypeOK, PassInv, PassType
<1>2. pass'.pc = "submit" =>
          \A p \in Part : row'[p].status # "none" /\ row'[p].tx = pass'.tx => row'[p].tried
  BY DEF TransferInv, PassInv, RowsMove, RowMoves, RowChanges
<1> QED
  BY <1>1, <1>2, MoveStep DEF TransferInv, PassInv

\* What moves no row.
LEMMA StillRows ==
    ASSUME TransferInv, UNCHANGED row
    PROVE  RowsMove(row')
BY StillMoves DEF RowsMove, TransferInv, TypeOK

----------------------------------------------------------------------------
(* Steps of that kind                                                      *)

\* The end of a scan.
LEMMA PostSyncKeeps == ASSUME TransferInv, PostSync PROVE TransferInv'
<1>1. RowsMove(row') /\ PhaseOK(phase')
  BY ReconcileMoves, ReconciledPhaseOK DEF PostSync, Reconcile, TransferInv
<1>2. UNCHANGED <<child, born, tip, scanned, mempool, mined, stored, pass, redraw, faults>>
  BY DEF PostSync, chain
<1> QED
  BY <1>1, <1>2, AsideStep DEF TransferInv, TypeOK

\* Another account's redraw reads rows.
LEMMA RedrawReadsKeeps == ASSUME TransferInv, RedrawReads PROVE TransferInv'
<1>1. UNCHANGED <<phase, row, child, born, tip, scanned, mempool, mined, stored, pass, faults>>
  BY DEF RedrawReads, chain
<1>2. redraw' \in [txs : SUBSET Tx, tip : 0 .. MaxHeight]
  <2>1. \A p \in Part : row[p].tx \in Tx
    BY DEF TransferInv, TypeOK, Row
  <2>2. tip \in 0 .. MaxHeight
    BY Bounds DEF TransferInv, TypeOK
  <2> QED
    BY <2>1, <2>2 DEF RedrawReads, Overdue, With
<1> QED
  BY <1>1, <1>2, AsideStep, StillRows, SamePhaseOK DEF TransferInv, TypeOK

\* Another account's redraw moves rows.
LEMMA RedrawAppliesKeeps == ASSUME TransferInv, RedrawApplies PROVE TransferInv'
<1>1. PICK d \in [redraw.txs -> 1 .. MaxDelay] :
          /\ row' = [p \in Part |-> IF row[p].status = "scheduled" /\ row[p].tx \in redraw.txs
                                    THEN RedrawnRow(p, redraw.tip, d[row[p].tx]) ELSE row[p]]
          /\ phase' = IF \E t \in redraw.txs : t.expiry # Canonical(redraw.tip + d[t])
                      THEN "ready_to_migrate" ELSE phase
  BY DEF RedrawApplies
<1>2. ASSUME NEW p \in Part PROVE RowMoves(p, row'[p])
  <2>1. CASE row[p].status = "scheduled" /\ row[p].tx \in redraw.txs
    <3>1. redraw.tip \in 0 .. MaxHeight
      BY DEF TransferInv, TypeOK
    <3>2. d[row[p].tx] \in 0 .. MaxDelay
      BY <1>1, <2>1, Bounds
    <3> QED
      BY <1>1, <2>1, <3>1, <3>2, RedrawnMoves DEF TransferInv
  <2>2. CASE ~(row[p].status = "scheduled" /\ row[p].tx \in redraw.txs)
    BY <1>1, <2>2, StillMoves DEF TransferInv
  <2> QED
    BY <2>1, <2>2
<1>3. RowsMove(row')
  BY <1>1, <1>2 DEF RowsMove, RowMoves, RowChanges
<1>4. PhaseOK(phase')
  <2>1. phase' = phase \/ phase' = "ready_to_migrate"
    BY <1>1
  <2> QED
    BY <2>1, SamePhaseOK, WorkingPhaseOK DEF Phases, Terminal
<1>5. redraw' \in [txs : SUBSET Tx, tip : 0 .. MaxHeight]
      /\ UNCHANGED <<child, born, tip, scanned, mempool, mined, stored, pass, faults>>
  BY IdleOK DEF RedrawApplies, chain
<1> QED
  BY <1>3, <1>4, <1>5, AsideStep DEF TransferInv, TypeOK

\* An operation begins.
LEMMA BeginKeeps == ASSUME TransferInv, NEW resume \in BOOLEAN, Begin(resume) PROVE TransferInv'
<1>1. UNCHANGED <<phase, row, child, born, tip, scanned, mempool, mined, stored, redraw, faults>>
  BY DEF Begin, chain
<1>2. PICK h \in scanned .. tip : pass' = [Idle EXCEPT !.pc = "store", !.tip = h, !.resume = resume]
  BY DEF Begin
<1>3. h \in 0 .. MaxHeight /\ h <= tip
  BY Bounds DEF TransferInv, TypeOK
<1>4. pass' \in PassType /\ pass'.pc = "store" /\ pass'.tip = h
  BY <1>2, <1>3, IdleOK DEF PassType, Steps
<1> QED
  BY <1>1, <1>3, <1>4, MoveStep, StillRows, SamePhaseOK DEF TransferInv, TypeOK, StoreChecked

\* A stop begins: what was never attempted the network does not know.
LEMMA BeginStopKeeps == ASSUME TransferInv, BeginStop PROVE TransferInv'
<1>1. UNCHANGED <<phase, row, child, born, tip, scanned, mempool, mined, stored, redraw, faults>>
  BY DEF BeginStop, chain
<1>2. StopCandidates \subseteq Tx
  <2>1. \A p \in Part : row[p].tx \in Tx
    BY DEF TransferInv, TypeOK, Row
  <2> QED
    BY <2>1 DEF StopCandidates, Missing, With
<1>3. /\ pass' \in PassType /\ pass'.tip = tip /\ pass'.ask = StopCandidates
      /\ pass'.pc = IF StopCandidates = {} THEN "abandon" ELSE "ask"
  <2>1. tip \in 0 .. MaxHeight
    BY Bounds DEF TransferInv, TypeOK
  <2>2. (IF StopCandidates = {} THEN "abandon" ELSE "ask") \in Steps
    BY DEF Steps
  <2> QED
    BY <1>2, <2>1, <2>2, IdleOK DEF BeginStop, PassType
<1>4. KnownAreIn(StopCandidates)
  BY DEF KnownAreIn, StopCandidates, With, TransferInv, RowInv
<1>5. KnownAreIn(StopCandidates \cup stored) /\ (StopCandidates = {} => KnownAreIn(stored))
  BY <1>4 DEF KnownAreIn
<1>6. tip <= tip
  BY DEF TransferInv, TypeOK
<1>7. pass'.pc \in {"ask", "abandon"} /\ pass'.pc \notin StoreChecked
  BY <1>3 DEF StoreChecked
<1> QED
  BY <1>1, <1>3, <1>5, <1>6, <1>7, MoveStep, StillRows, SamePhaseOK DEF TransferInv, TypeOK

\* A run that was never broadcast is retired.
LEMMA RetireKeeps == ASSUME TransferInv, RetireUnbroadcast PROVE TransferInv'
<1>1. UNCHANGED <<row, child, born, tip, scanned, mempool, mined, stored, pass, redraw, faults>>
      /\ phase' = "failed_terminal" /\ With("broadcasted") = {}
  BY DEF RetireUnbroadcast, chain
<1>2. PhaseOK(phase')
  BY <1>1 DEF PhaseOK, Phases, Terminal, Missing
<1> QED
  BY <1>1, <1>2, AsideStep, StillRows DEF TransferInv, TypeOK

\* The process is killed.
LEMMA CrashKeeps == ASSUME TransferInv, Crash PROVE TransferInv'
<1>1. UNCHANGED <<phase, row, child, born, tip, scanned, mempool, mined, stored>>
      /\ Return /\ redraw' = NoRedraw /\ faults < MaxFaults /\ faults' = faults + 1
  BY DEF Crash, chain, Return
<1>2. faults' \in 0 .. MaxFaults
  BY <1>1, Bounds DEF TransferInv, TypeOK
<1> QED
  BY <1>1, <1>2, IdleOK, ReturnStep, StillRows, SamePhaseOK DEF TransferInv, TypeOK

\* What the network was told is stored, or the pass ends.
LEMMA RetryStoreKeeps == ASSUME TransferInv, RetryStore PROVE TransferInv'
<1>1. PICK s \in SUBSET Missing :
          /\ stored' = stored \cup s
          /\ Reconcile
          /\ IF \A p \in Part : row'[p].status = "broadcasted" => row'[p].tx \in stored'
             THEN Goto("policy") ELSE Return
  BY DEF RetryStore
<1>2. UNCHANGED <<child, born, tip, scanned, mempool, mined, redraw, faults>>
  BY DEF RetryStore, chain
<1>3. RowsMove(row') /\ PhaseOK(phase')
  BY <1>1, ReconcileMoves, ReconciledPhaseOK DEF Reconcile, TransferInv
<1>4. stored \subseteq stored' /\ stored' \subseteq Tx
  <2>1. \A p \in Part : row[p].tx \in Tx
    BY DEF TransferInv, TypeOK, Row
  <2> QED
    BY <1>1, <2>1 DEF Missing, With, TransferInv, TypeOK
<1>5. CASE \A p \in Part : row'[p].status = "broadcasted" => row'[p].tx \in stored'
  <2>1. Missing' = {}
    BY <1>5 DEF Missing, With
  <2>2. pass' \in PassType /\ pass'.pc = "policy" /\ pass'.tip = pass.tip
    BY <1>1, <1>5, GotoOK DEF TransferInv, Steps
  <2>3. pass'.tip <= tip
    BY <2>2 DEF TransferInv, PassInv
  <2> QED
    BY <1>2, <1>3, <1>4, <2>1, <2>2, <2>3, MoveStep DEF TransferInv, TypeOK
<1>6. CASE ~ \A p \in Part : row'[p].status = "broadcasted" => row'[p].tx \in stored'
  BY <1>1, <1>2, <1>3, <1>4, <1>6, ReturnStep DEF TransferInv, TypeOK
<1> QED
  BY <1>5, <1>6

\* The pass goes on past a check that found every accepted transaction stored.
LEMMA GoOnStep ==
    ASSUME TransferInv, RowsMove(row'), PhaseOK(phase'),
           UNCHANGED <<child, born, tip, scanned, mempool, mined, stored, redraw, faults>>,
           pass.pc \in StoreChecked, NEW step \in {"expiry", "rebuild", "due"}, Goto(step)
    PROVE  TransferInv'
<1>1. pass' \in PassType /\ pass'.pc = step /\ pass'.tip = pass.tip
  BY GotoOK DEF TransferInv, Steps
<1>2. pass'.tip <= tip /\ Missing = {}
  BY <1>1 DEF TransferInv, PassInv
<1> QED
  BY <1>1, <1>2, MoveStep DEF TransferInv, TypeOK

\* A note was spent elsewhere, or not.
LEMMA CheckPolicyKeeps == ASSUME TransferInv, CheckPolicy PROVE TransferInv'
<1>1. pass.pc = "policy" /\ pass.pc \in StoreChecked
      /\ UNCHANGED <<row, child, born, tip, scanned, mempool, mined, stored, redraw, faults>>
  BY DEF CheckPolicy, chain, StoreChecked
<1>2. RowsMove(row') /\ Missing = {}
  BY <1>1, StillRows DEF TransferInv, PassInv
<1>3. CASE SpentElsewhere
  <2>1. phase' = "failed_terminal" /\ Return
    BY <1>3 DEF CheckPolicy
  <2>2. PhaseOK(phase')
    BY <1>2, <2>1 DEF PhaseOK, Phases, Terminal
  <2> QED
    BY <1>1, <1>2, <2>1, <2>2, ReturnStep DEF TransferInv, TypeOK
<1>4. CASE ~SpentElsewhere
  <2>1. Goto("expiry") /\ UNCHANGED phase
    BY <1>4 DEF CheckPolicy
  <2> QED
    BY <1>1, <1>2, <2>1, GoOnStep, SamePhaseOK
<1> QED
  BY <1>3, <1>4

\* Expired parts, and parts that missed their window.
LEMMA CheckExpiryKeeps == ASSUME TransferInv, CheckExpiry PROVE TransferInv'
<1>1. pass.pc = "expiry" /\ pass.pc \in StoreChecked
      /\ UNCHANGED <<child, born, tip, scanned, mempool, mined, stored, redraw, faults>>
  BY DEF CheckExpiry, chain, StoreChecked
<1>2. \/ MarkExpired(pass.tip) /\ (Goto("rebuild") \/ Return)
      \/ MarkNoncanonical(pass.tip) /\ (Return \/ Goto("due"))
  BY DEF CheckExpiry
<1>3. RowsMove(row')
  BY <1>2, MarkExpiredMoves, MarkNoncanonicalMoves DEF TransferInv
<1>4. PhaseOK(phase')
  <2>1. phase' \in {"ready_to_migrate", ReconciledPhase}
    BY <1>2 DEF MarkExpired, MarkNoncanonical
  <2> QED
    BY <2>1, ReconciledPhaseOK, WorkingPhaseOK DEF Phases, Terminal
<1>5. CASE Return
  BY <1>1, <1>3, <1>4, <1>5, ReturnStep DEF TransferInv, TypeOK
<1>6. CASE Goto("rebuild") \/ Goto("due")
  BY <1>1, <1>3, <1>4, <1>6, GoOnStep
<1> QED
  BY <1>2, <1>5, <1>6

\* The next part that is due.
LEMMA SelectDueKeeps == ASSUME TransferInv, SelectDue PROVE TransferInv'
<1>1. pass.pc = "due" /\ row' = ReconciledRows
      /\ UNCHANGED <<child, born, tip, scanned, mempool, mined, stored, redraw, faults>>
  BY DEF SelectDue, chain
<1>2. RowsMove(row')
  BY <1>1, ReconcileMoves DEF TransferInv
<1>3. CASE phase' = ReconciledPhase /\ Return
  BY <1>1, <1>2, <1>3, ReconciledPhaseOK, ReturnStep DEF TransferInv, TypeOK
<1>4. CASE \E p \in Part :
            /\ DuePart(row', p) /\ phase' = "broadcasting"
            /\ pass' = [pass EXCEPT !.pc = "attempt", !.tx = row'[p].tx]
  <2>1. PICK p \in Part :
            /\ row'[p].status = "scheduled" /\ phase' = "broadcasting"
            /\ pass' = [pass EXCEPT !.pc = "attempt", !.tx = row'[p].tx]
    BY <1>4 DEF DuePart
  <2>2. RowMoves(p, row'[p]) /\ row'[p].tx = row[p].tx /\ row[p].status # "none" /\ row[p].tx \in Tx
    BY <1>2, <2>1 DEF RowsMove, RowMoves, RowChanges, Row
  <2>3. row[p].tx.part = p /\ row[p].tx.gen < born[p]
    BY <2>2 DEF TransferInv, TypeOK, RowInv
  <2>4. pass \in PassType /\ pass.tip <= tip /\ Missing = {}
    BY <1>1 DEF TransferInv, TypeOK, PassInv, PassType, StoreChecked
  <2>5. pass' \in PassType /\ pass'.pc = "attempt" /\ pass'.tx = row[p].tx /\ pass'.tip = pass.tip
    BY <2>1, <2>2, <2>4 DEF PassType, Steps
  <2>6. PhaseOK(phase')
    BY <2>1, WorkingPhaseOK DEF Phases, Terminal
  <2> QED
    BY <1>1, <1>2, <2>3, <2>4, <2>5, <2>6, MoveStep DEF TransferInv, TypeOK
<1> QED
  BY <1>3, <1>4 DEF SelectDue

\* The attempt is recorded before the transaction is sent.
LEMMA AttemptKeeps == ASSUME TransferInv, Attempt PROVE TransferInv'
<1>1. pass.pc = "attempt"
      /\ UNCHANGED <<phase, child, born, tip, scanned, mempool, mined, stored, redraw, faults>>
  BY DEF Attempt, chain
<1> DEFINE q == pass.tx.part
<1>2. CASE row[q].tx = pass.tx /\ row[q].status = "scheduled"
  <2>1. row' = [row EXCEPT ![q].tried = TRUE] /\ Goto("submit")
    BY <1>2 DEF Attempt
  <2>2. q \in Part /\ row \in [Part -> Row] /\ row[q] \in Row
    BY DEF TransferInv, TypeOK, Tx
  <2>3. row'[q] = [row[q] EXCEPT !.tried = TRUE] /\ \A p \in Part : p # q => row'[p] = row[p]
    BY <2>1, <2>2
  <2>4. row'[q] \in Row /\ row'[q].tried /\ row'[q].tx = row[q].tx /\ row'[q].status = row[q].status
    BY <2>2, <2>3 DEF Row
  <2>5. RowMoves(q, row'[q])
    BY <2>2, <2>4 DEF RowMoves, RowChanges
  <2>6. \A p \in Part : RowMoves(p, row'[p])
    BY <2>3, <2>5, StillMoves DEF TransferInv
  <2>7. row' \in [Part -> Row]
    BY <2>1, <2>2, <2>4
  <2>8. RowsMove(row')
    BY <2>6, <2>7 DEF RowsMove
  <2>9. pass' \in PassType /\ pass'.pc = "submit" /\ pass'.tip = pass.tip /\ pass'.tx = pass.tx
    BY <2>1, GotoOK DEF TransferInv, Steps
  <2>10. pass.tip <= tip /\ Missing = {} /\ pass.tx.gen < born[q]
    BY <1>1 DEF TransferInv, PassInv, StoreChecked
  <2>11. \A p \in Part : row'[p].tx.part = p
    BY <2>6 DEF RowMoves, RowChanges, TransferInv, TypeOK
  <2>12. \A p \in Part : row'[p].status # "none" /\ row'[p].tx = pass'.tx => row'[p].tried
    BY <2>4, <2>9, <2>11
  <2> QED
    BY <1>1, <2>8, <2>9, <2>10, <2>12, SamePhaseOK, MoveStep DEF TransferInv, TypeOK
<1>3. CASE ~(row[q].tx = pass.tx /\ row[q].status = "scheduled")
  <2>1. Return /\ UNCHANGED row
    BY <1>3 DEF Attempt
  <2> QED
    BY <1>1, <2>1, StillRows, SamePhaseOK, ReturnStep DEF TransferInv, TypeOK
<1> QED
  BY <1>2, <1>3

\* The answer of the network.
LEMMA AnswerKeeps == ASSUME TransferInv, Answer PROVE TransferInv'
<1>1. pass.pc = "answer" /\ UNCHANGED <<row, child, born, tip, scanned, mempool, mined, redraw, faults>>
  BY DEF Answer, chain
<1>2. RowsMove(row') /\ Missing = {}
  BY <1>1, StillRows DEF TransferInv, PassInv, StoreChecked
<1>3. CASE phase' \in {"failed_terminal", "failed_recoverable"} /\ Return /\ UNCHANGED stored
  <2>1. PhaseOK(phase')
    BY <1>2, <1>3 DEF PhaseOK, Phases, Terminal
  <2> QED
    BY <1>1, <1>2, <1>3, <2>1, ReturnStep DEF TransferInv, TypeOK
<1>4. CASE stored' \in {stored, stored \cup {pass.tx}} /\ Goto("mark") /\ UNCHANGED phase
  <2>1. stored \subseteq stored' /\ stored' \subseteq Tx
    BY <1>4 DEF TransferInv, TypeOK
  <2>2. pass' \in PassType /\ pass'.pc = "mark" /\ pass'.tip = pass.tip
    BY <1>4, GotoOK DEF TransferInv, Steps
  <2>3. pass.tip <= tip
    BY DEF TransferInv, PassInv
  <2> QED
    BY <1>1, <1>2, <1>4, <2>1, <2>2, <2>3, SamePhaseOK, MoveStep DEF TransferInv, TypeOK, StoreChecked
<1> QED
  BY <1>3, <1>4 DEF Answer

\* The parts that are still overdue are redrawn.
LEMMA RedrawOverdueKeeps == ASSUME TransferInv, RedrawOverdue PROVE TransferInv'
<1>1. UNCHANGED <<child, born, tip, scanned, mempool, mined, stored, redraw, faults>> /\ Return
  BY DEF RedrawOverdue, chain
<1>2. PICK d \in [Overdue(pass.tip) -> 0 .. MaxDelay] :
          /\ row' = [p \in Part |-> IF p \in Overdue(pass.tip)
                                    THEN RedrawnRow(p, pass.tip, d[p]) ELSE row[p]]
          /\ phase' \in {"ready_to_migrate", phase}
  BY DEF RedrawOverdue
<1>3. ASSUME NEW p \in Part PROVE RowMoves(p, row'[p])
  <2>1. CASE p \in Overdue(pass.tip)
    <3>1. row[p].status = "scheduled" /\ pass.tip \in 0 .. MaxHeight /\ d[p] \in 0 .. MaxDelay
      BY <1>2, <2>1 DEF Overdue, With, TransferInv, TypeOK
    <3> QED
      BY <1>2, <2>1, <3>1, RedrawnMoves DEF TransferInv
  <2>2. CASE p \notin Overdue(pass.tip)
    BY <1>2, <2>2, StillMoves DEF TransferInv
  <2> QED
    BY <2>1, <2>2
<1>4. RowsMove(row')
  BY <1>2, <1>3 DEF RowsMove, RowMoves, RowChanges
<1>5. PhaseOK(phase')
  BY <1>2, SamePhaseOK, WorkingPhaseOK DEF Phases, Terminal
<1> QED
  BY <1>1, <1>4, <1>5, ReturnStep DEF TransferInv, TypeOK

----------------------------------------------------------------------------
(* Steps that record an acceptance                                         *)

\* mark_pending_broadcasted
LEMMA MarkChanges ==
    ASSUME TypeOK, NEW txs, MarkBroadcasted(txs)
    PROVE  /\ RowsChange(row') /\ phase' \in Phases /\ phase' \notin Terminal
           /\ \A p \in Part : row'[p].status = "scheduled" =>
                 row[p].status = "scheduled" /\ row[p].tx \notin txs /\ row'[p].tx = row[p].tx
<1>1. row' = [p \in Part |-> IF row[p].status # "none" /\ row[p].tx \in txs
                             THEN [row[p] EXCEPT !.status = "broadcasted"] ELSE row[p]]
  BY DEF MarkBroadcasted
<1>2. phase' \in {"ready_to_migrate", "broadcast_scheduled", "waiting_migration_confirmations"}
  BY DEF MarkBroadcasted, PhaseAfterBroadcast
<1>3. ASSUME NEW p \in Part
      PROVE  /\ RowChanges(p, row'[p])
             /\ row'[p].status = "scheduled" =>
                   row[p].status = "scheduled" /\ row[p].tx \notin txs /\ row'[p].tx = row[p].tx
  <2>1. row[p] \in Row
    BY DEF TypeOK
  <2>2. CASE row[p].status # "none" /\ row[p].tx \in txs
    <3>1. row'[p] = [row[p] EXCEPT !.status = "broadcasted"]
      BY <1>1, <2>2
    <3> QED
      BY <2>1, <2>2, <3>1 DEF RowChanges, Row, Statuses
  <2>3. CASE ~(row[p].status # "none" /\ row[p].tx \in txs)
    <3>1. row'[p] = row[p]
      BY <1>1, <2>3
    <3> QED
      BY <2>3, <3>1, StillMoves DEF RowMoves
  <2> QED
    BY <2>2, <2>3
<1>4. row' \in [Part -> Row]
  BY <1>1, <1>3 DEF RowChanges
<1> QED
  BY <1>2, <1>3, <1>4 DEF RowsChange, Phases, Terminal

\* An accepted transaction is recorded.
LEMMA RecordKeeps == ASSUME TransferInv, Record PROVE TransferInv'
<1>1. MarkBroadcasted({pass.tx}) /\ Goto("redraw")
      /\ UNCHANGED <<child, born, tip, scanned, mempool, mined, stored, redraw, faults>>
  BY DEF Record, chain
<1>2. RowsChange(row') /\ phase' \in Phases /\ phase' \notin Terminal
  BY <1>1, MarkChanges DEF TransferInv
<1>3. pass' \in PassType /\ pass'.pc = "redraw" /\ pass'.tip = pass.tip
  BY <1>1, GotoOK DEF TransferInv, Steps
<1>4. PassInv'
  BY <1>1, <1>3 DEF TransferInv, PassInv, StoreChecked
<1> QED
  BY <1>1, <1>2, <1>3, <1>4, ChangeStep DEF TransferInv, TypeOK, Terminal

\* The network is asked before a stop: what it does not have and may be
\* discarded has expired, so it is not waiting anywhere.
LEMMA AskKeeps == ASSUME TransferInv, AskBeforeStop PROVE TransferInv'
<1>0. pass.pc = "ask" /\ UNCHANGED <<child, born, tip, scanned, mempool, mined, redraw, faults>>
  BY DEF AskBeforeStop, chain
<1>1. PICK found \in Answers(pass.ask) :
          IF \A t \in pass.ask \ found : MayDiscard(t)
          THEN /\ stored' = stored \cup found /\ MarkBroadcasted(found)
               /\ Goto("abandon")
          ELSE /\ \E some \in SUBSET found :
                     stored' = stored \cup some /\ MarkBroadcasted(some)
               /\ Return
  BY DEF AskBeforeStop
<1>2. /\ found \subseteq pass.ask /\ pass.ask \subseteq Tx
      /\ \A t \in pass.ask : OnChain(t) => t \in found
  BY DEF Answers, TransferInv, TypeOK
<1>3. CASE \A t \in pass.ask \ found : MayDiscard(t)
  <2>1. stored' = stored \cup found /\ MarkBroadcasted(found) /\ Goto("abandon")
    BY <1>1, <1>3
  <2>2. /\ RowsChange(row') /\ phase' \in Phases /\ phase' \notin Terminal
        /\ \A p \in Part : row'[p].status = "scheduled" =>
              row[p].status = "scheduled" /\ row[p].tx \notin found /\ row'[p].tx = row[p].tx
    BY <2>1, MarkChanges DEF TransferInv
  <2>3. pass' \in PassType /\ pass'.pc = "abandon" /\ pass'.tip = pass.tip
    BY <2>1, GotoOK DEF TransferInv, Steps
  <2>4. stored \subseteq stored' /\ stored' \subseteq Tx
    BY <1>2, <2>1 DEF TransferInv, TypeOK
  <2>5. ASSUME NEW p \in Part, row'[p].status = "scheduled", Known(row[p].tx)'
        PROVE  row'[p].tx \in stored'
    <3>1. row[p].status = "scheduled" /\ row[p].tx \notin found /\ row'[p].tx = row[p].tx
      BY <2>2, <2>5
    <3>2. Known(row[p].tx)
      BY <1>0, <2>5, <3>1 DEF Known, OnChain
    <3>3. row[p].tx \in pass.ask \cup stored
      BY <1>0, <3>1, <3>2 DEF TransferInv, PassInv, KnownAreIn
    <3>4. CASE row[p].tx \in stored
      BY <2>4, <3>1, <3>4
    <3>5. CASE row[p].tx \in pass.ask
      <4>1. row[p].tx.expiry <= pass.tip /\ ~OnChain(row[p].tx)
        BY <1>2, <1>3, <3>1, <3>5 DEF MayDiscard
      <4>2. row[p].tx.expiry > tip
        BY <3>2, <4>1 DEF Known, TransferInv, NetworkInv
      <4>3. pass.tip <= tip /\ pass.tip \in Nat /\ tip \in Nat /\ row[p].tx.expiry \in Nat
        <5>1. row[p].tx \in Tx
          BY <1>2, <3>5
        <5>2. row[p].tx.expiry \in 0 .. MaxHeight + MaxDelay + 2 * Window
          BY <5>1 DEF Tx, Height
        <5>3. pass.tip <= tip /\ pass.tip \in 0 .. MaxHeight /\ tip \in 1 .. MaxHeight
          BY DEF TransferInv, TypeOK, PassInv
        <5> QED
          BY <5>2, <5>3, Bounds
      <4> QED
        BY <4>1, <4>2, <4>3
    <3> QED
      BY <3>3, <3>4, <3>5
  <2>6. PassInv'
    <3>1. KnownAreIn(stored)'
      BY <2>5 DEF KnownAreIn
    <3>2. pass'.tip <= tip'
      BY <1>0, <2>3 DEF TransferInv, PassInv
    <3> QED
      BY <2>3, <3>1, <3>2 DEF PassInv, StoreChecked
  <2> QED
    BY <1>0, <2>2, <2>3, <2>4, <2>6, ChangeStep DEF TransferInv, TypeOK, Terminal
<1>4. CASE ~ \A t \in pass.ask \ found : MayDiscard(t)
  <2>1. PICK some \in SUBSET found : stored' = stored \cup some /\ MarkBroadcasted(some)
    BY <1>1, <1>4
  <2>2. RowsChange(row') /\ phase' \in Phases /\ phase' \notin Terminal
    BY <2>1, MarkChanges DEF TransferInv
  <2>3. stored \subseteq stored' /\ stored' \subseteq Tx
    BY <1>2, <2>1 DEF TransferInv, TypeOK
  <2>4. pass' \in PassType /\ pass'.pc = "idle" /\ pass'.tip <= tip'
    BY <1>0, <1>1, <1>4, IdleOK, Bounds DEF Return, TransferInv, TypeOK
  <2>5. PassInv'
    BY <2>4 DEF PassInv, StoreChecked
  <2> QED
    BY <1>0, <2>2, <2>3, <2>4, <2>5, ChangeStep DEF TransferInv, TypeOK, Terminal
<1> QED
  BY <1>3, <1>4

\* The run is abandoned and its unsent rows are deleted.
LEMMA AbandonKeeps == ASSUME TransferInv, Abandon PROVE TransferInv'
<1>1. Return /\ UNCHANGED <<born, tip, scanned, mempool, mined, stored, redraw, faults>>
  BY DEF Abandon, chain
<1>2. CASE phase \in {"complete", "failed_terminal", "abandoned"}
  <2>1. UNCHANGED <<phase, row, child>>
    BY <1>2 DEF Abandon
  <2> QED
    BY <1>1, <2>1, StillRows, SamePhaseOK, ReturnStep DEF TransferInv, TypeOK
<1>3. CASE phase \notin {"complete", "failed_terminal", "abandoned"}
  <2>1. /\ phase' = "abandoned" /\ child' = {}
        /\ row' = [p \in Part |-> IF row[p].status \in {"scheduled", "needs_resign"}
                                  THEN NoRow(p) ELSE row[p]]
    BY <1>3 DEF Abandon
  <2>2. \A p \in Part : row'[p] \in {row[p], NoRow(p)}
    BY <2>1
  <2>3. row' \in [Part -> Row] /\ \A p \in Part : row'[p].tx.part = p
    <3>1. \A p \in Part : row[p] \in Row /\ row[p].tx.part = p
      BY DEF TransferInv, TypeOK
    <3>2. \A p \in Part : NoRow(p) \in Row /\ NoRow(p).tx.part = p
      BY NoTxOK DEF NoRow
    <3> QED
      BY <2>1, <3>1, <3>2
  <2>4. \A p \in Part : row'[p].status # "none" => row'[p] = row[p]
    BY <2>2 DEF NoRow
  <2>5. RowInv' /\ NetworkInv'
    BY <1>1, <2>4 DEF TransferInv, RowInv, NetworkInv, Known, OnChain
  <2>6. pass' \in PassType /\ pass'.pc = "idle" /\ pass'.tip <= tip'
    BY <1>1, IdleOK, Bounds DEF Return, TransferInv, TypeOK
  <2>7. PassInv'
    BY <2>6 DEF PassInv, StoreChecked
  <2>8. CompleteMeansMigrated' /\ RetiredRunIsStored'
    BY <2>1 DEF CompleteMeansMigrated, RetiredRunIsStored
  <2>9. TypeOK'
    BY <1>1, <2>1, <2>3, <2>6 DEF TransferInv, TypeOK, PassType, Phases, Terminal
  <2> QED
    BY <2>5, <2>7, <2>8, <2>9 DEF TransferInv
<1> QED
  BY <1>2, <1>3

----------------------------------------------------------------------------
(* Steps that sign                                                         *)

\* A transaction that is signed now is not known to the network.
LEMMA NewIsUnknown ==
    ASSUME TransferInv, NEW t, t.part \in Part, t.gen = born[t.part]
    PROVE  ~Known(t)
<1>1. born[t.part] \in Nat
  BY Bounds DEF TransferInv, TypeOK
<1>2. ~(t.gen < born[t.part])
  BY <1>1
<1> QED
  BY <1>2, Bounds DEF Known, OnChain, TransferInv, NetworkInv

\* Parts have a new transaction, the rows of the others keep theirs.
LEMMA SignStep ==
    ASSUME TransferInv, NEW again \in SUBSET Part, \A p \in again : born[p] <= MaxGen,
           row' \in [Part -> Row], \A p \in Part : row'[p].tx.part = p,
           \A p \in again : row'[p].tx.gen = born[p] /\ row'[p].status = "scheduled",
           \A p \in Part \ again :
               row'[p].status # "none" =>
                   /\ row[p].status = row'[p].status /\ row[p].tx = row'[p].tx
                   /\ row[p].tried = row'[p].tried,
           born' = [p \in Part |-> IF p \in again THEN born[p] + 1 ELSE born[p]],
           phase' = "broadcast_scheduled", child' \subseteq Part,
           UNCHANGED <<tip, scanned, mempool, mined, stored, redraw, faults>>,
           pass' \in PassType, pass'.pc \in {"idle", "store"}, pass'.tip <= tip
    PROVE  TransferInv'
<1>1. ASSUME NEW p \in again
      PROVE  /\ row'[p] \in Row /\ row'[p].tx.part = p /\ row'[p].tx.gen = born[p]
             /\ row'[p].status = "scheduled"
  OBVIOUS
<1>2. row' \in [Part -> Row] /\ \A p \in Part : row'[p].tx.part = p
  OBVIOUS
<1>4. ASSUME NEW p \in Part
      PROVE  born[p] \in Nat /\ born'[p] \in 0 .. MaxGen + 1 /\ born[p] <= born'[p]
             /\ (p \in again => born'[p] = born[p] + 1)
  <2>1. born[p] \in 0 .. MaxGen + 1
    BY DEF TransferInv, TypeOK
  <2> QED
    BY <2>1, Bounds
<1>5. born' \in [Part -> 0 .. MaxGen + 1]
  BY <1>4
<1>6. TypeOK'
  BY <1>2, <1>5 DEF TransferInv, TypeOK, PassType, Phases
<1>7. NetworkInv'
  <2>1. ASSUME NEW t \in Tx, t.gen < born[t.part] PROVE t.gen < born'[t.part]
    <3>1. t.part \in Part /\ t.gen \in Nat
      BY Bounds DEF Tx
    <3> QED
      BY <1>4, <2>1, <3>1, Bounds
  <2>2. mempool \subseteq Tx /\ \A p \in Part : mined[p].tx \in Tx
    BY DEF TransferInv, TypeOK
  <2>3. \A p \in Part : mined[p].at > 0 => mined[p].tx.gen < born'[p]
    BY <2>1, <2>2 DEF TransferInv, NetworkInv
  <2>4. \A t \in mempool : t.gen < born'[t.part]
    BY <2>1, <2>2 DEF TransferInv, NetworkInv
  <2> QED
    BY <2>3, <2>4 DEF TransferInv, NetworkInv
<1>8. RowInv'
  <2>1. ASSUME NEW p \in Part, row'[p].status # "none"
        PROVE  /\ row'[p].tx.gen < born'[p]
               /\ Known(row[p].tx)' => row'[p].tried
               /\ row'[p].status = "confirmed" => row'[p].tx \in stored'
    <3>1. CASE p \in again
      <4>1. row'[p].tx.gen < born'[p]
        BY <1>1, <1>4, <3>1
      <4>2. ASSUME NEW t, t = row'[p].tx PROVE ~Known(t)
        BY <1>1, <3>1, <4>2, NewIsUnknown
      <4>3. ~Known(row[p].tx)'
        BY <4>2 DEF Known, OnChain
      <4> QED
        BY <1>1, <3>1, <4>1, <4>3
    <3>2. CASE p \notin again
      <4>1. /\ row'[p].status = row[p].status /\ row'[p].tx = row[p].tx
            /\ row'[p].tried = row[p].tried /\ born'[p] = born[p]
        BY <2>1, <3>2
      <4> QED
        BY <2>1, <4>1 DEF TransferInv, RowInv, Known, OnChain
    <3> QED
      BY <3>1, <3>2
  <2> QED
    BY <2>1 DEF RowInv
<1>9. PassInv'
  BY DEF PassInv, StoreChecked
<1>10. CompleteMeansMigrated' /\ RetiredRunIsStored'
  BY DEF CompleteMeansMigrated, RetiredRunIsStored
<1> QED
  BY <1>6, <1>7, <1>8, <1>9, <1>10 DEF TransferInv

\* The rebase moves the schedule of rows that are not promoted yet.
LEMMA RebasedOK ==
    ASSUME TransferInv, NEW h \in 0 .. scanned
    PROVE  /\ Rebased(h) \in [Part -> Row]
           /\ \A p \in Part :
                 /\ Rebased(h)[p].tx = row[p].tx /\ Rebased(h)[p].status = row[p].status
                 /\ Rebased(h)[p].tried = row[p].tried
<1> DEFINE later(p) == row[p].sched + (h - row[p].target)
<1>1. row \in [Part -> Row] /\ h \in Nat
  BY Bounds DEF TransferInv, TypeOK
<1>2. CASE \A p \in Part : h > row[p].target /\ Canonical(later(p)) = row[p].tx.expiry
  <2>1. ASSUME NEW p \in Part PROVE later(p) \in Height
    <3>1. row[p].sched \in Nat /\ row[p].target \in Nat /\ row[p].tx.expiry \in Height
      BY <1>1, Bounds DEF Row, Tx, Height
    <3>2. later(p) \in Nat
      BY <1>1, <1>2, <3>1
    <3>3. later(p) < row[p].tx.expiry
      BY <1>2, <3>2, CanonicalIsLater
    <3> QED
      BY <3>1, <3>2, <3>3, Bounds DEF Height
  <2>2. ASSUME NEW p \in Part
        PROVE  /\ [row[p] EXCEPT !.sched = later(p)] \in Row
               /\ [row[p] EXCEPT !.sched = later(p)].tx = row[p].tx
               /\ [row[p] EXCEPT !.sched = later(p)].status = row[p].status
               /\ [row[p] EXCEPT !.sched = later(p)].tried = row[p].tried
    BY <1>1, <2>1 DEF Row
  <2>3. Rebased(h) = row \/ Rebased(h) = [p \in Part |-> [row[p] EXCEPT !.sched = later(p)]]
    BY DEF Rebased
  <2> HIDE DEF later
  <2> QED
    BY <1>1, <2>2, <2>3
<1>3. CASE ~\A p \in Part : h > row[p].target /\ Canonical(later(p)) = row[p].tx.expiry
  BY <1>1, <1>3 DEF Rebased
<1> QED
  BY <1>2, <1>3

\* A child becomes a row.
LEMMA PromoteKeeps ==
    ASSUME TransferInv, NEW p \in Part, Promote(p)
    PROVE  TransferInv'
<1>1. /\ pass.pc = "idle" /\ born[p] <= MaxGen /\ phase' = "broadcast_scheduled"
      /\ born' = [born EXCEPT ![p] = @ + 1]
      /\ child' \subseteq child
      /\ UNCHANGED <<tip, scanned, mempool, mined, stored, pass, redraw, faults>>
  BY DEF Promote, chain
<1>2. PICK h \in 0 .. scanned :
          row' = [Rebased(h) EXCEPT ![p].status = "scheduled", ![p].tx.gen = born[p]]
  BY DEF Promote
<1> DEFINE old == Rebased(h)
<1>3. /\ old \in [Part -> Row]
      /\ \A q \in Part : /\ old[q].tx = row[q].tx /\ old[q].status = row[q].status
                         /\ old[q].tried = row[q].tried
  BY RebasedOK
<1>4. row' = [old EXCEPT ![p].status = "scheduled", ![p].tx.gen = born[p]]
  BY <1>2
<1> HIDE DEF old
<1>5. row \in [Part -> Row] /\ born \in [Part -> 0 .. MaxGen + 1] /\ child \subseteq Part
      /\ pass \in PassType /\ pass.tip <= tip /\ \A q \in Part : row[q].tx.part = q
  BY DEF TransferInv, TypeOK, PassType, PassInv
<1>6. born[p] \in 0 .. MaxGen
  BY <1>1, <1>5, Bounds
<1>7. \A q \in Part \ {p} : row'[q] = old[q]
  BY <1>3, <1>4
<1>8. /\ row'[p] \in Row /\ row'[p].tx.part = p
      /\ row'[p].tx.gen = born[p] /\ row'[p].status = "scheduled"
  <2>1. old[p] \in Row /\ old[p].tx \in Tx /\ old[p].tx.part = p
    BY <1>3, <1>5 DEF Row
  <2>2. row'[p] = [old[p] EXCEPT !.status = "scheduled", !.tx.gen = born[p]]
    BY <1>3, <1>4
  <2> DEFINE tx == [old[p].tx EXCEPT !.gen = born[p]]
  <2>3. tx \in Tx /\ tx.part = p /\ tx.gen = born[p]
    BY <1>6, <2>1 DEF Tx
  <2>4. row'[p] = [[old[p] EXCEPT !.status = "scheduled"] EXCEPT !.tx = tx]
    BY <2>1, <2>2 DEF Row
  <2> HIDE DEF tx
  <2> QED
    BY <2>1, <2>3, <2>4 DEF Row, Statuses
<1>9. row' \in [Part -> Row] /\ \A q \in Part : row'[q].tx.part = q
  <2>1. DOMAIN row' = Part /\ row' = [q \in Part |-> row'[q]]
    BY <1>3, <1>4
  <2>2. \A q \in Part : row'[q] \in Row /\ row'[q].tx.part = q
    BY <1>3, <1>5, <1>7, <1>8
  <2> QED
    BY <2>1, <2>2
<1>10. \A q \in Part \ {p} :
          /\ row[q].status = row'[q].status /\ row[q].tx = row'[q].tx
          /\ row[q].tried = row'[q].tried
  BY <1>3, <1>7
<1>11. born' = [q \in Part |-> IF q \in {p} THEN born[q] + 1 ELSE born[q]]
  BY <1>1, <1>5
<1>12. {p} \in SUBSET Part /\ \A q \in {p} : born[q] <= MaxGen
  BY <1>1
<1> QED
  BY <1>1, <1>5, <1>8, <1>9, <1>10, <1>11, <1>12, SignStep

\* Parts are signed again.
LEMMA RebuildKeeps == ASSUME TransferInv, Rebuild PROVE TransferInv'
<1> DEFINE again == With("needs_resign")
<1>1. pass.pc = "rebuild" /\ UNCHANGED <<child, tip, scanned, mempool, mined, stored, redraw, faults>>
  BY DEF Rebuild, chain
<1>2. pass \in PassType /\ pass.tip <= tip /\ child \subseteq Part
  BY DEF TransferInv, TypeOK, PassType, PassInv
<1>3. ASSUME pass' = [pass EXCEPT !.pc = "store", !.resume = FALSE]
      PROVE  pass' \in PassType /\ pass'.pc = "store" /\ pass'.tip = pass.tip
  BY <1>2, <1>3 DEF PassType, Steps
<1>4. CASE /\ \A p \in again : Spendable(p) /\ born[p] <= MaxGen
           /\ \E d \in [again -> 0 .. MaxDelay] :
                 row' = [p \in Part |-> IF p \in again THEN SignedRow(p, d[p]) ELSE row[p]]
           /\ born' = [p \in Part |-> IF p \in again THEN born[p] + 1 ELSE born[p]]
           /\ phase' = "broadcast_scheduled"
           /\ pass' = [pass EXCEPT !.pc = "store", !.resume = FALSE]
  <2>1. again \in SUBSET Part
    BY DEF With
  <2> HIDE DEF again
  <2>2. PICK d \in [again -> 0 .. MaxDelay] :
          row' = [p \in Part |-> IF p \in again THEN SignedRow(p, d[p]) ELSE row[p]]
    BY <1>4
  <2>3. ASSUME NEW p \in again
        PROVE  /\ row'[p] \in Row /\ row'[p].tx.part = p /\ row'[p].tx.gen = born[p]
               /\ row'[p].status = "scheduled"
    <3>1. p \in Part /\ d[p] \in 0 .. MaxDelay /\ born[p] <= MaxGen /\ TypeOK
      BY <1>4, <2>1, <2>2 DEF TransferInv
    <3>2. row'[p] = SignedRow(p, d[p])
      BY <2>2, <3>1
    <3> QED
      BY <3>1, <3>2, SignedRowOK
  <2>4. \A p \in Part \ again : row'[p] = row[p]
    BY <2>2
  <2>5. row' \in [Part -> Row] /\ \A p \in Part : row'[p].tx.part = p
    BY <2>2, <2>3, <2>4 DEF TransferInv, TypeOK
  <2> QED
    BY <1>1, <1>2, <1>3, <1>4, <2>1, <2>3, <2>4, <2>5, SignStep
<1>5. CASE Return /\ UNCHANGED <<row, born, phase>>
  BY <1>1, <1>2, <1>5, StillRows, SamePhaseOK, ReturnStep DEF TransferInv, TypeOK
<1>6. CASE pass' = [pass EXCEPT !.pc = "store", !.resume = FALSE] /\ UNCHANGED <<row, born, phase>>
  BY <1>1, <1>2, <1>3, <1>6, StillRows, SamePhaseOK, MoveStep DEF TransferInv, TypeOK, StoreChecked
<1> QED
  BY <1>4, <1>5, <1>6 DEF Rebuild

----------------------------------------------------------------------------
(* The network                                                             *)

\* A transaction is sent.  The network gets to know it here, and every row
\* that holds it says that it was tried.
LEMMA SubmitKeeps == ASSUME TransferInv, Submit PROVE TransferInv'
<1>1. /\ pass.pc = "submit"
      /\ UNCHANGED <<phase, row, child, born, tip, scanned, mined, stored, redraw, faults>>
  BY DEF Submit
<1>2. /\ mempool \subseteq mempool' /\ mempool' \subseteq mempool \cup {pass.tx}
      /\ pass.tx \in mempool' => pass.tx \in mempool \/ Acceptable(pass.tx)
  BY DEF Submit, Known
<1>3. pass \in PassType /\ pass.tx \in Tx /\ pass.tip <= tip
      /\ pass.tx.gen < born[pass.tx.part]
  BY <1>1 DEF TransferInv, TypeOK, PassType, PassInv
<1>4. pass' \in PassType /\ pass'.pc = "answer" /\ pass'.tip = pass.tip
  <2>1. PICK o \in {"accepted", "ambiguous", "rejected"} :
            pass' = [pass EXCEPT !.pc = "answer", !.outcome = o]
    BY DEF Submit
  <2> QED
    BY <1>3, <2>1 DEF PassType, Steps
<1>5. TypeOK'
  BY <1>1, <1>2, <1>3, <1>4 DEF TransferInv, TypeOK, PassType
<1>6. NetworkInv'
  <2>1. ASSUME NEW t \in mempool'
        PROVE  mined[t.part].at = 0 /\ t.expiry > tip /\ t.gen < born[t.part]
    BY <1>2, <1>3, <2>1 DEF TransferInv, NetworkInv, Acceptable
  <2>2. ASSUME NEW t \in mempool', NEW u \in mempool', t.part = u.part PROVE t = u
    BY <1>2, <2>2 DEF TransferInv, NetworkInv, Acceptable
  <2> QED
    BY <1>1, <2>1, <2>2 DEF TransferInv, NetworkInv
<1>7. RowInv'
  <2>1. ASSUME NEW p \in Part, row[p].status # "none", Known(row[p].tx)' PROVE row[p].tried
    <3>1. Known(row[p].tx) \/ row[p].tx = pass.tx
      BY <1>1, <1>2, <2>1 DEF Known, OnChain
    <3> QED
      BY <1>1, <2>1, <3>1 DEF TransferInv, RowInv, PassInv
  <2> QED
    BY <1>1, <2>1 DEF TransferInv, RowInv
<1>8. PassInv'
  BY <1>1, <1>3, <1>4 DEF TransferInv, PassInv, StoreChecked, Missing, With
<1>9. CompleteMeansMigrated' /\ RetiredRunIsStored'
  BY <1>1 DEF TransferInv, CompleteMeansMigrated, RetiredRunIsStored, Missing, With
<1> QED
  BY <1>5, <1>6, <1>7, <1>8, <1>9 DEF TransferInv

\* A step of the chain or of the scan by which the network learns of no
\* transaction: what the rows and the pass rely on stays true.
LEMMA ChainStep ==
    ASSUME TransferInv, UNCHANGED <<phase, row, child, born, redraw, pass>>,
           TypeOK', NetworkInv', stored \subseteq stored', tip <= tip',
           \A t \in Tx : Known(t)' => Known(t),
           Migrated => Migrated'
    PROVE  TransferInv'
<1>1. \A p \in Part : Known(row[p].tx)' => Known(row[p].tx)
  <2>1. \A p \in Part : row[p].tx \in Tx
    BY DEF TransferInv, TypeOK, Row
  <2> QED
    BY <2>1
<1>2. RowInv'
  BY <1>1 DEF TransferInv, RowInv
<1>3. Missing' \subseteq Missing
  BY DEF Missing, With
<1>4. \A txs : KnownAreIn(txs \cup stored) => KnownAreIn(txs \cup stored)'
  BY <1>1 DEF KnownAreIn
<1>5. KnownAreIn(stored) => KnownAreIn(stored)'
  BY <1>1 DEF KnownAreIn
<1>6. pass'.tip <= tip'
  <2>1. pass.tip \in 0 .. MaxHeight /\ tip \in 1 .. MaxHeight /\ tip' \in 1 .. MaxHeight
        /\ pass.tip <= tip
    BY DEF TransferInv, TypeOK, PassInv
  <2> QED
    BY <2>1, Bounds
<1>7. PassInv'
  <2>1. pass'.pc = "ask" => KnownAreIn(pass.ask \cup stored)'
    BY <1>4 DEF TransferInv, PassInv
  <2> QED
    BY <1>3, <1>5, <1>6, <2>1 DEF TransferInv, PassInv
<1>8. CompleteMeansMigrated' /\ RetiredRunIsStored'
  BY <1>3 DEF TransferInv, CompleteMeansMigrated, RetiredRunIsStored, Migrated
<1> QED
  BY <1>2, <1>7, <1>8 DEF TransferInv

\* The heights, as numbers.
LEMMA Heights ==
    ASSUME TypeOK
    PROVE  /\ tip \in Nat /\ tip >= 1 /\ tip <= MaxHeight
           /\ scanned \in Nat /\ scanned <= tip
           /\ \A p \in Part : mined[p].at \in Nat /\ mined[p].at <= MaxHeight
           /\ \A t \in Tx : t.expiry \in Nat /\ t.part \in Part
<1>1. \A p \in Part : mined[p].at \in 0 .. MaxHeight
  BY DEF TypeOK
<1>2. \A t \in Tx : t.expiry \in 0 .. MaxHeight + MaxDelay + 2 * Window /\ t.part \in Part
  BY DEF Tx, Height
<1> QED
  BY <1>1, <1>2, Bounds DEF TypeOK

\* A block is mined.  Its transactions were waiting, so their notes were not
\* spent on chain before.
LEMMA MineKeeps == ASSUME TransferInv, Mine PROVE TransferInv'
<1>1. /\ tip < MaxHeight /\ tip' = tip + 1
      /\ UNCHANGED <<phase, row, child, born, scanned, stored, pass, redraw, faults>>
  BY DEF Mine
<1>2. PICK in \in SUBSET {t \in mempool : t.expiry > tip} :
          /\ mined' = [p \in Part |-> IF \E t \in in : t.part = p
                                      THEN [tx |-> CHOOSE t \in in : t.part = p, at |-> tip + 1]
                                      ELSE mined[p]]
          /\ mempool' = {t \in mempool \ in : t.expiry > tip + 1}
  BY DEF Mine
<1>3. TypeOK /\ NetworkInv /\ in \subseteq mempool /\ mempool \subseteq Tx /\ mempool' \subseteq mempool \ in
  BY <1>2 DEF TransferInv, TypeOK
<1>4. ASSUME NEW p \in Part, \E t \in in : t.part = p
      PROVE  /\ mined'[p].tx \in in /\ mined'[p].tx.part = p /\ mined'[p].at = tip + 1
             /\ mined[p].at = 0
  <2>1. mined'[p] = [tx |-> CHOOSE t \in in : t.part = p, at |-> tip + 1]
    BY <1>2, <1>4
  <2>2. (CHOOSE t \in in : t.part = p) \in in /\ (CHOOSE t \in in : t.part = p).part = p
    BY <1>4
  <2> QED
    BY <1>3, <2>1, <2>2 DEF NetworkInv
<1>5. \A p \in Part : ~(\E t \in in : t.part = p) => mined'[p] = mined[p]
  BY <1>2
<1>6. TypeOK'
  <2>1. ASSUME NEW p \in Part PROVE mined'[p] \in [tx : Tx, at : 0 .. MaxHeight]
    <3>1. CASE \E t \in in : t.part = p
      <4>1. mined'[p] = [tx |-> CHOOSE t \in in : t.part = p, at |-> tip + 1]
        BY <1>2, <3>1
      <4>2. (CHOOSE t \in in : t.part = p) \in Tx
        BY <1>3, <3>1
      <4>3. tip + 1 \in 0 .. MaxHeight
        BY <1>1, <1>3, Heights, Bounds
      <4> QED
        BY <4>1, <4>2, <4>3
    <3>2. CASE ~ \E t \in in : t.part = p
      BY <1>3, <1>5, <3>2 DEF TypeOK
    <3> QED
      BY <3>1, <3>2
  <2>2. mined' \in [Part -> [tx : Tx, at : 0 .. MaxHeight]]
    BY <1>2, <2>1
  <2>3. tip' \in 1 .. MaxHeight /\ scanned' \in 0 .. tip'
    BY <1>1, <1>3, Heights, Bounds
  <2>4. mempool' \subseteq Tx
    BY <1>3
  <2> QED
    BY <1>1, <1>3, <2>2, <2>3, <2>4 DEF TypeOK
<1>7. NetworkInv'
  <2>1. ASSUME NEW t \in mempool'
        PROVE  mined'[t.part].at = 0 /\ t.expiry > tip' /\ t.gen < born'[t.part]
    <3>1. t \in mempool /\ t \notin in /\ t.expiry > tip + 1 /\ t.part \in Part
      BY <1>2, <1>3, <2>1, Heights
    <3>2. ~ \E u \in in : u.part = t.part
      BY <1>3, <3>1 DEF NetworkInv
    <3> QED
      BY <1>1, <1>3, <1>5, <3>1, <3>2 DEF NetworkInv
  <2>2. \A t, u \in mempool' : t.part = u.part => t = u
    BY <1>3 DEF NetworkInv
  <2>3. ASSUME NEW p \in Part
        PROVE  /\ mined'[p].tx.part = p /\ mined'[p].at <= tip'
               /\ mined'[p].at > 0 => mined'[p].tx.gen < born'[p]
               /\ mined'[p].at \in 1 .. scanned' => mined'[p].tx \in stored'
    <3>1. CASE \E t \in in : t.part = p
      <4>1. mined'[p].tx.gen < born'[p]
        BY <1>1, <1>3, <1>4, <3>1 DEF NetworkInv
      <4>2. mined'[p].at = tip + 1 /\ ~(tip + 1 \in 1 .. scanned)
        BY <1>3, <1>4, <3>1, Heights
      <4> QED
        BY <1>1, <1>3, <1>4, <3>1, <4>1, <4>2, Heights
    <3>2. CASE ~ \E t \in in : t.part = p
      <4>1. mined'[p] = mined[p] /\ mined[p].at <= tip + 1
        BY <1>3, <1>5, <3>2, Heights DEF NetworkInv
      <4> QED
        BY <1>1, <1>3, <4>1 DEF NetworkInv
    <3> QED
      BY <3>1, <3>2
  <2> QED
    BY <2>1, <2>2, <2>3 DEF NetworkInv
<1>8. ASSUME NEW t \in Tx, Known(t)' PROVE Known(t)
  <2>1. CASE t \in mempool'
    BY <1>3, <2>1 DEF Known
  <2>2. CASE mined'[t.part].at > 0 /\ mined'[t.part].tx = t
    <3>1. CASE t.part \in Part /\ \E u \in in : u.part = t.part
      BY <1>3, <1>4, <2>2, <3>1 DEF Known
    <3>2. CASE t.part \in Part /\ ~ \E u \in in : u.part = t.part
      BY <1>5, <2>2, <3>2 DEF Known, OnChain
    <3> QED
      BY <1>3, <3>1, <3>2, Heights
  <2> QED
    BY <1>8, <2>1, <2>2 DEF Known, OnChain
<1>9. ASSUME Migrated PROVE Migrated'
  <2>1. \A p \in Part : mined[p].at > 0 /\ mined'[p] = mined[p]
    BY <1>4, <1>5, <1>9 DEF Migrated
  <2> QED
    BY <1>1, <1>3, <1>9, <2>1, Heights, Bounds DEF Migrated
<1> QED
  BY <1>1, <1>3, <1>6, <1>7, <1>8, <1>9, ChainStep, Heights

\* The scan catches up.
LEMMA ScanKeeps == ASSUME TransferInv, Scan PROVE TransferInv'
<1>1. /\ scanned < tip /\ scanned' = tip
      /\ stored' = stored \cup {mined[p].tx : p \in {q \in Part : mined[q].at > 0}}
      /\ UNCHANGED <<phase, row, child, born, tip, mempool, mined, pass, redraw, faults>>
  BY DEF Scan
<1>2. TypeOK /\ NetworkInv
  BY DEF TransferInv
<1>3. TypeOK'
  <2>1. \A p \in Part : mined[p].tx \in Tx
    BY <1>2 DEF TypeOK
  <2>2. stored' \subseteq Tx
    BY <1>1, <1>2, <2>1 DEF TypeOK
  <2>3. scanned' \in 0 .. tip'
    BY <1>1, <1>2, Heights
  <2> QED
    BY <1>1, <1>2, <2>2, <2>3 DEF TypeOK
<1>4. NetworkInv'
  <2>1. \A p \in Part : mined[p].at \in 1 .. tip => mined[p].tx \in stored'
    BY <1>1, <1>2, Heights
  <2> QED
    BY <1>1, <1>2, <2>1 DEF NetworkInv
<1>5. \A t \in Tx : Known(t)' => Known(t)
  BY <1>1 DEF Known, OnChain
<1>6. Migrated => Migrated'
  BY <1>1 DEF Migrated
<1> QED
  BY <1>1, <1>2, <1>3, <1>4, <1>5, <1>6, ChainStep, Heights

\* The last block is replaced.  A run that is complete has no part in it,
\* because the trusted depth is at least two.
LEMMA ReorgKeeps == ASSUME TransferInv, Reorg PROVE TransferInv'
<1> DEFINE out == {p \in Part : mined[p].at = tip}
<1>1. /\ faults < MaxFaults /\ faults' = faults + 1
      /\ scanned' = IF scanned = tip THEN tip - 1 ELSE scanned
      /\ mined' = [p \in Part |-> IF p \in out THEN [tx |-> NoTx(p), at |-> 0] ELSE mined[p]]
      /\ UNCHANGED <<phase, row, child, born, tip, stored, pass, redraw>>
  BY DEF Reorg
<1>2. PICK back \in SUBSET {mined[p].tx : p \in out} :
          mempool' = mempool \cup {t \in back : t.expiry > tip}
  BY DEF Reorg
<1>3. TypeOK /\ NetworkInv
  BY DEF TransferInv
<1>4. ASSUME NEW t \in back
      PROVE  /\ t \in Tx /\ t.part \in out /\ t = mined[t.part].tx /\ mined[t.part].at = tip
             /\ mined'[t.part].at = 0 /\ t.gen < born[t.part] /\ Known(t)
  <2>1. PICK p \in out : t = mined[p].tx
    BY <1>2, <1>4
  <2>2. p \in Part /\ mined[p].at = tip /\ tip > 0 /\ t.part = p
    BY <1>3, <2>1, Heights DEF NetworkInv
  <2>3. t \in Tx /\ mined'[p].at = 0 /\ t.gen < born[p]
    BY <1>1, <1>3, <2>1, <2>2 DEF TypeOK, NetworkInv
  <2> QED
    BY <2>1, <2>2, <2>3 DEF Known, OnChain
<1>5. ASSUME NEW p \in Part
      PROVE  \/ mined'[p] = mined[p]
             \/ /\ mined'[p].at = 0 /\ mined'[p].tx = NoTx(p)
                /\ mined'[p] = [tx |-> NoTx(p), at |-> 0]
  BY <1>1
<1>6. scanned' \in Nat /\ scanned' <= tip /\ scanned' <= scanned
  BY <1>1, <1>3, Heights
<1>7. TypeOK'
  <2>1. ASSUME NEW p \in Part PROVE mined'[p] \in [tx : Tx, at : 0 .. MaxHeight]
    <3>1. CASE mined'[p] = mined[p]
      BY <1>3, <3>1 DEF TypeOK
    <3>2. CASE mined'[p] = [tx |-> NoTx(p), at |-> 0]
      <4>1. 0 \in 0 .. MaxHeight /\ NoTx(p) \in Tx
        BY Bounds, NoTxOK
      <4> QED
        BY <3>2, <4>1
    <3> QED
      BY <1>5, <3>1, <3>2
  <2>2. mined' \in [Part -> [tx : Tx, at : 0 .. MaxHeight]]
    BY <1>1, <2>1
  <2>3. mempool' \subseteq Tx
    BY <1>2, <1>3, <1>4 DEF TypeOK
  <2>4. faults' \in 0 .. MaxFaults
    BY <1>1, <1>3, Bounds DEF TypeOK
  <2>5. scanned' \in 0 .. tip'
    BY <1>1, <1>3, <1>6, Heights
  <2> QED
    BY <1>1, <1>3, <2>2, <2>3, <2>4, <2>5 DEF TypeOK
<1>8. NetworkInv'
  <2>1. ASSUME NEW t \in mempool'
        PROVE  mined'[t.part].at = 0 /\ t.expiry > tip' /\ t.gen < born'[t.part]
    <3>1. CASE t \in mempool
      <4>1. t.part \in Part /\ mined[t.part].at = 0 /\ t.expiry > tip /\ t.gen < born[t.part]
        BY <1>3, <3>1, Heights DEF NetworkInv, TypeOK
      <4> QED
        BY <1>1, <1>5, <4>1
    <3>2. CASE t \in back /\ t.expiry > tip
      BY <1>1, <1>4, <3>2
    <3> QED
      BY <1>2, <3>1, <3>2
  <2>2. ASSUME NEW t \in mempool', NEW u \in mempool', t.part = u.part PROVE t = u
    <3>1. \A v \in back, w \in mempool : v.part # w.part
      BY <1>3, <1>4, Heights DEF NetworkInv
    <3>2. \A v, w \in back : v.part = w.part => v = w
      BY <1>4
    <3>3. \A v, w \in mempool : v.part = w.part => v = w
      BY <1>3 DEF NetworkInv
    <3> QED
      BY <1>2, <2>2, <3>1, <3>2, <3>3
  <2>3. ASSUME NEW p \in Part
        PROVE  /\ mined'[p].tx.part = p /\ mined'[p].at <= tip'
               /\ mined'[p].at > 0 => mined'[p].tx.gen < born'[p]
               /\ mined'[p].at \in 1 .. scanned' => mined'[p].tx \in stored'
    <3>1. CASE mined'[p] = mined[p]
      <4>1. mined[p].at \in 1 .. scanned' => mined[p].at \in 1 .. scanned
        BY <1>3, <1>6, Heights
      <4> QED
        BY <1>1, <1>3, <3>1, <4>1 DEF NetworkInv
    <3>2. CASE mined'[p].at = 0 /\ mined'[p].tx = NoTx(p)
      <4>1. ~(0 \in 1 .. scanned')
        BY <1>6
      <4> QED
        BY <1>1, <1>3, <3>2, <4>1, NoTxOK, Heights
    <3> QED
      BY <1>5, <3>1, <3>2
  <2> QED
    BY <2>1, <2>2, <2>3 DEF NetworkInv
<1>9. ASSUME NEW t \in Tx, Known(t)' PROVE Known(t)
  <2>1. CASE t \in mempool'
    BY <1>2, <1>4, <2>1 DEF Known
  <2>2. CASE mined'[t.part].at > 0 /\ mined'[t.part].tx = t
    <3>1. t.part \in Part
      BY <1>3, Heights
    <3>2. ASSUME mined'[t.part].at = 0 PROVE FALSE
      BY <2>2, <3>2
    <3>3. mined'[t.part] = mined[t.part]
      BY <1>5, <3>1, <3>2
    <3> QED
      BY <2>2, <3>3 DEF Known, OnChain
  <2> QED
    BY <1>9, <2>1, <2>2 DEF Known, OnChain
<1>10. ASSUME Migrated PROVE Migrated'
  <2>1. ASSUME NEW p \in Part PROVE mined'[p] = mined[p]
    <3>1. mined[p].at # tip
      BY <1>3, <1>10, Heights, Bounds DEF Migrated
    <3> QED
      BY <1>1, <3>1
  <2> QED
    BY <1>1, <1>10, <2>1 DEF Migrated
<1> QED
  BY <1>1, <1>3, <1>7, <1>8, <1>9, <1>10, ChainStep, Heights

----------------------------------------------------------------------------
(* The specification                                                       *)

\* It holds initially.
LEMMA InitInv == Init => TransferInv
<1> SUFFICES ASSUME Init PROVE TransferInv
  OBVIOUS
<1>1. row \in [Part -> Row] /\ \A p \in Part : row[p].status = "none" /\ row[p].tx.part = p
  <2>1. PICK d \in [Part -> 0 .. MaxDelay] :
          row = [p \in Part |-> [SignedRow(p, d[p]) EXCEPT !.status = "none"]]
    BY DEF Init
  <2>2. ASSUME NEW p \in Part PROVE SignedRow(p, d[p]) \in Row /\ SignedRow(p, d[p]).tx.part = p
    <3>1. /\ 1 \in Height /\ 1 + d[p] \in Height /\ 1 + d[p] \in 0 .. MaxHeight + MaxDelay
          /\ 0 \in 0 .. MaxGen
      BY Bounds DEF Height
    <3>2. [part |-> p, gen |-> 0, expiry |-> Canonical(1 + d[p])] \in Tx
      BY <3>1, CanonicalBound DEF Tx
    <3>3. SignedRow(p, d[p]) = [tx |-> [part |-> p, gen |-> 0, expiry |-> Canonical(1 + d[p])],
              status |-> "scheduled", sched |-> 1 + d[p], target |-> 1, tried |-> FALSE]
      BY DEF SignedRow, Init
    <3> QED
      BY <3>1, <3>2, <3>3 DEF Row, Statuses
  <2>3. ASSUME NEW p \in Part
        PROVE  /\ [SignedRow(p, d[p]) EXCEPT !.status = "none"] \in Row
               /\ [SignedRow(p, d[p]) EXCEPT !.status = "none"].status = "none"
               /\ [SignedRow(p, d[p]) EXCEPT !.status = "none"].tx.part = p
    BY <2>2 DEF Row, Statuses
  <2> QED
    BY <2>1, <2>3
<1>2. \A p \in Part : mined[p] = [tx |-> NoTx(p), at |-> 0] /\ mined[p].at = 0 /\ mined[p].tx = NoTx(p)
  BY DEF Init
<1>3. pass \in PassType /\ pass.pc = "idle" /\ pass.tip = 0
  BY IdleOK DEF Init
<1>4. TypeOK
  <2>1. row \in [Part -> Row] /\ \A p \in Part : row[p].tx.part = p
    BY <1>1
  <2>2. 0 \in 0 .. MaxGen + 1 /\ 1 \in 1 .. MaxHeight /\ 1 \in 0 .. 1 /\ 0 \in 0 .. MaxHeight
        /\ 0 \in 0 .. MaxFaults
    BY Bounds
  <2>3. mined \in [Part -> [tx : Tx, at : 0 .. MaxHeight]]
    BY <1>2, <2>2, NoTxOK DEF Init
  <2>4. redraw \in [txs : SUBSET Tx, tip : 0 .. MaxHeight]
    BY IdleOK DEF Init
  <2>5. born \in [Part -> 0 .. MaxGen + 1]
    BY <2>2 DEF Init
  <2> QED
    BY <1>3, <2>1, <2>2, <2>3, <2>4, <2>5 DEF Init, TypeOK, PassType, Phases
<1>5. NetworkInv
  BY <1>2, NoTxOK DEF Init, NetworkInv
<1>6. RowInv
  BY <1>1 DEF RowInv
<1>7. PassInv
  BY <1>3 DEF Init, PassInv, StoreChecked
<1>8. CompleteMeansMigrated /\ RetiredRunIsStored
  BY DEF Init, CompleteMeansMigrated, RetiredRunIsStored
<1> QED
  BY <1>4, <1>5, <1>6, <1>7, <1>8 DEF TransferInv

\* Every step keeps it.
LEMMA StepInv == TransferInv /\ [Next]_vars => TransferInv'
<1> SUFFICES ASSUME TransferInv, [Next]_vars PROVE TransferInv'
  OBVIOUS
<1>1. CASE PassStep
  BY <1>1, RetryStoreKeeps, CheckPolicyKeeps, CheckExpiryKeeps, RebuildKeeps, SelectDueKeeps,
     AttemptKeeps, SubmitKeeps, AnswerKeeps, RecordKeeps, RedrawOverdueKeeps, AskKeeps,
     AbandonKeeps DEF PassStep
<1>2. CASE \E p \in Part : Promote(p)
  BY <1>2, PromoteKeeps
<1>3. CASE \E resume \in BOOLEAN : Begin(resume)
  BY <1>3, BeginKeeps
<1>4. CASE BeginStop \/ RetireUnbroadcast \/ Crash
  BY <1>4, BeginStopKeeps, RetireKeeps, CrashKeeps
<1>5. CASE PostSync \/ RedrawReads \/ RedrawApplies
  BY <1>5, PostSyncKeeps, RedrawReadsKeeps, RedrawAppliesKeeps
<1>6. CASE Mine \/ Scan \/ Reorg
  BY <1>6, MineKeeps, ScanKeeps, ReorgKeeps
<1>7. CASE UNCHANGED vars
  BY <1>7 DEF vars, TransferInv, TypeOK, NetworkInv, RowInv, PassInv, CompleteMeansMigrated,
     RetiredRunIsStored, Missing, With, Known, OnChain, KnownAreIn
<1> QED
  BY <1>1, <1>2, <1>3, <1>4, <1>5, <1>6, <1>7 DEF Next, Foreground

\* The invariant of the transfer phase: whatever the chain, the post-sync
\* reconciliation, the redraw for another account and crashes do between the
\* steps of a pass, what the pass found out before still holds when it acts
\* on it.
THEOREM TransferInvariant == Spec => []TransferInv
BY InitInv, StepInv, PTL DEF Spec

\* Every row, transaction and height stays in its type, for every value of
\* the constants.
THEOREM TransferTyping == Spec => []TypeOK
<1>1. TransferInv => TypeOK
  BY DEF TransferInv
<1> QED
  BY <1>1, TransferInvariant, PTL

\* reconcile_run_confirmations sets "complete" only when every part is mined
\* at the trusted depth, and no later step makes that false.
THEOREM CompleteAlwaysMigrated == Spec => []CompleteMeansMigrated
<1>1. TransferInv => CompleteMeansMigrated
  BY DEF TransferInv
<1> QED
  BY <1>1, TransferInvariant, PTL

\* mark_pending_broadcast_attempted is on disk before the network can know
\* the transaction, whatever rows were signed again in between.
THEOREM KnownTxAlwaysAttempted == Spec => []KnownTxWasAttempted
<1>1. TransferInv => KnownTxWasAttempted
  BY DEF TransferInv, RowInv, KnownTxWasAttempted
<1> QED
  BY <1>1, TransferInvariant, PTL

\* A pass that retires a run has stored every transaction that was recorded
\* as accepted, although the rows may change after it has looked.
THEOREM RetiredRunAlwaysStored == Spec => []RetiredRunIsStored
<1>1. TransferInv => RetiredRunIsStored
  BY DEF TransferInv
<1> QED
  BY <1>1, TransferInvariant, PTL

\* abandon_run deletes a scheduled row only if the network does not know its
\* transaction or the wallet database has it: the answer of the network is
\* older than the deletion, and still good.
THEOREM StopAlwaysKeepsScheduledTx == Spec => StopKeepsScheduledTx
<1> DEFINE keeps ==
             pass.pc = "abandon" /\ phase' = "abandoned" =>
               \A p \in Part : row[p].status = "scheduled" /\ row'[p].status = "none" =>
                 (Known(row[p].tx) => row[p].tx \in stored)
<1>1. TransferInv /\ [Next]_vars => [keeps]_vars
  BY DEF TransferInv, PassInv, KnownAreIn
<1> HIDE DEF keeps
<1>2. Spec => [][keeps]_vars
  BY <1>1, TransferInvariant, PTL DEF Spec
<1> QED
  BY <1>2 DEF StopKeepsScheduledTx, keeps
============================================================================
