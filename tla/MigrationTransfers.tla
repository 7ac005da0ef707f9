------------------------- MODULE MigrationTransfers -------------------------
(***************************************************************************)
(* The transfer phase of one Ironwood migration run                        *)
(* (rust/src/wallet/sync/migration.rs, send.rs and                         *)
(* send/ironwood_migration/status_advance.rs).                             *)
(*                                                                         *)
(* A run moves its prepared notes, one transaction per part, at scheduled  *)
(* heights.  Each transaction expires at a height that is canonical for    *)
(* the ZIP 318 window it is broadcast in, so a part that misses its window *)
(* is signed again.  A row of PENDING_TXS_TABLE records what became of the *)
(* part's current transaction.                                             *)
(*                                                                         *)
(* Foreground operations on the account (a broadcast pass, resuming,       *)
(* stopping, recovery) exclude one another through ActiveIronwoodMigration.*)
(* The end of a scan, a redraw made on behalf of another account, and the  *)
(* network take no guard.                                                  *)
(***************************************************************************)
EXTENDS Integers, FiniteSets

CONSTANTS
    Part,         \* the planned parts, each with its own note
    Window,       \* blocks in a ZIP 318 expiry window (34560)
    Depth,        \* denomination_confirmations_required
    SafetyBlocks, \* UNBROADCAST_MIGRATION_RECOVERY_SAFETY_BLOCKS
    MaxDelay,     \* longest delay a schedule draws
    MaxHeight,    \* bound on the chain
    MaxGen,       \* bound on how often a part is signed again
    MaxFaults     \* bound on crashes and reorganizations

ASSUME TransferConstants ==
    /\ Part # {} /\ Window \in Nat \ {0} /\ Depth \in Nat \ {0, 1}
    /\ SafetyBlocks \in Nat /\ MaxDelay \in Nat /\ MaxHeight \in Nat \ {0} /\ MaxGen \in Nat
    /\ MaxFaults \in Nat

VARIABLES
    phase,    \* RUNS_TABLE.phase
    row,      \* PENDING_TXS_TABLE, one row per part; without a status, what the
              \* signed child says of the row it will become
    child,    \* parts whose signed child PCZT is not yet promoted
    born,     \* how many transactions were made for a part
    tip,      \* the network's chain tip, which the wallet is told
    scanned,  \* the wallet's scanned height
    mempool,  \* transactions waiting to be mined
    mined,    \* the transaction that spent a part's note on chain
    stored,   \* transactions the wallet database holds (transactions.raw)
    pass,     \* the foreground operation under way
    redraw,   \* rows read by a redraw made for another account
    faults    \* crashes and reorganizations so far

vars == <<phase, row, child, born, tip, scanned, mempool, mined, stored, pass, redraw, faults>>

chain == <<tip, scanned, mempool, mined>>

Terminal == {"complete", "failed_terminal", "abandoned"}
Phases == {"ready_to_migrate", "broadcast_scheduled", "broadcasting", "failed_recoverable",
           "waiting_migration_confirmations"} \cup Terminal
Statuses == {"none", "scheduled", "broadcasted", "confirmed", "needs_resign"}
Steps == {"idle", "store", "policy", "expiry", "rebuild", "due", "attempt", "submit", "answer",
          "mark", "redraw", "ask", "abandon"}

Height == 0 .. MaxHeight + MaxDelay + 2 * Window
Tx == [part : Part, gen : 0 .. MaxGen, expiry : Height]
NoTx(p) == [part |-> p, gen |-> 0, expiry |-> 0]
Row == [tx : Tx, status : Statuses, sched : Height, target : Height, tried : BOOLEAN]
NoRow(p) == [tx |-> NoTx(p), status |-> "none", sched |-> 0, target |-> 0, tried |-> FALSE]
AnyTx == CHOOSE t \in Tx : t.gen = 0 /\ t.expiry = 0
Idle == [pc |-> "idle", tip |-> 0, resume |-> FALSE, tx |-> AnyTx, ask |-> {}, outcome |-> "none"]

NoRedraw == [txs |-> {}, tip |-> 0]

TypeOK ==
    /\ phase \in Phases
    /\ row \in [Part -> Row] /\ \A p \in Part : row[p].tx.part = p
    /\ child \subseteq Part /\ born \in [Part -> 0 .. MaxGen + 1]
    /\ tip \in 1 .. MaxHeight /\ scanned \in 0 .. tip
    /\ mempool \subseteq Tx /\ stored \subseteq Tx
    /\ mined \in [Part -> [tx : Tx, at : 0 .. MaxHeight]]
    /\ pass \in [pc : Steps, tip : 0 .. MaxHeight, resume : BOOLEAN, tx : Tx, ask : SUBSET Tx,
                 outcome : {"none", "accepted", "rejected", "ambiguous"}]
    /\ redraw \in [txs : SUBSET Tx, tip : 0 .. MaxHeight]
    /\ faults \in 0 .. MaxFaults

----------------------------------------------------------------------------
\* zip318_canonical_migration_expiry_height
Canonical(h) == (h - (h % Window)) + 2 * Window

OnChain(t) == mined[t.part].at > 0 /\ mined[t.part].tx = t

\* local_denomination_chain_identity: mined in a block the wallet has scanned.
Identity(t) == OnChain(t) /\ mined[t.part].at <= scanned

\* Mutant: any confirmation will do.
DeepUnchecked(t) == Identity(t)

\* synced_orchard_confirmation_count reaches the trusted depth.
Deep(t) == Identity(t) /\ scanned - mined[t.part].at + 1 >= Depth

Rows == {p \in Part : row[p].status # "none"}
With(status) == {p \in Part : row[p].status = status}

\* The note of a part as get_spendable_note sees it: not spent in a scanned
\* block, nor by a stored transaction that can still be mined.
Spendable(p) ==
    /\ ~(mined[p].at \in 1 .. scanned)
    /\ \A t \in stored : t.part = p => t.expiry <= scanned

\* A signed transaction for p, scheduled d blocks from now.
SignedRow(p, d) ==
    [tx |-> [part |-> p, gen |-> born[p], expiry |-> Canonical(tip + d)],
     status |-> "scheduled", sched |-> tip + d, target |-> tip, tried |-> FALSE]

\* Denominations are prepared (until then the run waits in MigrationStages) and
\* every part has a signed child, whose schedule and expiry are final but for
\* Rebased.
Init ==
    /\ phase = "ready_to_migrate"
    /\ child = Part /\ born = [p \in Part |-> 0]
    /\ tip = 1 /\ scanned = 1
    /\ row \in {[p \in Part |-> [SignedRow(p, d[p]) EXCEPT !.status = "none"]] :
                  d \in [Part -> 0 .. MaxDelay]}
    /\ mempool = {} /\ stored = {}
    /\ mined = [p \in Part |-> [tx |-> NoTx(p), at |-> 0]]
    /\ pass = Idle /\ redraw = NoRedraw /\ faults = 0
----------------------------------------------------------------------------
(* reconcile_run_confirmations: the rows, and the phase, it leaves behind. *)

ReconciledRow(p) ==
    IF row[p].status \in {"scheduled", "broadcasted"} /\ Identity(row[p].tx)
    THEN [row[p] EXCEPT !.status = "confirmed"]
    ELSE IF row[p].status = "confirmed" /\ ~Identity(row[p].tx)
    THEN [row[p] EXCEPT !.status = "scheduled", !.sched = row[p].target]
    ELSE row[p]

ReconciledRows == IF phase \in Terminal THEN row ELSE [p \in Part |-> ReconciledRow(p)]

Rescheduled == \E p \in Part : row[p].status = "confirmed" /\ ~Identity(row[p].tx)

\* Mutant: completes on the rows there are.
AllPromotedConfirmed(rows) ==
    /\ \E p \in Part : rows[p].status # "none"
    /\ \A p \in Part : rows[p].status \in {"none", "confirmed"}

\* Every planned part is promoted and confirmed.
AllConfirmed(rows) == child = {} /\ \A p \in Part : rows[p].status = "confirmed"

ReconciledPhase ==
    LET rows == ReconciledRows
        resumed == IF Rescheduled THEN "broadcast_scheduled" ELSE phase
    IN  IF phase \in Terminal THEN phase
        ELSE IF AllConfirmed(rows)
             THEN IF \A p \in Part : rows[p].status = "confirmed" => Deep(rows[p].tx)
                  THEN "complete" ELSE resumed
        ELSE IF /\ resumed = "waiting_migration_confirmations"
                /\ child # {} \/ \A p \in Part : rows[p].status \in {"none", "confirmed"}
             THEN "broadcast_scheduled"
        ELSE resumed

Reconcile == row' = ReconciledRows /\ phase' = ReconciledPhase

\* update_run_after_pending_broadcast, whatever phase the run is in.
PhaseAfterBroadcast(rows) ==
    IF \E p \in Part : rows[p].status = "needs_resign" THEN "ready_to_migrate"
    ELSE IF \/ \E p \in Part : rows[p].status \in {"none", "scheduled"}
            \/ child # {}
         THEN "broadcast_scheduled"
    ELSE "waiting_migration_confirmations"

\* mark_pending_broadcasted, for a set of transactions.
MarkBroadcasted(txs) ==
    LET rows == [p \in Part |-> IF row[p].status # "none" /\ row[p].tx \in txs
                                THEN [row[p] EXCEPT !.status = "broadcasted"] ELSE row[p]]
    IN  row' = rows /\ phase' = PhaseAfterBroadcast(rows)

\* pending_row_is_expired_for_resign
ExpiredForResign(r, h) ==
    /\ r.tx.expiry <= h
    /\ r.status = "scheduled" \/ (r.status = "broadcasted" /\ r.tx \in stored)

\* Rows for which c holds are to be signed again.
Resigned(rows, c(_)) ==
    [p \in Part |-> IF c(rows[p]) THEN [rows[p] EXCEPT !.status = "needs_resign"] ELSE rows[p]]

\* mark_expired_pending_parts_for_resign: one transaction; the phase is set
\* whatever it was when a row was flipped.
MarkExpired(h) ==
    LET expired(r) == ExpiredForResign(r, h)
        rows == ReconciledRows
    IN  /\ row' = Resigned(rows, expired)
        /\ phase' = IF \E p \in Part : expired(rows[p]) THEN "ready_to_migrate"
                    ELSE ReconciledPhase

NoncanonicalDue(r, h) == r.status = "scheduled" /\ r.sched <= h /\ r.tx.expiry # Canonical(h)

\* mark_due_parts_with_noncanonical_broadcast_height_for_resign
MarkNoncanonical(h) ==
    LET late(r) == NoncanonicalDue(r, h)
        rows == ReconciledRows
    IN  /\ row' = Resigned(rows, late)
        /\ phase' = IF \E p \in Part : late(rows[p]) THEN "ready_to_migrate"
                    ELSE ReconciledPhase

Goto(step) == pass' = [pass EXCEPT !.pc = step]
Return == pass' = Idle
----------------------------------------------------------------------------
(* The broadcast pass and resuming                                         *)

\* rebase_initial_signed_schedule_for_anchor_readiness_with_tx: with the first
\* promotion the schedule starts again at height h, if that is later and leaves
\* every part in its window.
Rebased(h) ==
    LET later(p) == row[p].sched + (h - row[p].target) IN
    IF /\ Rows = {}
       /\ \A p \in Part : h > row[p].target /\ Canonical(later(p)) = row[p].tx.expiry
    THEN [p \in Part |-> [row[p] EXCEPT !.sched = later(p)]]
    ELSE row

\* finalize_presigned_migration_children: a child is proved and becomes a row.
\* The scanned height was read before the proof.
Promote(p) ==
    /\ pass.pc = "idle" /\ phase \in {"ready_to_migrate", "broadcast_scheduled"}
    /\ p \in child /\ Spendable(p) /\ born[p] <= MaxGen
    /\ \E h \in 0 .. scanned :
          row' = [Rebased(h) EXCEPT ![p].status = "scheduled", ![p].tx.gen = born[p]]
    /\ born' = [born EXCEPT ![p] = @ + 1]
    /\ child' = child \ {p}
    /\ phase' = "broadcast_scheduled"
    /\ UNCHANGED <<chain, stored, pass, redraw, faults>>

\* broadcast_due_orchard_migration_transactions, or migrate_orchard_to_ironwood
\* on a run that exists (resume).  The tip it works with is the one the last
\* sync stored: the chain may have grown since, and the scan may be behind.
Begin(resume) ==
    /\ pass.pc = "idle" /\ phase \notin Terminal /\ Rows # {}
    /\ \E h \in scanned .. tip :
          pass' = [Idle EXCEPT !.pc = "store", !.tip = h, !.resume = resume]
    /\ UNCHANGED <<phase, row, child, born, chain, stored, redraw, faults>>

Missing == {row[p].tx : p \in With("broadcasted")} \ stored

\* Mutant: the pass goes on although a transaction is still missing.
RetryStoreFallsThrough ==
    /\ pass.pc = "store"
    /\ \E s \in SUBSET Missing : stored' = stored \cup s
    /\ Reconcile
    /\ Goto("policy")
    /\ UNCHANGED <<child, born, chain, redraw, faults>>

\* retry_store_broadcasted_migration_txs_missing_local and the confirmations:
\* a transaction that cannot be stored ends the pass.
RetryStore ==
    /\ pass.pc = "store"
    /\ \E s \in SUBSET Missing :
          /\ stored' = stored \cup s
          /\ Reconcile
          /\ IF \A p \in Part : row'[p].status = "broadcasted" => row'[p].tx \in stored'
             THEN Goto("policy") ELSE Return
    /\ UNCHANGED <<child, born, chain, redraw, faults>>

\* scheduled_inputs_spent_by_mined_transactions
SpentElsewhere ==
    \E p \in Part : /\ row[p].status \in {"scheduled", "broadcasted", "needs_resign"}
                    /\ mined[p].at \in 1 .. scanned /\ mined[p].tx # row[p].tx

\* pending_migration_policy_rebuild_message, and retire_run_for_rebuild.
CheckPolicy ==
    /\ pass.pc = "policy"
    /\ IF SpentElsewhere THEN phase' = "failed_terminal" /\ Return
       ELSE Goto("expiry") /\ UNCHANGED phase
    /\ UNCHANGED <<row, child, born, chain, stored, redraw, faults>>

\* A pass ends when a part expired or missed its window; resuming marks the
\* expired parts and goes on to sign what has to be signed.
CheckExpiry ==
    /\ pass.pc = "expiry"
    /\ LET rows == ReconciledRows
           expired == \E p \in Part : ExpiredForResign(rows[p], pass.tip)
           late == \E p \in Part : NoncanonicalDue(rows[p], pass.tip)
       IN  \/ /\ pass.resume \/ expired
              /\ MarkExpired(pass.tip)
              /\ IF pass.resume THEN Goto("rebuild") ELSE Return
           \/ /\ ~pass.resume /\ ~expired
              /\ MarkNoncanonical(pass.tip)
              /\ IF late THEN Return ELSE Goto("due")
    /\ UNCHANGED <<child, born, chain, stored, redraw, faults>>

\* rebuild_expired_software_migration_parts: every part that needs it is
\* signed again, all in one replacement, or none is.
Rebuild ==
    /\ pass.pc = "rebuild"
    /\ LET again == With("needs_resign")
       IN  \/ /\ again # {} /\ \A p \in again : Spendable(p) /\ born[p] <= MaxGen
              /\ \E d \in [again -> 0 .. MaxDelay] :
                    row' = [p \in Part |-> IF p \in again THEN SignedRow(p, d[p]) ELSE row[p]]
              /\ born' = [p \in Part |-> IF p \in again THEN born[p] + 1 ELSE born[p]]
              /\ phase' = "broadcast_scheduled"
              /\ pass' = [pass EXCEPT !.pc = "store", !.resume = FALSE]
           \/ /\ again # {} /\ \E p \in again : ~Spendable(p) \/ born[p] > MaxGen
              /\ Return /\ UNCHANGED <<row, born, phase>>
           \/ /\ again = {}
              /\ pass' = [pass EXCEPT !.pc = "store", !.resume = FALSE]
              /\ UNCHANGED <<row, born, phase>>
    /\ UNCHANGED <<child, chain, stored, redraw, faults>>

\* due_pending_txs: the earliest scheduled row that is due and not mined.
DuePart(rows, p) ==
    /\ rows[p].status = "scheduled" /\ rows[p].sched <= pass.tip /\ ~Identity(rows[p].tx)
    /\ \A q \in Part : rows[q].status = "scheduled" /\ ~Identity(rows[q].tx)
                           => rows[p].sched <= rows[q].sched

SelectDue ==
    /\ pass.pc = "due"
    /\ row' = ReconciledRows
    /\ \/ /\ \A p \in Part : ~DuePart(row', p)
          /\ phase' = ReconciledPhase /\ Return
       \/ \E p \in Part :
            /\ DuePart(row', p)
            /\ IF row'[p].tx.expiry = Canonical(row'[p].sched)
               THEN /\ phase' = "broadcasting"
                    /\ pass' = [pass EXCEPT !.pc = "attempt", !.tx = row'[p].tx]
               ELSE phase' = ReconciledPhase /\ Return
    /\ UNCHANGED <<child, born, chain, stored, redraw, faults>>

\* Mutant: the attempt is recorded only when the answer is known.
AttemptUnrecorded ==
    /\ pass.pc = "attempt"
    /\ Goto("submit")
    /\ UNCHANGED <<phase, row, child, born, chain, stored, redraw, faults>>

\* mark_pending_broadcast_attempted
Attempt ==
    /\ pass.pc = "attempt"
    /\ LET p == pass.tx.part IN
       IF row[p].tx = pass.tx /\ row[p].status = "scheduled"
       THEN row' = [row EXCEPT ![p].tried = TRUE] /\ Goto("submit")
       ELSE Return /\ UNCHANGED row
    /\ UNCHANGED <<phase, child, born, chain, stored, redraw, faults>>

Known(t) == t \in mempool \/ OnChain(t)

\* The network takes a transaction that has not expired and whose note
\* nothing else spends.
Acceptable(t) ==
    /\ t.expiry > tip /\ mined[t.part].at = 0
    /\ \A u \in mempool : u.part # t.part

\* The transaction reaches the server, or is lost, and so may the answer be
\* (external).  A transaction the server already has counts as accepted.
Submit ==
    /\ pass.pc = "submit"
    /\ \/ /\ Known(pass.tx) \/ Acceptable(pass.tx)
          /\ mempool' = IF OnChain(pass.tx) THEN mempool ELSE mempool \cup {pass.tx}
          /\ \E o \in {"accepted", "ambiguous"} :
                pass' = [pass EXCEPT !.pc = "answer", !.outcome = o]
       \/ /\ ~Known(pass.tx)
          /\ \E o \in {"rejected", "ambiguous"} :
                pass' = [pass EXCEPT !.pc = "answer", !.outcome = o]
          /\ UNCHANGED mempool
    /\ UNCHANGED <<phase, row, child, born, tip, scanned, mined, stored, redraw, faults>>

\* The answer: a rejection retires the run, an unknown outcome leaves it
\* recoverable, and an accepted transaction is stored if that is possible.
Answer ==
    /\ pass.pc = "answer"
    /\ \/ /\ pass.outcome = "rejected"
          /\ phase' = "failed_terminal" /\ Return /\ UNCHANGED stored
       \/ /\ pass.outcome = "ambiguous"
          /\ phase' = "failed_recoverable" /\ Return /\ UNCHANGED stored
       \/ /\ pass.outcome = "accepted"
          /\ stored' \in {stored, stored \cup {pass.tx}}
          /\ Goto("mark") /\ UNCHANGED phase
    /\ UNCHANGED <<row, child, born, chain, redraw, faults>>

\* record_accepted_scheduled_migration_tx
Record ==
    /\ pass.pc = "mark"
    /\ MarkBroadcasted({pass.tx})
    /\ Goto("redraw")
    /\ UNCHANGED <<child, born, chain, stored, redraw, faults>>

Overdue(h) == {p \in With("scheduled") : row[p].sched <= h}

\* A row redrawn d blocks from h, or marked when that leaves its window.
RedrawnRow(p, h, d) ==
    IF row[p].tx.expiry = Canonical(h + d) THEN [row[p] EXCEPT !.sched = h + d]
    ELSE [row[p] EXCEPT !.status = "needs_resign"]

\* reschedule_overdue_pending_txs: the parts that are still overdue get new
\* heights, at least one block away on a wallet-open pass.
RedrawOverdue ==
    /\ pass.pc = "redraw"
    /\ \E d \in [Overdue(pass.tip) -> 0 .. MaxDelay] :
          /\ row' = [p \in Part |-> IF p \in Overdue(pass.tip)
                                    THEN RedrawnRow(p, pass.tip, d[p]) ELSE row[p]]
          /\ phase' = IF \E p \in Overdue(pass.tip) : row'[p].status = "needs_resign"
                      THEN "ready_to_migrate" ELSE phase
    /\ Return
    /\ UNCHANGED <<child, born, chain, stored, redraw, faults>>
----------------------------------------------------------------------------
(* Stopping, and recovery of a run that was never broadcast                *)

\* scheduled_migration_stop_candidates that were, or may have been, sent.
StopCandidates ==
    {row[p].tx : p \in {q \in With("scheduled") : row[q].tried}} \cup Missing

\* abandon_orchard_migration: without an attempt the network is not asked.
BeginStop ==
    /\ pass.pc = "idle" /\ phase \notin {"complete", "failed_terminal"}
    /\ pass' = [Idle EXCEPT !.tip = tip, !.ask = StopCandidates,
                            !.pc = IF StopCandidates = {} THEN "abandon" ELSE "ask"]
    /\ UNCHANGED <<phase, row, child, born, chain, stored, redraw, faults>>

\* What get_transaction may say: a mined transaction is found, one in the
\* mempool perhaps not yet (external).
Answers(asked) ==
    {found \in SUBSET {t \in asked : Known(t)} : \A t \in asked : OnChain(t) => t \in found}

\* Mutant: an absent transaction never delays the stop.
MayDiscardAbsent(t) == TRUE

\* migration_stop_candidate_is_expired
MayDiscard(t) == t.expiry <= pass.tip

\* reconcile_scheduled_migration_txs_before_abandon: what is found is stored
\* and recorded; what is absent must have expired.
AskBeforeStop ==
    /\ pass.pc = "ask"
    /\ \E found \in Answers(pass.ask) :
          IF \A t \in pass.ask \ found : MayDiscard(t)
          THEN /\ stored' = stored \cup found /\ MarkBroadcasted(found)
               /\ Goto("abandon")
          ELSE /\ \E some \in SUBSET found :
                     stored' = stored \cup some /\ MarkBroadcasted(some)
               /\ Return
    /\ UNCHANGED <<child, born, chain, redraw, faults>>

\* abandon_run
Abandon ==
    /\ pass.pc = "abandon"
    /\ IF phase \in {"complete", "failed_terminal", "abandoned"}
       THEN UNCHANGED <<phase, row, child>>
       ELSE /\ phase' = "abandoned" /\ child' = {}
            /\ row' = [p \in Part |-> IF row[p].status \in {"scheduled", "needs_resign"}
                                      THEN NoRow(p) ELSE row[p]]
    /\ Return
    /\ UNCHANGED <<born, chain, stored, redraw, faults>>

\* retire_unbroadcast_orchard_migration: nothing was marked broadcast, the
\* safety margin has passed and the server has none of the transactions.
RetireUnbroadcast ==
    /\ pass.pc = "idle" /\ phase \notin Terminal
    /\ With("broadcasted") = {} /\ With("scheduled") # {}
    /\ \A p \in With("scheduled") : tip >= row[p].sched + SafetyBlocks
    /\ {} \in Answers({row[p].tx : p \in With("scheduled")})
    /\ phase' = "failed_terminal"
    /\ UNCHANGED <<row, child, born, chain, stored, pass, redraw, faults>>
----------------------------------------------------------------------------
(* What takes no guard                                                     *)

\* reconcile_wallet_locks_after_sync: the confirmations of an active run.
PostSync ==
    /\ phase \notin Terminal
    /\ Reconcile
    /\ UNCHANGED <<child, born, chain, stored, pass, redraw, faults>>

\* reschedule_wallet_overdue_pending_txs, run for another account's transfer:
\* this run's overdue rows are read ...
RedrawReads ==
    /\ redraw.txs = {} /\ Overdue(tip) # {}
    /\ redraw' = [txs |-> {row[p].tx : p \in Overdue(tip)}, tip |-> tip]
    /\ UNCHANGED <<phase, row, child, born, chain, stored, pass, faults>>

\* ... and redrawn later, if they are still scheduled; the phase is set even
\* if they are not.
RedrawApplies ==
    /\ redraw.txs # {}
    /\ \E d \in [redraw.txs -> 1 .. MaxDelay] :
          /\ row' = [p \in Part |-> IF row[p].status = "scheduled" /\ row[p].tx \in redraw.txs
                                    THEN RedrawnRow(p, redraw.tip, d[row[p].tx]) ELSE row[p]]
          /\ phase' = IF \E t \in redraw.txs : t.expiry # Canonical(redraw.tip + d[t])
                      THEN "ready_to_migrate" ELSE phase
    /\ redraw' = NoRedraw
    /\ UNCHANGED <<child, born, chain, stored, pass, faults>>

\* A block is mined (external): it takes any of the waiting transactions, and
\* those that expired leave the mempool.
Mine ==
    /\ tip < MaxHeight
    /\ tip' = tip + 1
    /\ \E in \in SUBSET {t \in mempool : t.expiry > tip} :
          /\ mined' = [p \in Part |-> IF \E t \in in : t.part = p
                                      THEN [tx |-> CHOOSE t \in in : t.part = p, at |-> tip + 1]
                                      ELSE mined[p]]
          /\ mempool' = {t \in mempool \ in : t.expiry > tip + 1}
    /\ UNCHANGED <<phase, row, child, born, scanned, stored, pass, redraw, faults>>

\* Mutant: the height after the last block is taken for scanned.
ScanPastTip ==
    /\ scanned < tip
    /\ scanned' = tip + 1
    /\ stored' = stored \cup {mined[p].tx : p \in {q \in Part : mined[q].at > 0}}
    /\ UNCHANGED <<phase, row, child, born, tip, mempool, mined, pass, redraw, faults>>

\* The scan catches up and stores the wallet's transactions it meets.
Scan ==
    /\ scanned < tip
    /\ scanned' = tip
    /\ stored' = stored \cup {mined[p].tx : p \in {q \in Part : mined[q].at > 0}}
    /\ UNCHANGED <<phase, row, child, born, tip, mempool, mined, pass, redraw, faults>>

\* The last block is replaced (external); what it held may wait again.
Reorg ==
    /\ faults < MaxFaults /\ faults' = faults + 1
    /\ LET out == {p \in Part : mined[p].at = tip}
       IN  /\ mined' = [p \in Part |-> IF p \in out THEN [tx |-> NoTx(p), at |-> 0] ELSE mined[p]]
           /\ \E back \in SUBSET {mined[p].tx : p \in out} :
                 mempool' = mempool \cup {t \in back : t.expiry > tip}
    /\ scanned' = IF scanned = tip THEN tip - 1 ELSE scanned
    /\ UNCHANGED <<phase, row, child, born, tip, stored, pass, redraw>>

\* The process is killed.
Crash ==
    /\ faults < MaxFaults /\ faults' = faults + 1
    /\ pass' = Idle /\ redraw' = NoRedraw
    /\ UNCHANGED <<phase, row, child, born, chain, stored>>

PassStep ==
    \/ RetryStore \/ CheckPolicy \/ CheckExpiry \/ Rebuild \/ SelectDue \/ Attempt \/ Submit
    \/ Answer \/ Record \/ RedrawOverdue \/ AskBeforeStop \/ Abandon

Foreground ==
    \/ \E p \in Part : Promote(p)
    \/ \E resume \in BOOLEAN : Begin(resume)
    \/ BeginStop \/ RetireUnbroadcast
    \/ PassStep

Next == Foreground \/ PostSync \/ RedrawReads \/ RedrawApplies \/ Mine \/ Scan \/ Reorg \/ Crash

Spec == Init /\ [][Next]_vars

----------------------------------------------------------------------------
\* A run is complete only when every planned part's note was spent by a
\* transaction of the run at the trusted depth, whatever was re-signed,
\* reorganized or stopped half way before.
CompleteMeansMigrated ==
    phase = "complete" =>
        \A p \in Part : mined[p].at > 0 /\ tip - mined[p].at + 1 >= Depth

\* The attempt is on disk before the network can know the transaction: a row
\* that says "never attempted" may be discarded without asking anyone.
KnownTxWasAttempted ==
    \A p \in Part : row[p].status = "scheduled" /\ Known(row[p].tx) => row[p].tried

\* Stopping a run deletes a scheduled row only if its transaction is not
\* known to the network or is in the wallet database, although the row may
\* have changed between the question and the deletion.
StopKeepsScheduledTx ==
    [][pass.pc = "abandon" /\ phase' = "abandoned" =>
         \A p \in Part : row[p].status = "scheduled" /\ row'[p].status = "none" =>
             (Known(row[p].tx) => row[p].tx \in stored)]_vars

\* A foreground operation never retires a run while a transaction it recorded
\* as accepted is missing from the wallet database: the note locks would go
\* before anything says that the notes are spent.
RetiredRunIsStored ==
    phase = "failed_terminal" => Missing = {}
----------------------------------------------------------------------------
(* What comments in the code say, and the code does not do.                *)

\* "stop may safely discard it": nothing a stop deletes can still be mined
\* unless the wallet database has it.
StopDiscardsNothingLive ==
    phase = "abandoned" => \A t \in mempool : t \in stored
============================================================================
