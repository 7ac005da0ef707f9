# Sybil Wallet: a TLA+ verification project

Sybil Wallet is a Zcash wallet: a Flutter/Dart application (`lib/src`) over a
Rust core (`rust/src`). The Dart side holds screens, providers and a number of
coordinators; the Rust core keeps the wallet database (librustzcash's
`zcash_client_sqlite` plus side tables of its own), builds and broadcasts
transactions, and follows the chain through lightwalletd. This directory holds
the TLA+ modules that model the core, the TLC configurations that check them,
and proofs that TLAPS checks.

## 1. Inventory

| part | state it keeps | operations | hard behaviour |
|---|---|---|---|
| proposal store, `wallet/sync/mod.rs` | `PROPOSAL_STORE`: replayable proposals and, separately, the capability to unlock their inputs; in memory | consume, look up, finish, discard, retain, mark broadcast started, release at shutdown | every lookup happens before an await and is used after it; a cancel can come in between |
| reservation side table, `wallet/sync/proposal_locks.rs` | one row per locked output: owner, session, phase, retain flag, expiry | persist, remove, retain, checkpoint, release, update expiry, recover | has to describe the locks of a process that died at any point |
| software send, `wallet/sync/send.rs` | none between calls | propose, execute, broadcast in order, resubmit pending transactions | locks lapse while the flow waits for the network |
| hardware send, `wallet/sync/pczt.rs` | none between calls | create PCZTs, broadcast signed sets, then store the prefix that may be on the network | broadcast comes before storage; delivery may be unknown; prefixes of a TEX pair |
| Ledger outbox, `wallet/ledger/operations.rs` | signed operations: pending broadcast, or result waiting for acknowledgement | checkpoint, broadcast, record outcome, acknowledge | a later process broadcasts what an earlier one signed |
| output locks (external) | owner and expiry height of each locked note | lock, unlock | shared by sends and the migration |
| migration locks, `wallet/sync/migration_wallet_ops.rs` | locks under the run's owner, never lapsing | lock, unlock | competes with sends for notes |
| sync engine, `wallet/sync_engine/` | scan queue, chain tip, mempool observer | run sync, refresh tip, rewind, recover reservations | reorgs, cancellation, mode switches, transient failures |
| write lock and epoch, `wallet/db.rs`; summary and receive caches | process-wide mutex, epoch counter, cached snapshots | run a section, read through a cache | seqlock: a snapshot taken across a write must not be served |
| chain tip cache, `sync_engine/tip_cache.rs` | last tip per endpoint | read, refresh | freshness under concurrent refreshes |
| Ironwood migration, `wallet/sync/migration*`, `migration_preparation.rs` | runs, parts, schedules in side tables | prepare, sign, broadcast parts, reconcile | long-lived, resumes after restarts |
| payment links, gift cards | funding and claim records | fund, claim, recover, reconcile | secrets must not be lost between funding and storing |
| ZNS names, contacts | journals, delivery queues, backup generations | register, introduce, exchange, back up | crash between remote effect and journal write |
| network privacy | Tor or direct mode | switch, open channels | a channel opened under the old mode |
| endpoint failover (Dart) | current endpoint, health | fail over, restore | late answers of the endpoint left behind |
| voting, key and secret storage, device transports, FFI, UI | - | - | encodings, cryptography and I/O |

How they interact. Dart calls Rust over the generated bridge; each call is one
async task. Tasks share `PROPOSAL_STORE` (a mutex), the process-wide wallet
write lock, the SQLite database and lightwalletd. The sync engine runs as
another task and triggers reservation recovery after it updated the tip. A
normal exit calls `shutdown_signing_reservations`; a crash calls nothing. All
durable state is SQLite; all of `PROPOSAL_STORE` is lost on exit.

What makes the core correct: money is not spent twice by the wallet itself (two
live transactions of different sends never share an input), an input is not
offered again while a transaction that spends it may be mined, a cancelled send
has no later effect, and no failure freezes funds for ever.

`PROJECT.json` lists the components with what is modelled of each, and the
hazards with the line at which each bites.

## 2. Modules

| module | contents |
|---|---|
| `SendReservations` | proposal store, side table, output locks, the three send flows, the Ledger outbox, recovery, shutdown, crash, sync, migration locks; and its properties |
| `SendReservationsInv` | its inductive invariant, in named parts, and the refinement mapping to `SpendOnce` |
| `SpendOnce` | abstract specification: what the send flows promise, seen from the network |
| `SendReservationsTyping`, `SendReservationsProofs` | proofs: types; invariant, safety, refinement of `SpendOnce`, action properties |
| `WalletSummaryCache`, `WalletSummaryCacheInv`, `WalletSummaryCacheProofs` | write sections and their epoch, readers of the summary cache, reset and eviction; invariant; proofs |
| `TipCache`, `TipCacheProofs` | the chain tip cache under overlapping requests; invariant and proofs |
| `MigrationLocks`, `MigrationLocksProofs` | the wallet locks of a migration run against its phase, with the invariant; proofs |
| `MigrationStages`, `MigrationStagesInv`, `MigrationStagesProofs` | the preparation stages of a run, from signing to confirmation or retirement; invariant; proofs |
| `MigrationTransfers`, `MigrationTransfersInv`, `MigrationTransfersProofs` | the transfers of a run, from the signed child to confirmation, stop or retirement; invariant; proofs |
| `SyncEngine`, `SyncEngineInv`, `SyncEngineProofs` | the scan of the chain: tips, batches, conflicts, rewinds, repairs, completion, retries; invariant; proofs |
| `MC...` | one per model: symmetry sets and constants for TLC; the `.cfg` files instantiate these |

The models share no state; each assumes of another what that one shows or what the
code's interface says. `SendReservations` takes a section under the write lock as
one action; `WalletSummaryCache` looks at how such a section meets the readers that
do not take the lock. `SendReservations` lets a flow use any tip of a short past
(`RecentTips`); `TipCache` shows how old a tip can be. `SendReservations` has the
migration as one competitor for notes; `MigrationLocks` follows that competitor's
locks. `MigrationStages` ends in `ready_to_migrate`; `MigrationTransfers` begins
there. In the migration models a scan is one step that makes the chain visible;
`SyncEngine` opens that step.

### State of `SendReservations`

`lock`, `row`, `stored`, `outbox` are durable (SQLite); `proposals`, `locks`,
`shutting`, `pc`, `sent`, `outcome` are of the process and lost in `Restart`.
`tip` is the height lightwalletd reports, `wtip` the height the wallet has
synced to; `Target` is `wtip + 1`. `net[p]` is the length of the prefix of the
transactions of `p` that the network may know: it is what the wallet cannot see
and what the properties are about. `inputs`, `parts`, `minTarget` are facts of
the proposal, `expiry` the expiry height of its transactions. The rows of one
owner always change together, so they are one record. The owner of a proposal's
locks is random in the code and the proposal itself here. `via[p]` is which of
the three flows consumed the proposal; `pc[p]` is where that flow is:

    review -> tip -> create -+-> finish -> send                       software
                             +-> sign -> route -> mark -> send -> store -> finish | retain   Keystone
                             +-> sign -> idle -> route -> send -> store -> record -> reclaim Ledger

with `release` as the error exit before anything can be on the network and
`idle` as "returned to the caller". `idle` is also where a flow is after a
restart.

### Granularity of `SendReservations`

A section run under `with_wallet_db_write_lock` is one action. Where such a
section makes several commits, its failing outcomes leave every prefix of them:
`UnlockTears`, `RecoverTears`, `CreateFails`, the failing branches of `Propose`,
`FinishStored`, `RecordOutcome` and `Checkpoint`. Every await, and every gap
between two sections, separates two actions; in the gap anything else may happen,
`Restart` included. The removal of a discarded proposal from `proposals` and the
release of its locks are two sections in the code and one action here; in
between, a consume fails for want of the proposal, so no other actor can tell.

### Deliberate abstractions of `SendReservations`

- Notes are model values; amounts, pools, fees and scripts are not modelled.
- `StoreTransactions` clears the sender's own locks on the notes spent (external;
  `send.rs` says "Successful wallet storage clears spent-input locks itself").
- `LockActive`: a lock binds while the target height is below its expiry; a
  stored pending transaction keeps its notes while the target is not above its
  expiry. Both are external (`zcash_client_sqlite`), read off their callers.
- `lock_outputs` is allowed to succeed on a note that a stored transaction
  spends. That is conservative.
- A definite rejection is definite: `net[p]` falls back to the prefix before it.
  "Already known" answers count as accepted (`broadcast.rs`). A rejection by
  one node of what another accepted in an earlier attempt is outside the model.
- `RecentTips`: a flow gets a tip that is up to 15 seconds old (`tip_cache.rs`),
  any height from the wallet's to the chain's. That it is not below the wallet's
  is an assumption: `record` overwrites, so a late answer can replace a newer one;
  `TipCache` bounds how old it can be.
- `GapIsShort` bounds what sync may do between the live-tip answer and the create
  section of a hardware flow. The software flow re-checks the wallet's own target
  height there; the hardware flows do not, and depend on RPC and lock waits
  (seconds) being shorter than 40 blocks.
- A discard that failed half-way ends a flow that has not reached its broadcast.
  This is the contract that `discardSendProposal` documents for its callers.
- `RecoverBeforeBalance` may happen at any time, not only once per process and
  first: the same pass also ends every Ledger broadcast.
- Not modelled here: mining and reorgs (so a live transaction is never confirmed),
  rows without a phase written by older releases, deletion of an account,
  `extract_and_broadcast_pczt` (takes no reservation), the conversion of PCZTs.

### `WalletSummaryCache`

`epoch` and `holder` are `WALLET_DB_WRITE_EPOCH` and `WALLET_DB_WRITE_LOCK`;
`version` counts commits and stands for what a summary computed now would say.
`map` is the slot that `entry_map` holds for the key, `cached` and `guard` the
contents and the mutex of each slot. A slot outlives its map entry while a reader
holds its `Arc`; a new slot is any that no reader refers to. `pc[r]` follows
`get_or_load_with_epoch`:

    idle -> wait -> check -+-> exists -> done                   hit
                           +-> before -> load -> after -> done  miss

with one action for each read of shared state: the epoch, the file's existence,
the epoch again, the database, the epoch a third time. `since[r]` and `gone[r]`
record what was true when the call began; the properties compare with them. A
failed or panicking load returns to `idle` with the slot empty.

Abstractions. One database and one network; other keys would only move the epoch
more often. Commits happen inside sections only: this is a convention of the code,
which a separate process does not follow (`db.rs` says so). Atomic operations are
sequentially consistent; the orderings chosen in the code (`AcqRel`, `Release`,
`Acquire`) together with SQLite's own locking are not examined. A load of the
deleted wallet fails: the file is absent, or was recreated without tables.
`Evict` may happen at any time, since `delete_account` evicts too; it counts as
the eviction of the reset only after the deletion. An eviction that the reset
fails to make (it is best-effort) is a behaviour in which `Evict` does not occur.

### `SpendOnce`

Payments, the notes each spends, its deadline, and the set the network may know.
A payment may be composed anew only while no node can know it; it may become known
only when no live known payment shares a note with it; a definite rejection is the
only way back. `SendReservationsInv` maps `height <- tip`, `deadline <- expiry`,
`inputs <- inputs`, and `known` to the proposals with `net[p] > 0`. A restart, a
recovery, a cancel or a torn section is a stuttering step of this specification.

### `TipCache`

`entries` is the map of `tip_cache.rs`; a tip is its endpoint and the moment at which
it was that endpoint's tip. A caller hits, or misses (dropping a stale entry) and
asks, or refreshes without looking; the server answers at some moment after the
question; the answer arrives and is recorded whenever it does, so answers overtake
one another. `Tick` does not pass a request's deadline
(`LIGHTWALLETD_UNARY_RPC_TIMEOUT`): a request that is late fails.

### `MigrationLocks`

`phase`, `prepared`, `unsent`, `sent`, `idempotent` are the migration's own tables
(`RUNS_TABLE`, `PREPARED_NOTES_TABLE`, `STAGE_INPUTS_TABLE`); `locks` is what the
wallet holds for the run's owner, without expiry. The two are behind different
interfaces, so `reconcile_migration_wallet_locks` reads a snapshot, writes locks,
and reads the phase again, up to eight times. Thread `foreground` is the operation
that holds the account's `ActiveIronwoodMigration` guard (create or finalize with
its cleanup, advance, complete, revive, stop, retire); thread `sync` is the end of a completed scan, which
takes no guard. Any call may fail, an unlocking half way, and the process may die.
`owed` is history: a phase change that no reconciliation has followed yet.

### `MigrationStages`

`stage` is the stages table (status, attempted, identity of the recorded block,
proof), `mined` and `tip` the chain, `seen` and `scanned` the part the wallet has
scanned, `mempool` what waits to be mined. `rec[t]` is a reconciliation in progress:
it reads the table and the chain once and then commits the identities, the reset of
dependents and the phase one after another; the sync thread and the foreground pass
may be in the middle of theirs at the same time. `pass` goes through the rest of
`advance_staged_denomination_run`: it looks each awaiting stage up on the scanned chain
and records one that is mined in two commits (`LookUp`, `Adopt`, `RecordMined`), then
retirement of expired stages, submission, answer, storage, or the proof of an awaiting
stage. A proof carries the block of the parents it was made for; a transaction whose
proof names a block that is gone is not mined. The run has no transfers yet; a stop is
in `MigrationLocks` and `MigrationTransfers`.

Abstractions. A pass sends one row, as under the spaced policy; under the immediate one
the loop at `send.rs:5219` goes on with rows it read earlier, which is a pass that waits
longer between reading and attempting. A rejection is the network's word: a node that
refuses what another one has taken is left out. One transaction of a stage waits at a
time, so an outdated one keeps its proved-again successor out until it leaves.
Which affected stages reset the prepared notes (`ResetChildren`) is read off `Final`,
the stages that have such notes, and not off the notes themselves.

### `MigrationTransfers`

`row` is `PENDING_TXS_TABLE` (status, tried, transaction, scheduled height), `child`
the signed children not promoted yet, `born` how often each part was signed. A row
holds the schedule and expiry of the signed child before it is promoted; both are
final when it is signed, but for the one shift of all schedules that the first
promotion may make (`Rebased`). The run starts when its denominations are prepared:
`run_may_finalize_presigned_migration_children` also admits a run that still waits for
them, whose stages are in `MigrationStages`. `CheckPolicy` retires for a note spent
elsewhere; the code retires in the same way for rows with an outdated canonical fee,
which are not modelled.
A transaction is its part, its generation and its expiry. `pass` is the foreground
operation: the broadcast pass (record what was mined, store what is missing, apply
policy, rebuild or retire what expired, find the due rows, mark attempted, submit,
record the answer), resumption, stop (ask the network, then delete), retirement of a
run that never broadcast.
`redraw` is the wallet-wide redraw of overdue rows made for another account, which
reads rows and writes them later without this account's guard. Mining, scanning, a
reorganization and a crash come at any time.

### `SyncEngine`

The service: `chain`, `replica` (an earlier chain that a lagging node still serves)
and `base` (where a fork leaves another); each answer is of one or the other. The
wallet database: `blocks`, `queue` (heights still to scan), `dbTip`, `completed`,
`inProgress`. The run: `pc`, `run` (tip, rewinds used, which phase), `batch`,
`prefetch`; lost with it. `seen` is history, the chain the tip was last found on.

    idle -> starting -> tip -> prepare -> loop -> scan -> after -> loop ... -> check -> final -> complete -> idle

with `retry` for a transient failure. A conflict in `scan` (the block does not fit
its neighbour, or the tree root differs) rewinds by the next configured distance
until the budget of the run is used; a rewind, also the one that repairs an anchor, is
a truncation and then a new `update_chain_tip`, and the process may die in between.
`RepairAnchor` asks for two tree states, and each answer may come from another replica.
`Stop` covers cancellation, a mode change and shutdown; one that comes before the run
has begun is lost, as in `run_full_sync_internal`. `RepairWitnesses` re-queues any
heights, `ImportAccount` a lower part of the chain.

Abstractions. A block is its height and fork; notes, trees and batches by size are
left out. External (librustzcash), read off their callers: filling a gap from
another fork is reported as a root conflict, and equal roots mean equal blocks (the
real tree holds note commitments only: a replaced block with the same ones, or none,
is not noticed; `WalletChainIsLinked`, `CompletionIsCanonical` and `SyncInv` hold
under this assumption); a truncation lands at or below the
height asked for (`Landing`, which covers the fall back to the safe height and the
chain-state rewind); a range's priority is not tracked, so a conflict may use either
phase's budget; the age at which a validation is due is nondeterministic. A batch
whose end is not scannable does not arise at this level. `Landing` never keeps the
block that does not fit: distances are at least 2 (`SyncConstants`; the code starts
at 10). With distance 1 the wallet would keep the conflicting neighbour and the run
would never get past it; that is the mutant `RewindJustBelow`. Not modelled here: the
mempool observer, enhancement, transparent address refresh, progress reporting.

## 3. Runs

| run | instance | checks |
|---|---|---|
| `send_one` | one proposal, two notes, up to two transactions, lock window 2, heights to 4, with fairness | `TypeOK`, `MaybeOnNetworkIsReserved`, `PendingOperationIsReserved`, `LocksAreRecoverable`, `StoresOnlyWhatWasSent`, `CancelledStaysCancelled`, `OrphansReclaimed` |
| `send_two` | two proposals and the migration on one note, one transaction each, window 1, heights to 2 | `NoConflictingSpends`, `MaybeOnNetworkIsReserved`, `ReservationInv`, `SendsSpendOnce` |
| `summary_cache` | two readers, one writer, three slots, two sections, one commit | `TypeOK`, `ReadsAreFresh`, `DeletedIsNotServed`, `CacheInv` |
| `tip_cache` | two callers, two endpoints, age limit 1, deadline 2, clock to 5 | `TypeOK`, `ServedTipIsRecent` |
| `locks` | one prepared note, one stage input, two rounds, two faults, with fairness | `TypeOK`, `LocksFollowPhase`, `LockInv`, `PreparedNotesComeBack` |
| `locks_stage_leak` | the same without faults | `StoppedRunHoldsNoLock`, expected to fail |
| `stages` | a root and its dependent, depth 2, heights to 5, one fork, one restart, with fairness | `TypeOK`, `ReadyHasEveryStage`, `KnownStageWasAttempted`, `StageInv`, `PreparationEnds` |
| `stages_retire` | the same without forks and restarts | `RetiredStageWasNotMined`, expected to fail |
| `transfers_one` | one part, window 2, depth 2, heights to 5, signed twice, one crash or fork | `TypeOK`, `CompleteMeansMigrated`, `KnownTxWasAttempted`, `StopKeepsScheduledTx` |
| `transfers_two` | two parts, signed once, heights to 3 | `CompleteMeansMigrated`, `RetiredRunIsStored`, `TransferInv` |
| `transfers_stop_loses` | one part, heights to 4, no fault | `StopDiscardsNothingLive`, expected to fail |
| `sync_engine` | heights to 3 from 2, one fork, one fault, batches of 2, one rewind a run, distances 2 and 3, one retry, with fairness | `TypeOK`, `QueueReachesTip`, `CompletedIsScanned`, `WalletChainIsLinked`, `SyncInv`, `CompletionIsCanonical`, `SyncCatchesUp` |

### Bounds

`LockBlocks` is 40 in the code; with 2 a lock is taken, outlives a block and lapses;
`MaxParts` is 2 because a TEX payment is the only proposal with more than one
transaction and it has two. With heights to 4 one send is proposed, built a block
later, expires and is recovered. In `send_two`, a window of 1 lets the first
proposal's locks lapse after one block and the second take the note; a conflict is
about one note. `MaxHeight` bounds only `AdvanceTip`; no proof uses it as a bound.
The bounds of these two runs are one block below what they were before liveness and
the refinement were added to them, to keep each run short. Both larger instances
(`send_one` with heights to 5, `send_two` with window 2 and heights to 3; 1.2 and 1.5
million states) were checked once with the same properties and no error was found.

In `summary_cache` one writer stands for all, because the mutex lets one in at a
time; two sections and a commit are enough for a load to overlap the whole of a
section and for its stamp to meet a later one; three slots leave a free one for the
second reader after two evictions. In `tip_cache` the clock lets an answer be asked
for, wait its whole deadline, be recorded after a newer one, and be served at the
age limit. In `locks` two rounds stand for eight: enough for the second to see what
a crossing thread wrote, and for the rounds to run out; two faults let a cleanup
fail after the reconciliation it cleans up did.

In `stages` the dependent is proved, submitted, reset by the fork and proved again,
and either stage can expire. In `transfers_one` the part passes through two windows
and is signed twice. `RetiredRunIsStored` needs a second part: a run with one stored
and one missing transaction. Two parts with a fault and a second signing exceed the
time a run may take. In `sync_engine` a fork replaces blocks that are scanned,
prefetched or both; one rewind a run with distance 2 makes the budget run out before
the fork is undone, so that a further run has to continue.

Deadlock checking is on for the send, summary, locks and sync runs. It is off where
the model stops at its bounds: the clock of `tip_cache`, and the chains and finished
runs of the stage and transfer models.

### What they show

With every interleaving of cancel, shutdown, crash, sync, recovery and torn sections,
inputs of a transaction that may be on the network stay reserved by a stored
transaction or by locks (`MaybeOnNetworkIsReserved`); the same holds for a signed
Ledger operation waiting in the outbox; two live transactions never share an input;
every lock is listed in a row that the next process can recover from; hardware flows
store only what was sent; a cancelled send has no later effect; what a dead process
left is reclaimed. Seen from the network, the flows implement `SpendOnce`.

`Live(p)` is `tip + 1 < expiry[p]`, one block short of the last block in which the
transaction can be mined. The wallet counts from the next block and lets go when
`target >= expiry`, that is at tip `expiry - 1`, while the network still accepts
the transaction in block `expiry`. The comment "Ambiguous-broadcast locks remain
until their recorded expiry height has passed" (`proposal_locks.rs`) is therefore
one block more than the code does.

`summary_cache` shows that a summary returned reflects every commit made before
the call, although readers do not take the write lock, and that after a reset
nothing of the old wallet is returned to a later call, although a reader may
publish after the eviction. Dropping the slot from the map, rather than
clearing it, is what the second needs (`EvictInPlace` is the mutant).

`tip_cache` shows that the unconditional overwrite in `record` costs at most one
request's deadline of age: an older answer recorded last is still within the limit
plus that deadline, and is of the endpoint asked for.

`locks` shows that the second look at the phase makes crossing reconciliations
agree with the phase for the notes the tables still list, and that failures and
crashes are made good by a later sync. `stages` shows that preparation ends, that a
ready run has every stage (without a restart in between; after one, a later pass
repairs what a half-committed reset left) and that what the network knows was
marked before it was sent. The two transfer runs show that a run is complete only
with every part spent at depth, that an unattempted row can be dropped unseen, that
a stop does not delete a scheduled transaction the network has, and that a run is
not retired while an accepted transaction is not stored.

`sync_engine` shows that a run that reports completion has stored one chain up to
its tip, whatever mix of forks its answers came from and whatever was prefetched;
that the height reported as complete stays scanned through rewinds and crashes; that
nothing unscanned is forgotten by the queue; and that, once the chain and the
failures come to rest, some run completes although one run's rewind budget may not
be enough. An instance with heights to 4 was checked once for the safety properties
(4.8 million states); with liveness it takes too long to keep as a run.

### Findings

Three runs state what a comment says and TLC refutes it:

- `locks_stage_leak`: a sync reconciliation that read an active run takes its locks
  after `abandon_run` released them and deleted the unsent stages. Its second round
  releases what the tables list now, and the deleted stage inputs are no longer
  listed; their locks have no expiry (`migration.rs:1063`).
- `transfers_stop_loses`: an attempted transaction that an overdue redraw marked
  `needs_resign` is not among the candidates a stop asks the network about, and is
  deleted while it is in a mempool (`migration.rs:4612`).
- `stages_retire`: the foreground pass reads the scanned height after it reconciled
  the stages; a scan in between lets it retire a run whose stages are all mined
  (`send.rs:5107`).

### Fairness

- `send_one`: the chain grows (`AdvanceTip`), sync follows it (`SyncTip`), a recovery
  pass that can succeed eventually does (`SyncRecovers`; every sync runs it and
  retries), and the create section, once the tip was read, is left one way or the
  other (synchronous code under a mutex). Nothing is assumed of users, devices,
  broadcasts or restarts.
- `locks`: a reconciliation that has begun goes on (synchronous database calls), the
  wallet keeps syncing, and a started creation or stop finishes its own cleanup.
- `stages`: the application keeps advancing the run and scanning, and blocks arrive.
- `sync_engine`: a started run takes its steps and the application starts another one
  when none is active (the Dart provider polls), and lagging replicas catch up. Forks
  and faults are finite.

### Observations without a run

- The wallet-wide redraw (`migration.rs:4985`, `:5004`) writes the phase of the runs
  whose rows it read and so can reactivate a run stopped meanwhile.
- `reconcile_run_confirmations` (`migration.rs:6914`) gives a reorganized part the
  target height back as its schedule; its signed expiry need not be canonical there,
  and `due_pending_txs` then refuses the whole run. The comment above it says so.
- Expiry is judged by the chain tip, mining by scanned blocks (`migration.rs:4110`):
  a part mined in a block not scanned yet can be marked for signing.
- `promote_awaiting_denomination_stage` (`stages.rs:853`) looks at the status only, so
  a proof made before a reorganization is stored after the reset; it expires and the
  run is retired. A stale foreground reconciliation can likewise overwrite a newer
  identity until the next one. A third stage (a root with change only) was checked
  once by hand, without a violation.
- A queued start of a sync can begin after the Dart side saw no run active
  (`api/sync.rs:75`), and a cancel between the two is lost (modelled). The demand for a
  witness check after a rewind is lost when that run fails.
- `cleanup_failed_created_run` (`migration.rs:1493`) unlocks a run's notes and then
  deletes the run (`:1503`). A sync reconciliation that takes the locks in between
  still finds the row when it looks again; afterwards no run names those locks. The
  attempt to prove `LocksFollowPhase` showed it: its clause about a deleted run held
  only because such a run always counts as owed a reconciliation, so the clause said
  nothing and was removed.
- The hardware create section does not compare the wallet's target height with the
  proposal's expiry (`pczt.rs:550`); see `GapIsShort`. A retry of an ambiguous Ledger
  attempt that another node rejects (`ledger/operations.rs:300`), and writes by another
  process, which do not move the epoch (`db.rs:115`), are outside the models.

## 4. Proofs

For any sets of proposals and notes, any lock window, any number of transactions
per proposal, and chains of any height:

| theorem | statement |
|---|---|
| `TypeCorrect` | `Spec => []TypeOK` |
| `ReservationsConsistent` | `Spec => []ReservationInv` |
| `BroadcastStaysReserved` | `Spec => []MaybeOnNetworkIsReserved` |
| `PendingStaysReserved` | `Spec => []PendingOperationIsReserved` |
| `SpendsNeverConflict` | `Spec => []NoConflictingSpends` |
| `NoLockLeaks` | `Spec => []LocksAreRecoverable` |
| `SendsImplementSpendOnce` | `Spec => SendsSpendOnce`, the refinement |
| `StoredWasSent` | `Spec => StoresOnlyWhatWasSent`, about steps |
| `CancelIsFinal` | `Spec => CancelledStaysCancelled`, about steps |

and for any sets of readers, writers and slots and any number of commits:

| theorem | statement |
|---|---|
| `CacheTypeCorrect` | `Spec => []TypeOK` |
| `CacheStaysHonest` | `Spec => []CacheInv` |
| `ReadsStayFresh` | `Spec => []ReadsAreFresh` |
| `DeletedStaysUnserved` | `Spec => []DeletedIsNotServed` |

and for any sets of callers and endpoints, any age limit, any deadline:

| theorem | statement |
|---|---|
| `TipTypeCorrect` | `Spec => []TypeOK` |
| `ServedTipsAreRecent` | `Spec => []ServedTipIsRecent` |

and for a sync of any chain, with any forks, replicas, batch size, rewind distances of
at least 2, budgets, retries and faults:

| theorem | statement |
|---|---|
| `SyncInvariant` | `Spec => []SyncInv` |
| `SyncTyping` | `Spec => []TypeOK` |
| `QueueAlwaysReachesTip` | `Spec => []QueueReachesTip` |
| `CompletedAlwaysScanned` | `Spec => []CompletedIsScanned` |
| `WalletChainAlwaysLinked` | `Spec => []WalletChainIsLinked` |
| `CompletionAlwaysCanonical` | `Spec => CompletionIsCanonical`, about steps |

and for a migration with any graph of stages or any parts, any depth, window and
delays, and any number of blocks, forks, signings, rounds, crashes and faults:

| theorem | statement |
|---|---|
| `StageInvariant` | `Spec => []StageInv` |
| `StageTyping` | `Spec => []TypeOK` |
| `KnownStageAlwaysAttempted` | `Spec => []KnownStageWasAttempted` |
| `ReadyAlwaysHasEveryStage` | `Spec => []ReadyHasEveryStage` |
| `TransferInvariant` | `Spec => []TransferInv` |
| `TransferTyping` | `Spec => []TypeOK` |
| `CompleteAlwaysMigrated` | `Spec => []CompleteMeansMigrated` |
| `KnownTxAlwaysAttempted` | `Spec => []KnownTxWasAttempted` |
| `RetiredRunAlwaysStored` | `Spec => []RetiredRunIsStored` |
| `StopAlwaysKeepsScheduledTx` | `Spec => StopKeepsScheduledTx`, about steps |
| `LockInvariant` | `Spec => []LockInv` |
| `LockTyping` | `Spec => []TypeOK` |
| `LocksAlwaysFollowPhase` | `Spec => []LocksFollowPhase` |

Assumptions of the last two groups: the typing of the constants (`SyncConstants`,
`StageConstants` and those of the two other modules). The chain starts at height 1, so
`MaxHeight` is not 0 in the migration models; a run has at least one part
(`migration.rs:1239` refuses "Migration run has no prepared funding notes"), without
which a run could be complete with nothing migrated.

Assumptions of the first group: `OwnersDiffer` (the migration's owner and "no owner"
are not proposals) and `BoundsAreNat`; of the second, `NamesDiffer` (`LimitsAreNat` is
only for TLC); of the third, `TipConstants`. `MaxCommits` and `MaxSections` occur in
guards and no proof uses them.

The argument for `SendReservations`. The properties speak of transactions that may
be on the network and say nothing of the steps before, so they are not inductive.
`ReservationInv` follows a reservation from the start. A proposal is *protected* while it is on
its way inside its lock window (`InWindow`), built and able to reach the network
(`ReadyToSend`), or sent or checkpointed and not stored (`UnstoredClaim`).

1. A protected proposal owns binding locks on all its inputs (`ProtectedHolds`).
2. So `lock_outputs` of anybody else cannot take them (`ProtectedIsNotTaken`).
3. Recovery never selects it: before the broadcast its row is of this session,
   afterwards the row is retained and its expiry is that of the transaction
   (`ProtectedIsNotRecoverable`, `ProtectedIsSpared`). This needs
   `RowMatchesStore`: the capability and the session row come and go together.
4. A discard or a shutdown spares durable rows; before that point the loss of the
   capability stops the flow at its next check (`Going`).
5. It shares no input with a stored live transaction (`ProtectedIsDisjoint`), so
   storing it keeps stored transactions exclusive (`StoredIsExclusive`).
6. Nothing ends a claim early: an "expired" result implies the expiry has passed,
   "rejected" that nothing is out, "broadcasted" that it is stored
   (`StepsMatchFacts`).

The two properties of steps need one part more, `SendingIsBacked`: a hardware attempt
has counted nothing as sent that the network cannot know, so the prefix it stores was
sent; and while the Keystone flow sends, its row is durable and of this session, so no
release or recovery of this process can make the send look cancelled under it. Every
other step a cancelled send could take is behind a check of the capability, the row or
the outbox.

Each part of the invariant has a lemma with one step per action. `send_two`
checks `ReservationInv` with TLC on the small instance.

The argument for `WalletSummaryCache`. The epoch only grows and is odd exactly while
a section runs (in `TypeOK`), and commits happen only then. So if a stamp is even
and equals the live epoch, no section began since it was read, and the summary
loaded after it reflects every commit (`StampsAreHonest` for the cache,
`LoadsAreHonest` for a summary not yet published). The stamp is read before the
load; the comparison after the load spares a useless entry and is not what the
argument rests on. A reader between its epoch test and its answer holds the slot's
mutex, so the entry is not replaced (`BusyHoldsSlot`). After the eviction a slot is
found only if it was created since; no load succeeds since, so it is never filled
(`EvictionIsFinal`).

The refinement. Most steps leave the tip, inputs, expiry and `net` alone and are
stuttering steps of `SpendOnce` (`InvisibleStutters`). Those that choose inputs or an
expiry happen while nothing of the proposal was sent (`EarlyIsUnknown`, from
`StepsMatchFacts`). Those that send are `Send` steps because the state after them
satisfies `NoConflictingSpends`. So the refinement rests on `ReservationInv` in both
states of a step.

The argument for `TipCache`. `ServedTipIsRecent` says nothing of the entries a hit is
served from nor of answers on their way. `TipInv` adds that a request under way is
inside its deadline and its answer was read after it was sent (`RequestsAreYoung`), and
that an entry's tip was at most one deadline old when it was recorded
(`EntriesAreHonest`). Then an entry younger than the age limit holds a tip not older
than both together, whichever answer was recorded last.

The argument for `SyncEngine`. That a completed run has stored one chain is a statement
about ancestors, and following parents downward would need an induction for every
use. `SyncEngineInv` states ancestry as a table instead: `path[f][h]` is the block at
height `h` on or below fork `f`. A fork adds a line to the table and changes none, so one
table explains the chain, the lagging replica, the chain last seen, the batch, the
prefetched batch and the blocks table, whenever each was read (`LineageExists`). A
batch is stored only where it fits its neighbours or fills no gap wrongly, so stored
blocks that no gap separates are each other's ancestors (`StoredDescends`). When the
run completes nothing is unscanned (`CompleteIsScanned`) and the block at the tip is
the one last seen (`TipIsSeen`); two blocks of the table that are equal have equal
ancestors, so every block below is the one seen. Where a least or greatest height
with a property is needed, it comes from the well-foundedness of the naturals
(`NatLessThanWellFounded`, `WFMin`). The invariant also carries the queue: what is not
scanned is queued or above the tip, through a rewind, after a scan or to repair an
anchor, torn between its truncation and its new tip. A proof attempt found `classify_refreshed_tip` written with overlapping
cases where the code tests in order; it is now written in that order.

The argument for `MigrationTransfers`. `KnownTxWasAttempted` is about rows, while a
transaction outlives its row: it may wait, be mined, be forgotten by a row that was
signed again, and come back with a fork. `NetworkInv` says what of that can happen: for
a note at most one transaction waits, none while one is mined, and every generation
the network has was signed before. `RowInv` ties each row to it, and `PassInv` says
which findings of a pass survive its awaits: the row to submit was attempted, no
accepted transaction is missing locally once that was checked (`StoreChecked`), and
what a stop deletes is not known to the network or is stored (`KnownAreIn`). These
last two are stable because the rows move only as the pass moves them, and the
wallet-wide redraw neither schedules nor forgets a transaction.

The argument for `MigrationLocks`. While reconciliations cross, the locks may disagree
with the phase. `LockInv` says who will put that right (`FixUnderWay`): unless a
reconciliation is owed, the locks are right, or some thread is about to take its
snapshot, holds one that the next look at the phase refutes, or is about to apply what
the phase calls for (`Fixing`). `UndoneForAReason` keeps the undoing steps out of the
way: locks are undone only for a deleted run, and the cleanup runs only after a failed
reconciliation, which is then owed. A thread that leaves finds the phase unchanged, so
it leaves the locks right; the thread that changes the phase owes a reconciliation. No
bound on the rounds is used: a thread that runs out of them leaves the reconciliation
owed. `LockConstants` asks for one round at least and a natural number of faults.

The argument for `MigrationStages`. Two reconciliations work on what they read before.
That of the sync thread is up to date, because the wallet is not scanned again until
it has ended (`HoldInv`); that of the foreground thread may not be. `SeenInv`: a stage on
the scanned chain is recorded, or the sync thread is about to record it, or the
foreground has reset it and will look at it again before it proves anything, or the
look-up has it still to come or is between its two commits. Its record may overwrite
a newer identity with the one it looked up; the stage then counts as moved and the
next reconciliation corrects it.
`ConfirmInv`: of the stages a confirmation has read, one that left the chain since was
reset, so that it is refused, or is about to be. `ReadyInv`: a run that is ready lacks
a stage only while a thread is on its way to make it wait again (`WillWait`). With no
thread at work that is `ReadyHasEveryStage`. A restart drops what the threads had still
to do, which is why that property is stated without one; `KnownStageWasAttempted`
(`AttemptInv`) holds across restarts.

Only model-checked: the liveness properties (`OrphansReclaimed`,
`PreparedNotesComeBack`, `PreparationEnds`, `SyncCatchesUp`), which are out of the
prover's reach under fairness, and the three refuted claims.

## 5. Plan

Every invariant and every property of steps that a run checks is proved. What proofs
could add next:

1. An abstract specification of a migration run (prepare, ready, complete or retired),
   with `MigrationStages` and `MigrationTransfers` shown to implement its two halves.
2. An abstract wallet chain that moves only by extension and rewind, implemented by
   `SyncEngine`.
3. What holds of the stages after a restart: a ready run that lacks a stage has a
   moved or reset one, which the next pass finds.

Models that would come after: payment links and gift cards (funding, recovery store,
claim, reconciliation), the ZNS engine and its journal, contacts exchange and backup
generations, endpoint failover and network privacy, the mempool observer, enhancement
and the transparent receive cache.

## 6. Not modelled

`PROJECT.json` gives the reason for each component. Much of the Rust tree is outside
what a state machine can say: `frb_generated.rs` (23,600 generated lines), the unit
tests inside the source files, voting cryptography, key derivation and encryption at
rest, PCZT and device encodings, transaction history queries, formatting for the
bridge, and the user interface. These are pure functions over opaque data, generated
code, or I/O. What has state and is left is listed at the end of the plan.
