----------------------------- MODULE SyncEngine -----------------------------
(***************************************************************************)
(* The scan of the chain: run_sync_inner and run_sync_impl of             *)
(* wallet/sync_engine/mod.rs, with the error taxonomy of error.rs.        *)
(*                                                                         *)
(* lightwalletd is a load-balanced service.  An answer comes from a node   *)
(* that has the chain or from a replica that still has an earlier one, so  *)
(* two answers of one run may be of two forks.  A block is its height and  *)
(* the fork it was mined on; base says where a fork leaves another, so     *)
(* that the hash of a block's predecessor is known.                        *)
(*                                                                         *)
(* The wallet database keeps the blocks scanned, the scan queue (heights   *)
(* still to be scanned), the chain tip, and what the last run said about   *)
(* its completion.  Everything else belongs to a run and is lost with it.  *)
(***************************************************************************)
EXTENDS Integers, Sequences, FiniteSets

CONSTANTS
    MaxRewinds,       \* MAX_REWINDS_PER_RUN
    RewindDistances,  \* COMMITMENT_TREE_REWIND_DISTANCES; REWIND_DISTANCE is the first
    RepairDistances,  \* ANCHOR_ROOT_REPAIR_REWIND_DISTANCES
    MaxRepairs,       \* MAX_WITNESS_REPAIR_PASSES_PER_RUN
    MaxRetries,       \* MAX_RETRIES
    Confirmations,    \* distance of the anchor from the tip
    MaxBatch,         \* base_batch_size
    FirstHeight,      \* length of the chain when the wallet is created
    MaxHeight,        \* bound on the chain
    MaxForks,         \* bound on reorganizations
    MaxFaults         \* bound on failures, stops, crashes and repairs

ASSUME SyncConstants ==
    /\ {MaxRewinds, MaxRetries, Confirmations, MaxForks, MaxFaults} \subseteq Nat
    /\ {MaxRepairs, MaxBatch, MaxHeight} \subseteq Nat \ {0} /\ FirstHeight \in 1 .. MaxHeight
    /\ RewindDistances \in Seq(Nat \ {0, 1}) /\ RewindDistances # <<>>
    /\ RepairDistances \in Seq(Nat \ {0})

VARIABLES
    chain,       \* the chain: the fork of the block at each height
    replica,     \* the chain a lagging replica still serves
    base,        \* where each fork starts: [at |-> height, from |-> fork below]
    blocks,      \* blocks table: the fork of a scanned block
    queue,       \* scan_queue: heights to scan
    dbTip,       \* the wallet's chain tip, 0 before the first
    completed,   \* LAST_COMPLETED_SYNC_HEIGHT_KEY
    inProgress,  \* SYNC_IN_PROGRESS_KEY
    pc,          \* where the run is
    stop,        \* SYNC_CANCEL, a mode change or the shutdown of the app
    run,         \* local variables of run_sync_impl
    batch,       \* the batch to scan next
    prefetch,    \* the batch after that, if it was asked for
    seen,        \* history: the chain the tip was last found on by this run
    faults       \* failures, stops and repairs so far

server == <<chain, replica, base>>
db == <<blocks, queue, dbTip>>
meta == <<completed, inProgress>>
work == <<batch, prefetch>>
vars == <<server, db, meta, pc, stop, run, work, seen, faults>>

Height == 1 .. MaxHeight
Fork == 1 .. MaxForks + 1
NotScanned == 0

\* A batch holds the hash its first block points to and its blocks' hashes.
NoBatch == [start |-> 0, prev |-> 0, hashes |-> <<>>]

NewRun(attempt) ==
    [attempt |-> attempt, tip |-> 0, required |-> TRUE,
     main |-> 0, verifying |-> 0, witness |-> 0, anchor |-> 0]

\* Types; a run stays within its rewind budgets.
TypeOK ==
    /\ chain \in Seq(Fork) /\ replica \in Seq(Fork) /\ seen \in Seq(Fork)
    /\ base \in [1 .. Len(base) -> [at : Height, from : Fork \cup {0}]]
    /\ blocks \in [Height -> Fork \cup {NotScanned}]
    /\ dbTip \in 0 .. MaxHeight /\ queue \subseteq 1 .. dbTip
    /\ completed \in 0 .. MaxHeight /\ inProgress \in BOOLEAN /\ stop \in BOOLEAN
    /\ pc \in {"idle", "starting", "tip", "prepare", "loop", "scan", "after", "check",
               "final", "complete", "retry"}
    /\ run.main \in 0 .. MaxRewinds /\ run.verifying \in 0 .. MaxRewinds
    /\ run.attempt \in 0 .. MaxRetries
    /\ faults \in 0 .. MaxFaults

Init ==
    /\ chain = [h \in 1 .. FirstHeight |-> 1] /\ replica = chain
    /\ base = <<[at |-> 1, from |-> 0]>>
    /\ blocks = [h \in Height |-> NotScanned] /\ queue = {} /\ dbTip = 0
    /\ completed = 0 /\ inProgress = FALSE
    /\ pc = "idle" /\ stop = FALSE /\ run = NewRun(0)
    /\ batch = NoBatch /\ prefetch = NoBatch /\ seen = <<>>
    /\ faults = 0

----------------------------------------------------------------------------
(* lightwalletd.                                                           *)

Views == {chain, replica}

\* The hash that the block of fork f at height h points to.
Parent(h, f) == IF base[f].at = h THEN base[f].from ELSE f

\* GetLatestBlock.  A node may omit the hash; it is then asked of GetBlock, and
\* another node may answer.
TipAnswers ==
    {a \in [height : {Len(v) : v \in Views}, on : Views] : a.height <= Len(a.on)}

\* GetBlockRange and the tree state pinned to the first block's predecessor.
Download(v, start, end) ==
    [start |-> start, prev |-> Parent(start, v[start]), hashes |-> SubSeq(v, start, end)]

Mine ==
    /\ Len(chain) < MaxHeight
    /\ chain' = Append(chain, chain[Len(chain)])
    /\ UNCHANGED <<replica, base, db, meta, pc, stop, run, work, seen, faults>>

\* The last blocks, from height h, are replaced by as many or by one more.
Reorg ==
    /\ Len(base) <= MaxForks
    /\ \E h \in 2 .. Len(chain), n \in Len(chain) .. Len(chain) + 1 :
          /\ n <= MaxHeight
          /\ chain' = [i \in 1 .. n |-> IF i < h THEN chain[i] ELSE Len(base) + 1]
          /\ base' = Append(base, [at |-> h, from |-> chain[h - 1]])
    /\ UNCHANGED <<replica, db, meta, pc, stop, run, work, seen, faults>>

CatchUp ==
    /\ replica # chain /\ replica' = chain
    /\ UNCHANGED <<chain, base, db, meta, pc, stop, run, work, seen, faults>>

----------------------------------------------------------------------------
(* The wallet database (zcash_client_sqlite).                              *)

\* update_chain_tip: a tip below a scanned block is ignored; otherwise what is
\* not scanned up to it is queued.
UpdateChainTip(stored, queued, known, tip) ==
    LET ignored == \E h \in Height : h > tip /\ stored[h] # NotScanned
        missing == {h \in 1 .. tip : stored[h] = NotScanned}
    IN
    /\ blocks' = stored
    /\ dbTip' = IF ignored THEN known ELSE tip
    /\ queue' = IF ignored THEN queued ELSE missing \cup (queued \cap 1 .. tip)

TruncatedTo(height) == [h \in Height |-> IF h > height THEN NotScanned ELSE blocks[h]]

\* truncate_to_height lands on the checkpoint at or below the height asked for.
Landing(height) == {height} \cup {h \in {height - 1} : h >= 0}

\* Truncation and the tip update are two sections; the second may not happen.
RewindTo(height, tip) ==
    UpdateChainTip(TruncatedTo(height), queue \cap 1 .. height, height, tip)
RewindTears(height) ==
    blocks' = TruncatedTo(height) /\ queue' = queue \cap 1 .. height /\ dbTip' = height

----------------------------------------------------------------------------
(* Starting and ending a run.                                              *)

Goto(label) == pc' = label /\ UNCHANGED work
Drop(label) == pc' = label /\ batch' = NoBatch /\ prefetch' = NoBatch

\* The run is over, or will be tried again; its local variables are gone.
End(label) ==
    /\ Drop(label) /\ seen' = <<>>
    /\ run' = NewRun(IF label = "retry" THEN run.attempt ELSE 0)

Fault == faults < MaxFaults /\ faults' = faults + 1

\* run_full_sync_internal takes SYNC_RUNNING and stores its mode; an earlier
\* change of mode is over, and so, by Begin, is an earlier cancellation.
Start ==
    /\ pc = "idle" /\ Goto("starting") /\ stop' = FALSE
    /\ UNCHANGED <<server, db, meta, run, seen, faults>>

\* Mutant: the session is not marked before it works.
BeginUnmarked ==
    /\ pc = "starting" /\ Goto("tip") /\ stop' \in {stop, FALSE}
    /\ UNCHANGED <<server, db, meta, run, seen, faults>>

\* SYNC_CANCEL is cleared once the database is migrated: a cancellation that
\* came since Start is lost, a change of mode is not.
Begin ==
    /\ pc = "starting" /\ Goto("tip")
    /\ stop' \in {stop, FALSE} /\ inProgress' = TRUE
    /\ UNCHANGED <<server, db, completed, run, seen, faults>>

\* cancel_full_sync, set_sync_mode, shutdown.
Stop ==
    /\ pc # "idle" /\ ~stop /\ stop' = TRUE /\ Fault
    /\ UNCHANGED <<server, db, meta, pc, run, work, seen>>

\* should_exit is looked at after every answer, before anything is written.
Exit ==
    /\ stop /\ pc \in {"tip", "prepare", "loop", "after", "check", "retry"} /\ End("idle")
    /\ UNCHANGED <<server, db, meta, stop, faults>>

\* A transient error, where it is not swallowed.
RpcFails ==
    /\ pc \in {"tip", "prepare", "loop", "scan", "after", "check", "final"} /\ Fault /\ End("retry")
    /\ UNCHANGED <<server, db, meta, stop>>

\* The process dies, or a database error ends the run.
Crash ==
    /\ pc # "idle" /\ Fault /\ End("idle")
    /\ UNCHANGED <<server, db, meta, stop>>

Retry ==
    /\ pc = "retry" /\ ~stop
    /\ IF run.attempt < MaxRetries
       THEN Goto("tip") /\ inProgress' = TRUE /\ run' = NewRun(run.attempt + 1)
       ELSE Goto("idle") /\ run' = NewRun(0) /\ UNCHANGED inProgress
    /\ UNCHANGED <<server, db, completed, stop, seen, faults>>

----------------------------------------------------------------------------
(* The tip.                                                                *)

\* Mutant: a lower tip is taken like a higher one.
ClassifyLowerAsNew(current, answer) ==
    IF answer.height # current THEN "Advanced"
    ELSE IF blocks[current] = NotScanned THEN "UnchangedUnverified"
    ELSE IF blocks[current] # answer.on[current] THEN "Reorg"
    ELSE "Unchanged"

classify_refreshed_tip(current, answer) ==
    IF answer.height < current THEN "ServerBehind"
    ELSE IF answer.height > current THEN "Advanced"
    ELSE IF blocks[current] = NotScanned THEN "UnchangedUnverified"
    ELSE IF blocks[current] # answer.on[current] THEN "Reorg"
    ELSE "Unchanged"

\* lagging_lightwalletd_tip: a lower tip proves nothing.
ServerBehind == End("retry") /\ UNCHANGED <<db, faults>>

\* Mutant: without a budget.
RewindUnbudgeted(height, next) ==
    \E h \in Landing(height - 1) :
        /\ RewindTo(h, height) /\ Drop(next)
        /\ run' = [run EXCEPT !.main = @ + 1, !.tip = height, !.required = TRUE]
        /\ UNCHANGED <<seen, faults>>

\* rewind_for_confirmed_tip_reorg, within the budget of the run.
RewindForTipReorg(height, next) ==
    \/ /\ run.main < MaxRewinds
       /\ \E h \in Landing(height - 1) :
             \/ /\ RewindTo(h, height) /\ Drop(next)
                /\ run' = [run EXCEPT !.main = @ + 1, !.tip = height, !.required = TRUE]
                /\ UNCHANGED <<seen, faults>>
             \/ RewindTears(h) /\ End("idle") /\ Fault
    \/ run.main >= MaxRewinds /\ End("retry") /\ UNCHANGED <<db, faults>>

InitialTip ==
    /\ pc = "tip" /\ ~stop
    /\ \E a \in TipAnswers :
          LET relation == IF dbTip = 0 THEN "Advanced" ELSE classify_refreshed_tip(dbTip, a) IN
          \/ relation = "ServerBehind" /\ ServerBehind
          \/ relation = "Reorg" /\ RewindForTipReorg(a.height, "prepare")
          \/ /\ relation \notin {"ServerBehind", "Reorg"} /\ Goto("prepare")
             /\ UpdateChainTip(blocks, queue, dbTip, a.height)
             /\ run' = [run EXCEPT !.tip = a.height, !.required = relation # "Unchanged"]
             /\ seen' = IF relation = "Unchanged" THEN SubSeq(a.on, 1, a.height) ELSE seen
             /\ UNCHANGED faults
    /\ UNCHANGED <<server, meta, stop>>

\* Reservation recovery, discovery, transparent outputs, resubmission and
\* subtree roots leave blocks, queue and tip alone; ranges below the wallet's
\* birthday, which are pruned here, are not heights of the model.
Prepare ==
    /\ pc = "prepare" /\ ~stop /\ Goto("loop")
    /\ UNCHANGED <<server, db, meta, stop, run, seen, faults>>

\* What the three later refreshes have in common; same is where the run goes
\* on when the tip is the one it has.
Reconcile(a, same) ==
    LET relation == classify_refreshed_tip(run.tip, a) IN
    \/ relation = "ServerBehind" /\ ServerBehind
    \/ /\ relation = "Unchanged" /\ Goto(same)
       /\ seen' = SubSeq(a.on, 1, a.height) /\ run' = [run EXCEPT !.required = FALSE]
       /\ UNCHANGED <<db, faults>>
    \/ /\ relation = "UnchangedUnverified" /\ Goto(same)
       /\ run' = [run EXCEPT !.required = TRUE]
       /\ UNCHANGED <<db, seen, faults>>
    \/ /\ relation = "Advanced" /\ Goto("loop")
       /\ UpdateChainTip(blocks, queue, dbTip, a.height)
       /\ run' = [run EXCEPT !.tip = a.height, !.required = TRUE]
       /\ UNCHANGED <<seen, faults>>
    \/ relation = "Reorg" /\ RewindForTipReorg(a.height, "loop")

\* A refresh between two batches may fail; the run goes on with the tip it has.
RefreshFails ==
    /\ Goto("loop") /\ Fault
    /\ run' = [run EXCEPT !.required = TRUE]
    /\ UNCHANGED <<db, seen>>

PeriodicTip ==
    /\ pc = "loop" /\ ~stop
    /\ RefreshFails \/ \E a \in TipAnswers : Reconcile(a, "loop")
    /\ UNCHANGED <<server, meta, stop>>

PostBatchTip ==
    /\ pc = "after" /\ ~stop
    /\ RefreshFails \/ \E a \in TipAnswers : Reconcile(a, "loop")
    /\ UNCHANGED <<server, meta, stop>>

----------------------------------------------------------------------------
(* The scan.                                                               *)

Least(S) == CHOOSE x \in S : \A y \in S : x <= y
LastOf(b) == b.start + Len(b.hashes) - 1
HashAt(b, h) == b.hashes[h - b.start + 1]

\* resolve_prefetched_or_download
PrefetchedOrDownloaded(first, end) ==
    IF prefetch.start = first /\ LastOf(prefetch) = end
    THEN {prefetch}
    ELSE {Download(v, first, end) : v \in {w \in Views : end <= Len(w)}}

\* The next batch of a range first .. last of the queue, as it was prefetched or
\* as it is downloaded now; the batch after it is asked for at once.
NextBatch ==
    /\ pc = "loop" /\ ~stop
    /\ \E first, last \in queue :
          LET end == Least({first + MaxBatch - 1, last})
              after == Least({end + MaxBatch, last})
          IN
          /\ first <= last /\ first .. last \subseteq queue
          /\ batch' \in PrefetchedOrDownloaded(first, end)
          /\ \/ (end = last \/ \E v \in Views : after > Len(v)) /\ prefetch' = NoBatch
             \/ \E v \in Views :
                   end < last /\ after <= Len(v) /\ prefetch' = Download(v, end + 1, after)
    /\ pc' = "scan"
    /\ UNCHANGED <<server, db, meta, stop, run, seen, faults>>

\* The node asked has not got the blocks.
BatchMissing ==
    /\ pc = "loop" /\ ~stop
    /\ \E start \in queue, v \in Views : start <= run.tip /\ start > Len(v)
    /\ End("retry")
    /\ UNCHANGED <<server, db, meta, stop, faults>>

\* Mutant: only blocks stored before are compared.
MismatchesAtStored(b) ==
    {h \in b.start .. LastOf(b) : blocks[h] \notin {NotScanned, HashAt(b, h)}}

\* PrevHashMismatch at the first block, BlockConflict at a block stored before.
Mismatches(b) ==
    {h \in {b.start} : h > 1 /\ blocks[h - 1] \notin {NotScanned, b.prev}}
    \cup {h \in b.start .. LastOf(b) : blocks[h] \notin {NotScanned, HashAt(b, h)}}

\* The commitment tree refuses a batch that does not lead to the block above.
RootConflict(b) ==
    LET h == LastOf(b) + 1 IN
    /\ h <= MaxHeight /\ blocks[h] # NotScanned
    /\ Parent(h, blocks[h]) # HashAt(b, h - 1)

Below(height, distance) == IF height > distance THEN height - distance ELSE 0

\* Mutant: back to just below the block that does not fit.
RewindJustBelow(at, root, attempt) == Below(at, 1)

\* rewind_target_for_attempt
RewindTarget(at, root, attempt) ==
    Below(at, RewindDistances[IF root THEN Least({attempt + 1, Len(RewindDistances)}) ELSE 1])

\* The scan found a conflict: rewind within the budget of the phase, which is
\* that of a Verify range or the main one.
RewindScan(at, root) ==
    \E phase \in {"main", "verifying"} :
        \/ /\ run[phase] < MaxRewinds
           /\ \E h \in Landing(RewindTarget(at, root, run[phase])) :
                 \/ /\ RewindTo(h, run.tip) /\ Drop("loop")
                    /\ run' = [run EXCEPT ![phase] = @ + 1] /\ UNCHANGED <<seen, faults>>
                 \/ RewindTears(h) /\ End("idle") /\ Fault
        \/ run[phase] >= MaxRewinds /\ End("retry") /\ UNCHANGED <<db, faults>>

ScanBatch ==
    /\ pc = "scan"
    /\ \/ /\ Mismatches(batch) # {}
          /\ RewindScan(Least(Mismatches(batch)), FALSE)
       \/ /\ Mismatches(batch) = {} /\ RootConflict(batch)
          /\ RewindScan(batch.start, TRUE)
       \/ /\ Mismatches(batch) = {} /\ ~RootConflict(batch)
          /\ blocks' = [h \in Height |->
                 IF h \in batch.start .. LastOf(batch) THEN HashAt(batch, h) ELSE blocks[h]]
          /\ queue' = queue \ (batch.start .. LastOf(batch))
          /\ pc' = "after" /\ batch' = NoBatch
          /\ UNCHANGED <<dbTip, run, prefetch, seen, faults>>
    /\ UNCHANGED <<server, meta, stop>>

----------------------------------------------------------------------------
(* Completion.                                                             *)

\* Mutant: only the age of the last validation counts.
RefreshByAge(old) == old

\* old: FINAL_TIP_REFRESH_MIN_AGE has passed since the last validation.
should_refresh_tip_before_completion(old) == run.required \/ old

\* The queue is empty: the tip is asked for once more, unless it was just seen.
Drained ==
    /\ pc = "loop" /\ ~stop /\ queue = {}
    /\ \E old \in BOOLEAN :
          IF should_refresh_tip_before_completion(old)
          THEN \E a \in TipAnswers : Reconcile(a, "check")
          ELSE Goto("check") /\ UNCHANGED <<db, run, seen, faults>>
    /\ UNCHANGED <<server, meta, stop>>

\* queue_witness_repairs_if_needed: check_witnesses may ask for ranges again.
RepairWitnesses ==
    /\ pc = "check"
    /\ \/ /\ run.witness < MaxRepairs /\ Fault /\ Drop("loop")
          /\ \E again \in (SUBSET (1 .. dbTip)) \ {{}} : queue' = queue \cup again
          /\ run' = [run EXCEPT !.witness = @ + 1] /\ UNCHANGED seen
       \/ /\ run.witness >= MaxRepairs /\ End("idle")
          /\ UNCHANGED <<queue, faults>>
    /\ UNCHANGED <<server, blocks, dbTip, meta, stop>>

Anchor == Below(dbTip + 1, Confirmations)

\* The tree roots at the anchor are those of the node asked.
RootsMatch(v) == Anchor # 0 => blocks[Anchor] = v[Anchor]

RepairHeight(k) == Below(Anchor, RepairDistances[k])

\* Each tree state is an answer of its own, maybe of another node than that of
\* the anchor; one that is not of the wallet's chain conflicts with its trees.
Accepted(k) ==
    LET h == RepairHeight(k) IN
    \E v \in Views : h # 0 => h <= Len(v) /\ blocks[h] = v[h]
Refused(k) ==
    LET h == RepairHeight(k) IN
    \E v \in Views : h # 0 /\ h <= Len(v) /\ blocks[h] # v[h]

\* repair_anchor_root_mismatch_if_needed: truncate_to_chain_state refuses a
\* state that conflicts with the trees, and a deeper one is tried.
RepairAnchor ==
    /\ pc = "check"
    /\ \E v \in Views : Anchor <= Len(v) /\ ~RootsMatch(v)
    /\ \/ \E k \in run.anchor + 1 .. Len(RepairDistances) :
             /\ Accepted(k) /\ \A j \in run.anchor + 1 .. k - 1 : Refused(j)
             /\ \/ /\ RewindTo(RepairHeight(k), run.tip) /\ Drop("loop")
                   /\ run' = [run EXCEPT !.anchor = k] /\ UNCHANGED <<seen, faults>>
                \/ RewindTears(RepairHeight(k)) /\ End("idle") /\ Fault
       \/ /\ \A k \in run.anchor + 1 .. Len(RepairDistances) : Refused(k)
          /\ End("idle") /\ UNCHANGED <<db, faults>>
    /\ UNCHANGED <<server, meta, stop>>

ensure_complete_scan_state ==
    /\ queue = {} /\ dbTip = run.tip
    /\ \A h \in 1 .. dbTip : blocks[h] # NotScanned

Check ==
    /\ pc = "check" /\ ~stop
    /\ \E v \in Views : Anchor <= Len(v) /\ RootsMatch(v)
    /\ IF ensure_complete_scan_state
       THEN Goto("final") /\ UNCHANGED <<run, seen>>
       ELSE End("retry")
    /\ UNCHANGED <<server, db, meta, stop, faults>>

\* Looked at again before the migration's locks are reconciled.
Final ==
    /\ pc = "final"
    /\ IF ensure_complete_scan_state
       THEN Goto("complete") /\ UNCHANGED <<run, seen>>
       ELSE End("retry")
    /\ UNCHANGED <<server, db, meta, stop, faults>>

mark_sync_completed ==
    /\ pc = "complete"
    /\ completed' = run.tip /\ inProgress' = FALSE /\ End("idle")
    /\ UNCHANGED <<server, db, stop, faults>>

\* An account with an older birthday is imported, also while a run is on.
ImportAccount ==
    /\ Fault
    /\ \E h \in 1 .. dbTip : queue' = queue \cup (1 .. h)
    /\ UNCHANGED <<server, blocks, dbTip, meta, pc, stop, run, work, seen>>

----------------------------------------------------------------------------
Engine ==
    \/ Start \/ Begin \/ Exit \/ Retry
    \/ InitialTip \/ Prepare \/ NextBatch \/ ScanBatch \/ PostBatchTip
    \/ Drained \/ RepairAnchor \/ Check \/ Final
    \/ mark_sync_completed

Next ==
    \/ Engine \/ PeriodicTip \/ BatchMissing
    \/ Stop \/ RpcFails \/ Crash \/ RepairWitnesses \/ ImportAccount
    \/ Mine \/ Reorg \/ CatchUp

Spec == Init /\ [][Next]_vars

\* A started run takes its steps, the application polls and starts another,
\* replicas catch up.
FairSpec == Spec /\ WF_vars(Engine) /\ WF_vars(CatchUp)

----------------------------------------------------------------------------
(* Properties.                                                             *)

\* A run says that it completed only when every block in the wallet, up to
\* the tip, is of the one chain the tip was last found on during that run:
\* whatever forks, replicas, prefetched batches and rewinds the run met.
CompletionIsCanonical ==
    [][mark_sync_completed =>
          /\ Len(seen) >= dbTip
          /\ \A h \in 1 .. dbTip : blocks[h] = seen[h]]_vars

\* The height that completed_sync_height_for_status reports is scanned, though
\* a later run rewound the wallet and died, failed or was stopped.
CompletedIsScanned ==
    ~inProgress => /\ completed <= dbTip
                   /\ \A h \in 1 .. completed : blocks[h] # NotScanned

\* What is not scanned up to the wallet's tip is queued, nothing is stored above
\* it, and a run works toward that tip: through lower answers, rewinds that were
\* torn apart and update_chain_tip, which ignores a tip below a scanned block.
QueueReachesTip ==
    /\ \A h \in Height : blocks[h] = NotScanned => h > dbTip \/ h \in queue
    /\ \A h \in Height : blocks[h] # NotScanned => h <= dbTip
    /\ pc \in {"prepare", "loop", "scan", "after", "check", "final", "complete"}
          => run.tip = dbTip

\* Stored neighbours are parent and child, in whatever order ranges were scanned.
WalletChainIsLinked ==
    \A h \in Height : h > 1 /\ blocks[h] # NotScanned /\ blocks[h - 1] # NotScanned
        => Parent(h, blocks[h]) = blocks[h - 1]

Synced ==
    /\ ~inProgress /\ completed = Len(chain)
    /\ \A h \in 1 .. Len(chain) : blocks[h] = chain[h]

\* Once the chain and the failures come to rest, a run completes with the
\* whole chain, however deep the reorganization and small the rewind budget.
SyncCatchesUp == []<>Synced
============================================================================
