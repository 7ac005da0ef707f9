------------------------- MODULE SendReservations -------------------------
(***************************************************************************)
(* Input reservations of a send, from the review screen to the network.    *)
(*                                                                         *)
(* A send proposal selects wallet notes and locks them in the wallet       *)
(* database.  The proposal itself lives in process memory (PROPOSAL_STORE  *)
(* of rust/src/wallet/sync/mod.rs); a side table of the database           *)
(* (rust/src/wallet/sync/proposal_locks.rs) records who owns which lock,   *)
(* so that the next process can release what a crash left behind.  Three   *)
(* flows finish a proposal:                                                *)
(*   "software"  send.rs: sign and store the transactions, then broadcast; *)
(*   "keystone"  pczt.rs: broadcast signed PCZTs, then store the prefix    *)
(*               the network may have seen;                                *)
(*   "ledger"    ledger/operations.rs: checkpoint the signed PCZTs in a    *)
(*               durable outbox, broadcast from there, also after restart. *)
(*                                                                         *)
(* Sections run under the process-wide wallet write lock are one action.   *)
(* A section made of several SQLite commits can fail or be killed between  *)
(* them: its failing outcomes leave every prefix of its commits behind.    *)
(* Every await and every gap between two sections separates two actions.   *)
(***************************************************************************)
EXTENDS Integers

CONSTANTS
    Proposal,     \* send proposals; a proposal's LockOwner is the proposal itself
    Note,         \* the wallet's spendable outputs
    Migration,    \* the owner of locks taken by the Ironwood migration
    NoOwner,      \* "not locked"
    LockBlocks,   \* SEND_PROPOSAL_LOCK_BLOCKS
    MaxParts,     \* transactions of one proposal: 2 for a ZIP-320 (TEX) payment
    MaxHeight     \* bound on the chain height

ASSUME OwnersDiffer ==
    Migration \notin Proposal /\ NoOwner \notin Proposal /\ Migration # NoOwner

ASSUME BoundsAreNat ==
    /\ LockBlocks \in Nat \ {0}
    /\ MaxParts \in Nat \ {0}
    /\ MaxHeight \in Nat \ {0}

VARIABLES
    tip,          \* height of the chain, as lightwalletd reports it
    wtip,         \* height the wallet has synced its chain tip to
    net,          \* net[p]: length of the prefix of p's transactions that may
                  \* be known to the network (accepted, or outcome unknown)
    lock,         \* wallet database: owner of a note's lock, height it lapses at
    row,          \* vizor_send_proposal_locks: the rows of an owner
    stored,       \* stored[p]: length of the prefix of p's transactions in the wallet
    outbox,       \* Ledger signed-operation outbox
    proposals,    \* PROPOSAL_STORE.proposals
    locks,        \* PROPOSAL_STORE.locks
    shutting,     \* SHUTTING_DOWN
    pc,           \* where the flow of a proposal is
    via,          \* which flow finishes the proposal
    sent,         \* PCZTs of the current attempt the network may have seen
    outcome,      \* result of the current Ledger attempt
    inputs,       \* notes a proposal spends
    parts,        \* number of transactions of a proposal
    minTarget,    \* Proposal::min_target_height
    expiry        \* expiry height of the transactions built from a proposal

chain == <<tip, wtip>>
store == <<proposals, locks>>
facts == <<inputs, parts, minTarget>>
attempt == <<sent, outcome>>
vars == <<tip, wtip, net, lock, row, stored, outbox, proposals, locks,
          shutting, pc, via, sent, outcome, inputs, parts, minTarget, expiry>>

Owners == Proposal \cup {Migration, NoOwner}
Flows == {"software", "keystone", "ledger"}
Phases == {"none", "session", "broadcast", "signed", "release"}
PCs == {"none", "review", "tip", "create", "sign", "route", "mark", "send",
        "store", "finish", "retain", "record", "reclaim", "release", "idle"}
Outcomes == {"none", "broadcasted", "ambiguous", "partial", "storage_failed",
             "expired", "rejected", "retryable"}

\* The rows of one owner: session_id differs from PROCESS_SESSION_ID (old),
\* phase, retain_until_expiry and expiry_height.  phase "none": no row.
Row == [old : BOOLEAN, phase : Phases, retain : BOOLEAN, expiry : Nat]

Lock == [owner : Owners, expiry : Nat]

NoLock == [owner |-> NoOwner, expiry |-> 0]

NoRow == [old |-> FALSE, phase |-> "none", retain |-> FALSE, expiry |-> 0]

----------------------------------------------------------------------------
(* Heights.                                                                *)

\* get_target_and_anchor_heights: the height of the next block.
Target == wtip + 1

\* send_proposal_lock_expiry
SendProposalLockExpiry(h) == h + LockBlocks

\* send_proposal_is_expired
SendProposalIsExpired(min, target) == target >= SendProposalLockExpiry(min)

\* send_expiry_height_for_live_tip, once the proposal is known to be live.
LiveExpiry(min, liveTip) ==
    (IF liveTip + 1 > min THEN liveTip + 1 ELSE min) + LockBlocks

\* latest_block_for_transaction: a fresh answer, or one up to 15 s old.  Sync
\* records every tip before it writes it to the wallet, so it is not behind wtip.
RecentTips == wtip..tip

\* pczt_broadcast_expiry_error
BroadcastExpired(e, height) == height >= e

\* get_resubmittable_txs: expiry_height > current_height.
Resubmittable(e, height) == e > height

----------------------------------------------------------------------------
(* The wallet database (zcash_client_sqlite, seen through its callers).    *)

\* A lock binds while the next block is below its expiry height.
LockActive(n) == lock[n].owner # NoOwner /\ Target < lock[n].expiry

\* A pending wallet transaction keeps the notes it spends until it expires.
SpentByPending(n) ==
    \E p \in Proposal : stored[p] > 0 /\ n \in inputs[p] /\ Target <= expiry[p]

Spendable(n) == ~LockActive(n) /\ ~SpentByPending(n)

\* OutputLockStore::lock_outputs succeeds unless another owner's lock binds.
CanLock(p) == \A n \in inputs[p] : lock[n].owner # p => ~LockActive(n)

LockOutputs(o, S, e) ==
    lock' = [n \in Note |-> IF n \in S THEN [owner |-> o, expiry |-> e] ELSE lock[n]]

\* unlock_output touches a note only while the given owner still holds it.
Unlocked(P, S) ==
    [n \in Note |-> IF n \in S /\ lock[n].owner \in P THEN NoLock ELSE lock[n]]

\* Storing a transaction clears the sender's locks on the notes it spends.
StoreTransactions(p, k) ==
    /\ stored' = [stored EXCEPT ![p] = IF k > @ THEN k ELSE @]
    /\ lock' = IF k > 0 THEN Unlocked({p}, inputs[p]) ELSE lock

----------------------------------------------------------------------------
(* The reservation side table.                                             *)

\* persist: written before the locks are taken.
SessionRow(e) == [old |-> FALSE, phase |-> "session", retain |-> FALSE, expiry |-> e]

\* mark_retain_until_expiry
RetainedRow(r) ==
    [r EXCEPT !.retain = TRUE, !.phase = IF @ = "signed" THEN @ ELSE "broadcast"]

\* Wrong variant: the checkpoint forgets retain_until_expiry.
SignedRowUnretained(r) == [r EXCEPT !.phase = "signed"]

\* checkpoint_owner
SignedRow(r) == [r EXCEPT !.retain = TRUE, !.phase = "signed"]

\* Wrong variant: any row of this session, or none, may be checkpointed.
MayCheckpointAnyPhase(r) == ~r.old

MayCheckpoint(r) == ~r.old /\ r.phase = "session"

\* release_operation; only a checkpointed row carries the operation's id.
ReleasedRow(r) ==
    IF r.phase = "signed" THEN [r EXCEPT !.retain = FALSE, !.phase = "release"] ELSE r

\* Wrong variant: only checkpointed reservations are durable.
IsDurableSignedOnly(r) == r.phase = "signed"

\* is_durable_with_timeout
IsDurable(r) == r.phase \in {"signed", "broadcast"}

\* read_previous_session_locks
LeftBehind(r) == r.phase # "none" /\ (r.old \/ r.phase = "release")

\* Wrong variants: restart releases retained rows; expiry is never looked at.
ShouldReleaseAlways(r, checkExpiry) == TRUE
ShouldReleaseNeverExpired(r, checkExpiry) == ~r.retain

\* should_release_after_restart
ShouldRelease(r, checkExpiry) == ~r.retain \/ (checkExpiry /\ Target >= r.expiry)

Recoverable(checkExpiry) ==
    {p \in Proposal : LeftBehind(row[p]) /\ ShouldRelease(row[p], checkExpiry)}

\* recover: unlock, then delete the rows in one transaction.  An error, or the
\* death of the process, in between leaves some notes unlocked and every row.
RecoverCompletes(checkExpiry) ==
    LET R == Recoverable(checkExpiry) IN
    /\ lock' = Unlocked(R, UNION {inputs[p] : p \in R})
    /\ row' = [p \in Proposal |-> IF p \in R THEN NoRow ELSE row[p]]

RecoverTears(checkExpiry) ==
    LET R == Recoverable(checkExpiry) IN
    /\ \E S \in SUBSET UNION {inputs[p] : p \in R} : lock' = Unlocked(R, S)
    /\ UNCHANGED row

Recover(checkExpiry) == RecoverCompletes(checkExpiry) \/ RecoverTears(checkExpiry)

----------------------------------------------------------------------------
(* The process-local proposal store.                                       *)

\* The flow returns to its caller; what it kept on its stack is gone.
EndFlow(p) ==
    /\ pc' = [pc EXCEPT ![p] = "idle"]
    /\ sent' = [sent EXCEPT ![p] = 0]
    /\ outcome' = [outcome EXCEPT ![p] = "none"]

\* Wrong variant: the capability is not looked up again.
MayProceedUnchecked(p) == ~shutting

\* stored_proposal_lock: the capability is present and the session is open.
MayProceed(p) == p \in locks /\ ~shutting

\* unlock_stored_proposal_locked.  The unlock, the removal of the row and the
\* removal of the capability happen in this order; a failure keeps the latter.
UnlockCompletes(p) ==
    /\ lock' = Unlocked({p}, inputs[p])
    /\ row' = [row EXCEPT ![p] = NoRow]
    /\ locks' = locks \ {p}

UnlockTears(p) ==
    /\ \E S \in SUBSET inputs[p] : lock' = Unlocked({p}, S)
    /\ UNCHANGED <<row, locks>>

UnlockDeclined(p, allowDurable) ==
    p \notin locks \/ (~allowDurable /\ IsDurable(row[p]))

\* retain_stored_proposal_lock_until_expiry; without a capability, or on a
\* database error, nothing changes.
RetainUntilExpiry(p) ==
    \/ /\ p \in locks /\ row[p].phase # "none"
       /\ row' = [row EXCEPT ![p] = RetainedRow(row[p])]
       /\ proposals' = proposals \ {p}
       /\ locks' = locks \ {p}
    \/ UNCHANGED <<row, proposals, locks>>

----------------------------------------------------------------------------
(* Review: propose, cancel, consume.                                       *)

\* propose_send.  The inputs are chosen among the spendable notes.
Propose(p) ==
    /\ pc[p] = "none" /\ ~shutting
    /\ \E S \in SUBSET {n \in Note : Spendable(n)} : \E k \in 1..MaxParts :
          /\ S # {}
          /\ inputs' = [inputs EXCEPT ![p] = S]
          /\ parts' = [parts EXCEPT ![p] = k]
          /\ minTarget' = [minTarget EXCEPT ![p] = Target]
          /\ row' = [row EXCEPT ![p] = SessionRow(SendProposalLockExpiry(Target))]
          /\ \/ /\ LockOutputs(p, S, SendProposalLockExpiry(Target))
                /\ locks' = locks \cup {p}
                /\ proposals' = proposals \cup {p}
                /\ pc' = [pc EXCEPT ![p] = "review"]
             \* lock_outputs fails, and so does the removal of the row
             \/ /\ pc' = [pc EXCEPT ![p] = "idle"]
                /\ UNCHANGED <<lock, store>>
    /\ UNCHANGED <<chain, net, stored, outbox, shutting, via, attempt, expiry>>

\* Wrong variant: a consumed proposal stays in the store.
ConsumeKeepsProposal(p) ==
    /\ p \in proposals /\ ~shutting
    /\ \E f \in Flows : via' = [via EXCEPT ![p] = f]
    /\ \E c \in {"tip", "release"} :
          /\ c = "tip" => p \in locks
          /\ pc' = [pc EXCEPT ![p] = c]
    /\ UNCHANGED <<chain, net, lock, row, stored, outbox, store, shutting,
                   attempt, facts, expiry>>

\* consume_stored_proposal by execute_proposal or create_pczt_from_proposal;
\* a missing capability or a failing seed loader ends in the release path.
Consume(p) ==
    /\ p \in proposals /\ ~shutting
    /\ proposals' = proposals \ {p}
    /\ \E f \in Flows : via' = [via EXCEPT ![p] = f]
    /\ \E c \in {"tip", "release"} :
          /\ c = "tip" => p \in locks
          /\ pc' = [pc EXCEPT ![p] = c]
    /\ UNCHANGED <<chain, net, lock, row, stored, outbox, locks, shutting,
                   attempt, facts, expiry>>

\* Steps that rely on the locks a discard releases.
InFlight == {"tip", "create", "sign", "route", "mark"}

\* discard_stored_proposal.  The flow of the proposal is not told: it finds out
\* at its next check of the store.  A discard that failed half-way keeps the
\* capability; that "it must not enable signing the old proposal" is up to the
\* callers, and discardSendProposal in send_flow.dart states it as their duty.
Discard(p) ==
    /\ p \in proposals \cup locks
    /\ proposals' = proposals \ {p}
    /\ \/ UnlockDeclined(p, FALSE) /\ UNCHANGED <<lock, row, locks, pc>>
       \/ ~UnlockDeclined(p, FALSE) /\ UnlockCompletes(p) /\ UNCHANGED pc
       \/ /\ ~UnlockDeclined(p, FALSE) /\ UnlockTears(p)
          /\ pc' = IF pc[p] \in InFlight THEN [pc EXCEPT ![p] = "idle"] ELSE pc
    /\ UNCHANGED <<chain, net, stored, outbox, shutting, via, attempt,
                   facts, expiry>>

\* finish_stored_proposal(.., true) on the error paths of all flows.
ReleaseAfterFailure(p) ==
    /\ pc[p] = "release"
    /\ \/ UnlockDeclined(p, TRUE) /\ UNCHANGED <<lock, row, locks>>
       \/ ~UnlockDeclined(p, TRUE) /\ (UnlockCompletes(p) \/ UnlockTears(p))
    /\ EndFlow(p)
    /\ UNCHANGED <<chain, net, stored, outbox, proposals, shutting, via, facts, expiry>>

----------------------------------------------------------------------------
(* Building the transactions against the live chain tip.                   *)

\* live_send_expiry_height: read a recent tip, over the network or from the
\* transaction-tip cache, or fail.
ReadLiveTip(p) ==
    /\ pc[p] = "tip"
    /\ \/ /\ \E h \in RecentTips :
                /\ ~SendProposalIsExpired(minTarget[p], h + 1)
                /\ expiry' = [expiry EXCEPT ![p] = LiveExpiry(minTarget[p], h)]
          /\ pc' = [pc EXCEPT ![p] = "create"]
       \/ /\ pc' = [pc EXCEPT ![p] = "release"]
          /\ UNCHANGED expiry
    /\ UNCHANGED <<chain, net, lock, row, stored, outbox, store, shutting, via,
                   attempt, facts>>

\* What the critical section re-checks after the await.  The hardware flows do
\* not compare the wallet's own target height with the proposal's expiry.
MayCreate(p) ==
    /\ MayProceed(p)
    /\ via[p] = "software" => ~SendProposalIsExpired(minTarget[p], Target)
    /\ CanLock(p)

\* execute_stored_proposal, critical section: create_proposed_transactions
\* stores every transaction of the proposal at once.
CreateTransactions(p) ==
    /\ pc[p] = "create" /\ via[p] = "software"
    /\ MayCreate(p) /\ row[p].phase # "none"
    /\ row' = [row EXCEPT ![p].expiry = expiry[p]]
    /\ StoreTransactions(p, parts[p])
    /\ pc' = [pc EXCEPT ![p] = "finish"]
    /\ UNCHANGED <<chain, net, outbox, store, shutting, via, attempt, facts, expiry>>

\* create_pczt_from_proposal and create_tex_pczts_from_proposal.
CreatePczts(p) ==
    /\ pc[p] = "create" /\ via[p] # "software"
    /\ MayCreate(p) /\ row[p].phase # "none"
    /\ LockOutputs(p, inputs[p], expiry[p])
    /\ row' = [row EXCEPT ![p].expiry = expiry[p]]
    /\ pc' = [pc EXCEPT ![p] = "sign"]
    /\ UNCHANGED <<chain, net, stored, outbox, store, shutting, via, attempt, facts,
                   expiry>>

\* The section fails: before its first commit, after lock_outputs, or after
\* update_expiry.
CreateFails(p) ==
    /\ pc[p] = "create"
    /\ pc' = [pc EXCEPT ![p] = "release"]
    /\ \/ UNCHANGED <<lock, row>>
       \/ /\ MayCreate(p)
          /\ LockOutputs(p, inputs[p], expiry[p])
          /\ \/ UNCHANGED row
             \/ row[p].phase # "none" /\ row' = [row EXCEPT ![p].expiry = expiry[p]]
    /\ UNCHANGED <<chain, net, stored, outbox, store, shutting, via, attempt, facts,
                   expiry>>

\* finish_stored_proposal(.., false) after the transactions are in the wallet:
\* the capability goes first, then the row, whose removal may fail.
FinishStored(p) ==
    /\ pc[p] = "finish"
    /\ locks' = locks \ {p}
    /\ UNCHANGED row \/ (p \in locks /\ row' = [row EXCEPT ![p] = NoRow])
    /\ IF via[p] = "software"
       THEN pc' = [pc EXCEPT ![p] = "send"] /\ UNCHANGED attempt
       ELSE EndFlow(p)
    /\ UNCHANGED <<chain, net, lock, stored, outbox, proposals, shutting, via, facts,
                   expiry>>

----------------------------------------------------------------------------
(* Broadcast.  A node knows, or may know, a transaction after it answered  *)
(* with success or "already known", or after the transport failed once     *)
(* SendTransaction had begun.  A rejection is definite.                    *)

Reached(p, i) == [net EXCEPT ![p] = IF i > @ THEN i ELSE @]

\* broadcast_created_transactions: in order, up to the first failure.
SendCreated(p) ==
    /\ pc[p] = "send" /\ via[p] = "software"
    /\ LET i == sent[p] + 1 IN
       \/ /\ i < parts[p]                    \* accepted, and there are more
          /\ net' = Reached(p, i)
          /\ sent' = [sent EXCEPT ![p] = i]
          /\ UNCHANGED <<pc, outcome>>
       \/ /\ net' \in {net, Reached(p, i)}   \* the last one, or a failure
          /\ EndFlow(p)
    /\ UNCHANGED <<chain, lock, row, stored, outbox, store, shutting, via, facts, expiry>>

\* resubmit_pending_transactions, for one stored transaction: parents first.
Resubmit(p) ==
    /\ Resubmittable(expiry[p], tip)
    /\ \E i \in 1..stored[p] : i <= net[p] + 1 /\ net' = Reached(p, i)
    /\ UNCHANGED <<chain, lock, row, stored, outbox, store, shutting, pc, via,
                   attempt, facts, expiry>>

\* store_and_broadcast_pczts_for_proposal, up to its first await: the
\* capability is checked and the signatures are combined with the proofs.
StartBroadcast(p) ==
    /\ pc[p] = "sign" /\ via[p] = "keystone"
    /\ \E c \in {"route", "release"} :
          /\ c = "route" => MayProceed(p)
          /\ pc' = [pc EXCEPT ![p] = c]
    /\ UNCHANGED <<chain, net, lock, row, stored, outbox, store, shutting, via, attempt,
                   facts, expiry>>

\* Open the route and read the tip; an expired set is not broadcast.  Without
\* a proposal (Ledger) the result goes to the outbox instead of the store.
OpenRoute(p) ==
    /\ pc[p] = "route"
    /\ LET ledger == via[p] = "ledger" IN
       \/ /\ \E h \in RecentTips : ~BroadcastExpired(expiry[p], h)
          /\ pc' = [pc EXCEPT ![p] = IF ledger THEN "send" ELSE "mark"]
          /\ UNCHANGED outcome
       \/ /\ \E h \in RecentTips : BroadcastExpired(expiry[p], h)
          /\ pc' = [pc EXCEPT ![p] = IF ledger THEN "record" ELSE "release"]
          /\ outcome' = [outcome EXCEPT ![p] = "expired"]
       \/ /\ pc' = [pc EXCEPT ![p] = IF ledger THEN "record" ELSE "release"]
          /\ outcome' = [outcome EXCEPT ![p] = "retryable"]
    /\ UNCHANGED <<chain, net, lock, row, stored, outbox, store, shutting, via,
                   sent, facts, expiry>>

\* mark_proposal_broadcast_started, before the first SendTransaction.  Its
\* errors return without releasing anything.
MarkBroadcastStarted(p) ==
    /\ pc[p] = "mark"
    /\ \/ /\ MayProceed(p) /\ row[p].phase # "none"
          /\ row' = [row EXCEPT ![p] = RetainedRow(row[p])]
          /\ pc' = [pc EXCEPT ![p] = "send"] /\ UNCHANGED attempt
       \/ EndFlow(p) /\ UNCHANGED row
    /\ UNCHANGED <<chain, net, lock, stored, outbox, store, shutting, via, facts, expiry>>

\* Wrong variants: the loop runs past the last transaction; a rejected
\* transaction is persisted with the prefix before it.
BroadcastStepOffByOne(k, n, answer) ==
    CASE answer = "accepted" /\ k < n -> [step |-> "continue", prefix |-> k + 1, as |-> "none"]
      [] answer = "unknown" -> [step |-> "stop", prefix |-> k + 1, as |-> "ambiguous"]
      [] answer = "rejected" /\ k = 0 -> [step |-> "fail", prefix |-> 0, as |-> "rejected"]
      [] OTHER -> [step |-> "stop", prefix |-> k, as |-> "partial"]
BroadcastStepKeepsRejected(k, n, answer) ==
    CASE answer = "accepted" /\ k + 1 < n -> [step |-> "continue", prefix |-> k + 1, as |-> "none"]
      [] OTHER -> [step |-> "stop", prefix |-> k + 1, as |-> "partial"]

\* pczt_broadcast_step: what each answer makes of the PCZT at 0-based index k
\* of n.  Stop carries the length of the prefix to persist.
BroadcastStep(k, n, answer) ==
    CASE answer = "accepted" /\ k + 1 < n -> [step |-> "continue", prefix |-> k + 1, as |-> "none"]
      [] answer = "accepted" /\ k + 1 >= n -> [step |-> "stop", prefix |-> k + 1, as |-> "broadcasted"]
      [] answer = "unknown" -> [step |-> "stop", prefix |-> k + 1, as |-> "ambiguous"]
      [] answer \in {"rejected", "no_route"} /\ k = 0 -> [step |-> "fail", prefix |-> 0, as |-> "rejected"]
      [] OTHER -> [step |-> "stop", prefix |-> k, as |-> "partial"]

Answers(k) == {"accepted", "unknown", "rejected"} \cup (IF k = 0 THEN {} ELSE {"no_route"})

\* One iteration of the broadcast loop.  The first PCZT uses the route that is
\* already open.
SendPczt(p) ==
    /\ pc[p] = "send" /\ via[p] # "software"
    /\ LET k == sent[p] IN \E answer \in Answers(k) :
          LET s == BroadcastStep(k, parts[p], answer) IN
          /\ net' = CASE answer \in {"accepted", "unknown"} -> Reached(p, k + 1)
                      [] answer = "rejected" -> [net EXCEPT ![p] = k]
                      [] OTHER -> net
          /\ sent' = [sent EXCEPT ![p] = s.prefix]
          /\ outcome' = [outcome EXCEPT ![p] = s.as]
          /\ pc' = [pc EXCEPT ![p] =
                CASE s.step = "continue" -> "send"
                  [] s.step = "stop" -> "store"
                  [] OTHER -> IF via[p] = "ledger" THEN "record" ELSE "release"]
    /\ UNCHANGED <<chain, lock, row, stored, outbox, store, shutting, via, facts,
                   expiry>>

\* pczt.store_broadcast_pczts: the prefix is stored in one SQLite transaction,
\* by the PCZT-aware path or by the chain-style fallback, or not at all.
StorePczts(p) ==
    /\ pc[p] = "store"
    /\ \/ /\ StoreTransactions(p, sent[p])
          /\ pc' = [pc EXCEPT ![p] = IF via[p] = "ledger" THEN "record" ELSE "finish"]
          /\ UNCHANGED outcome
       \/ /\ pc' = [pc EXCEPT ![p] = IF via[p] = "ledger" THEN "record" ELSE "retain"]
          /\ outcome' = [outcome EXCEPT ![p] = IF @ = "broadcasted" THEN "storage_failed" ELSE @]
          /\ UNCHANGED <<stored, lock>>
    /\ UNCHANGED <<chain, net, row, outbox, store, shutting, via, sent, facts, expiry>>

\* retain_stored_proposal_lock_until_expiry after storage failed, or called by
\* Dart after an unresolved result (retryable, unknown, not stored).
Retain(p) ==
    /\ pc[p] = "retain" \/ (pc[p] = "idle" /\ p \in locks /\ IsDurable(row[p]))
    /\ RetainUntilExpiry(p)
    /\ EndFlow(p)
    /\ UNCHANGED <<chain, net, lock, stored, outbox, shutting, via, facts, expiry>>

----------------------------------------------------------------------------
(* The Ledger outbox.                                                      *)

\* checkpoint_batch: the outbox row and the promoted reservation commit
\* together, or the section fails and leaves both alone.
Checkpoint(p) ==
    /\ pc[p] = "sign" /\ via[p] = "ledger"
    /\ EndFlow(p)
    /\ \/ /\ ~shutting /\ MayCheckpoint(row[p])
          /\ row' = [row EXCEPT ![p] = SignedRow(row[p])]
          /\ outbox' = [outbox EXCEPT ![p] = "pending"]
       \/ UNCHANGED <<row, outbox>>
    /\ UNCHANGED <<chain, net, lock, stored, store, shutting, via, facts, expiry>>

\* broadcast: guarded per operation, loads a pending operation.
BroadcastOperation(p) ==
    /\ pc[p] = "idle" /\ outbox[p] = "pending"
    /\ pc' = [pc EXCEPT ![p] = "route"]
    /\ UNCHANGED <<chain, net, lock, row, stored, outbox, store, shutting, via, attempt,
                   facts, expiry>>

\* Wrong variant: every recorded result ends the claim.
EndsReservationAlways(result) == TRUE

\* Which results end the operation's claim on its inputs: the statuses
\* apply_broadcast_outcome releases and is_terminal_broadcast_failure.
EndsReservation(result) == result \in {"broadcasted", "expired", "rejected"}

\* apply_broadcast_outcome and record_broadcast_failure.
RecordOutcome(p) ==
    /\ pc[p] = "record"
    /\ pc' = [pc EXCEPT ![p] = "reclaim"]
    /\ \/ /\ outcome[p] # "retryable"
          /\ \E s \in {"none", "ack"} :
                /\ s = "none" => outcome[p] \in {"broadcasted", "rejected"}
                /\ s = "ack" => outcome[p] # "rejected"
                /\ outbox' = [outbox EXCEPT ![p] = s]
          /\ row' = IF EndsReservation(outcome[p])
                    THEN [row EXCEPT ![p] = ReleasedRow(row[p])] ELSE row
       \/ UNCHANGED <<outbox, row>>
    /\ UNCHANGED <<chain, net, lock, stored, store, shutting, via, attempt, facts,
                   expiry>>

\* recover_before_balance at the end of broadcast.
ReclaimAfterBroadcast(p) ==
    /\ pc[p] = "reclaim"
    /\ Recover(FALSE)
    /\ EndFlow(p)
    /\ UNCHANGED <<chain, net, stored, outbox, store, shutting, via, facts, expiry>>

\* acknowledge
Acknowledge(p) ==
    /\ outbox[p] = "ack"
    /\ outbox' = [outbox EXCEPT ![p] = "none"]
    /\ UNCHANGED <<chain, net, lock, row, stored, store, shutting, pc, via,
                   attempt, facts, expiry>>

----------------------------------------------------------------------------
(* Recovery, shutdown, crashes, and the rest of the world.                 *)

\* ensure_db_migrated_once, before the first balance snapshot: no heights.
RecoverBeforeBalance ==
    /\ Recover(FALSE)
    /\ UNCHANGED <<chain, net, stored, outbox, store, shutting, pc, via,
                   attempt, facts, expiry>>

\* recover_previous_process, by the sync engine after it updated the chain tip.
RecoverPreviousProcess ==
    /\ Recover(TRUE)
    /\ UNCHANGED <<chain, net, stored, outbox, store, shutting, pc, via,
                   attempt, facts, expiry>>

\* shutdown_signing_reservations closes the session first...
BeginShutdown ==
    /\ ~shutting /\ shutting' = TRUE
    /\ UNCHANGED <<chain, net, lock, row, stored, outbox, store, pc, via, attempt,
                   facts, expiry>>

\* ... and then releases what it can until its deadline.
ShutdownRelease(p) ==
    /\ shutting /\ p \in locks /\ ~UnlockDeclined(p, FALSE)
    /\ UnlockCompletes(p) \/ UnlockTears(p)
    /\ UNCHANGED <<chain, net, stored, outbox, proposals, shutting, pc, via,
                   attempt, facts, expiry>>

\* The process dies, at any point, and a new one starts with a new session id.
Restart ==
    /\ proposals' = {} /\ locks' = {} /\ shutting' = FALSE
    /\ sent' = [p \in Proposal |-> 0] /\ outcome' = [p \in Proposal |-> "none"]
    /\ pc' = [p \in Proposal |-> IF pc[p] = "none" THEN "none" ELSE "idle"]
    /\ row' = [p \in Proposal |->
                  IF row[p].phase = "none" THEN row[p] ELSE [row[p] EXCEPT !.old = TRUE]]
    /\ UNCHANGED <<chain, net, lock, stored, outbox, via, facts, expiry>>

AdvanceTip ==
    /\ tip < MaxHeight
    /\ tip' = tip + 1
    /\ UNCHANGED <<wtip, net, lock, row, stored, outbox, store, shutting, pc, via,
                   attempt, facts, expiry>>

\* The hardware flows' gap between the live-tip answer and the wallet write
\* lock is bounded by RPC and lock timeouts of seconds: the wallet does not
\* sync past the proposal's 40-block window inside it.
GapIsShort(h) ==
    \A p \in Proposal :
        pc[p] = "create" /\ via[p] # "software" => ~SendProposalIsExpired(minTarget[p], h + 1)

\* update_chain_tip
SyncTip ==
    /\ \E h \in (wtip + 1)..tip : GapIsShort(h) /\ wtip' = h
    /\ UNCHANGED <<tip, net, lock, row, stored, outbox, store, shutting, pc, via,
                   attempt, facts, expiry>>

\* BlockHeight::from_u32(u32::MAX): above every target height of the bounded chain.
MigrationLockExpiry == MaxHeight + 2

\* ensure_orchard_migration_locks, for one note: an unspent note no other owner
\* holds is locked for good ...
MigrationLock(n) ==
    /\ Spendable(n)
    /\ LockOutputs(Migration, {n}, MigrationLockExpiry)
    /\ UNCHANGED <<chain, net, row, stored, outbox, store, shutting, pc, via, attempt,
                   facts, expiry>>

\* ... until unlock_orchard_migration_outputs.
MigrationUnlock(n) ==
    /\ lock[n].owner = Migration
    /\ lock' = Unlocked({Migration}, {n})
    /\ UNCHANGED <<chain, net, row, stored, outbox, store, shutting, pc, via,
                   attempt, facts, expiry>>

----------------------------------------------------------------------------

Init ==
    /\ tip = 1 /\ wtip = 1
    /\ net = [p \in Proposal |-> 0]
    /\ lock = [n \in Note |-> NoLock]
    /\ row = [p \in Proposal |-> NoRow]
    /\ stored = [p \in Proposal |-> 0]
    /\ outbox = [p \in Proposal |-> "none"]
    /\ proposals = {} /\ locks = {} /\ shutting = FALSE
    /\ pc = [p \in Proposal |-> "none"]
    /\ via = [p \in Proposal |-> "software"]
    /\ sent = [p \in Proposal |-> 0]
    /\ outcome = [p \in Proposal |-> "none"]
    /\ inputs = [p \in Proposal |-> {}]
    /\ parts = [p \in Proposal |-> 1]
    /\ minTarget = [p \in Proposal |-> 0]
    /\ expiry = [p \in Proposal |-> 0]

Review(p) == Propose(p) \/ Consume(p) \/ Discard(p) \/ ReleaseAfterFailure(p)

Build(p) ==
    ReadLiveTip(p) \/ CreateTransactions(p) \/ CreatePczts(p) \/ CreateFails(p) \/ FinishStored(p)

Broadcast(p) ==
    \/ SendCreated(p) \/ Resubmit(p) \/ StartBroadcast(p) \/ OpenRoute(p)
    \/ MarkBroadcastStarted(p) \/ SendPczt(p) \/ StorePczts(p) \/ Retain(p)

Ledger(p) ==
    \/ Checkpoint(p) \/ BroadcastOperation(p) \/ RecordOutcome(p)
    \/ ReclaimAfterBroadcast(p) \/ Acknowledge(p)

Next ==
    \/ \E p \in Proposal :
          Review(p) \/ Build(p) \/ Broadcast(p) \/ Ledger(p) \/ ShutdownRelease(p)
    \/ RecoverBeforeBalance \/ RecoverPreviousProcess \/ BeginShutdown \/ Restart
    \/ AdvanceTip \/ SyncTip
    \/ \E n \in Note : MigrationLock(n) \/ MigrationUnlock(n)

Spec == Init /\ [][Next]_vars

\* The chain grows, sync follows it and eventually gets through its recovery
\* pass, and a critical section that was entered is left.
SyncRecovers ==
    /\ RecoverCompletes(TRUE)
    /\ UNCHANGED <<chain, net, stored, outbox, store, shutting, pc, via,
                   attempt, facts, expiry>>

Fairness ==
    /\ WF_vars(AdvanceTip) /\ WF_vars(SyncTip) /\ WF_vars(SyncRecovers)
    /\ \A p \in Proposal : WF_vars(CreateTransactions(p) \/ CreatePczts(p) \/ CreateFails(p))

FairSpec == Spec /\ Fairness

----------------------------------------------------------------------------
(* Properties.                                                             *)

\* Types of the store, the side table, the outbox and the flow variables; the
\* wallet never runs ahead of the chain it syncs from.
TypeOK ==
    /\ tip \in Nat /\ wtip \in Nat /\ wtip <= tip
    /\ net \in [Proposal -> 0..MaxParts]
    /\ lock \in [Note -> Lock]
    /\ row \in [Proposal -> Row]
    /\ stored \in [Proposal -> 0..MaxParts]
    /\ outbox \in [Proposal -> {"none", "pending", "ack"}]
    /\ proposals \subseteq Proposal /\ locks \subseteq Proposal /\ shutting \in BOOLEAN
    /\ pc \in [Proposal -> PCs] /\ via \in [Proposal -> Flows]
    /\ sent \in [Proposal -> 0..MaxParts] /\ outcome \in [Proposal -> Outcomes]
    /\ inputs \in [Proposal -> SUBSET Note] /\ parts \in [Proposal -> 1..MaxParts]
    /\ minTarget \in [Proposal -> Nat] /\ expiry \in [Proposal -> Nat]

HoldsInputs(p) == \A n \in inputs[p] : lock[n] = [owner |-> p, expiry |-> expiry[p]]

Reserved(p) == stored[p] > 0 \/ HoldsInputs(p)

\* A transaction can still be mined, with a block to spare before the wallet's
\* own bookkeeping (which counts from the next block) lets go of it.
Live(p) == tip + 1 < expiry[p]

\* While a transaction that may be on the network can still be mined, the
\* wallet keeps its inputs out of every other send: it stored the transaction
\* or it still holds all the input locks, whatever was cancelled, shut down,
\* killed, recovered or failed in between.
MaybeOnNetworkIsReserved ==
    \A p \in Proposal : net[p] > 0 /\ Live(p) => Reserved(p)

\* A signed Ledger operation waiting in the outbox can be broadcast by any later
\* process, so its inputs stay reserved until it expires.
PendingOperationIsReserved ==
    \A p \in Proposal : outbox[p] = "pending" /\ Live(p) => Reserved(p)

\* The wallet never has two live transactions of different proposals that
\* spend the same note and may both be on the network.
NoConflictingSpends ==
    \A p, q \in Proposal :
        p # q /\ net[p] > 0 /\ net[q] > 0 /\ Live(p) /\ Live(q)
            => inputs[p] \cap inputs[q] = {}

\* No lock leaks: a note locked by a send proposal is always listed in a row of
\* the side table, so the next process can find and release it.
LocksAreRecoverable ==
    \A n \in Note : lock[n].owner \in Proposal =>
        row[lock[n].owner].phase # "none" /\ n \in inputs[lock[n].owner]

\* A hardware flow stores only what the network accepted or may have seen; a
\* definitely rejected transaction never enters the wallet.
StoresOnlyWhatWasSent ==
    [][\A p \in Proposal :
          via[p] # "software" /\ stored'[p] > stored[p] => stored'[p] <= net[p]]_vars

Cancelled(p) ==
    /\ pc[p] # "none" /\ row[p].phase = "none" /\ p \notin locks
    /\ net[p] = 0 /\ stored[p] = 0 /\ outbox[p] = "none"

\* A send that was cancelled stays cancelled: a flow that was waiting for the
\* network or for the user while its proposal was released neither takes locks
\* again nor stores, checkpoints or broadcasts anything.
CancelledStaysCancelled ==
    [][\A p \in Proposal : Cancelled(p) =>
          /\ net'[p] = 0 /\ stored'[p] = 0 /\ outbox'[p] = "none"
          /\ \A n \in Note : lock'[n].owner = p => lock[n].owner = p]_vars

\* Reservations left by a dead process, or by a finished Ledger operation, are
\* released at the latest once their expiry height is synced.
OrphansReclaimed ==
    \A p \in Proposal :
        (LeftBehind(row[p]) /\ row[p].expiry <= MaxHeight)
            ~> (row[p].phase = "none" /\ \A n \in Note : lock[n].owner # p)
============================================================================
