--------------------------- MODULE MigrationLocks ---------------------------
(***************************************************************************)
(* The wallet locks of one Ironwood migration run                          *)
(* (rust/src/wallet/sync/migration.rs and migration_wallet_ops.rs).        *)
(*                                                                         *)
(* A run lists the Orchard notes it will spend in its own tables: prepared *)
(* notes and the inputs of its denomination stages.  Ordinary sends stay   *)
(* away from these notes because the wallet holds a lock on each of them   *)
(* in the run's name.  The run's phase and the wallet's locks live behind  *)
(* different interfaces and cannot change in one transaction; a            *)
(* reconciliation brings the locks after the phase, and looks at the phase *)
(* again once it has written them.                                         *)
(*                                                                         *)
(* Two threads reconcile: "foreground", the one operation that holds the   *)
(* account's ActiveIronwoodMigration guard, and "sync", the end of every   *)
(* completed scan, which takes no guard.  Any database call may fail, an   *)
(* unlocking half way through, and the process may be killed.              *)
(***************************************************************************)
EXTENDS Integers

CONSTANTS
    Prepared,    \* notes the run lists in PREPARED_NOTES_TABLE
    StageInput,  \* notes it lists in STAGE_INPUTS_TABLE
    MaxTries,    \* rounds of one reconciliation (8 in the code)
    MaxFaults    \* bound on failures and crashes

ASSUME LockConstants == MaxTries \in Nat \ {0} /\ MaxFaults \in Nat

VARIABLES
    phase,       \* RUNS_TABLE.phase; "none" and "deleted" when there is no row
    idempotent,  \* last_error is "already accepted" and a row is scheduled
    prepared,    \* the run's prepared notes
    unsent,      \* inputs of its stages that are awaiting or pending
    sent,        \* inputs of its stages that are broadcasted or confirmed
    spendable,   \* notes get_spendable_note finds
    hasTarget,   \* the wallet has a target height
    locks,       \* notes the wallet holds locked for the run's owner
    pc,          \* where a thread is
    job,         \* what the foreground thread does
    release,     \* the disposition a thread's snapshot asks for
    cands,       \* the candidates of its snapshot
    tries,       \* the rounds it has made
    faults,      \* failures and crashes so far
    owed         \* since a sync last began undisturbed, a reconciliation failed
                 \* or a phase changed without one

vars == <<phase, idempotent, prepared, unsent, sent, spendable, hasTarget, locks, pc, job,
          release, cands, tries, faults, owed>>

table == <<phase, idempotent, prepared, unsent, sent>>
wallet == <<spendable, hasTarget, locks>>
thread == <<pc, job, release, cands, tries>>

Note == Prepared \cup StageInput
Thread == {"foreground", "sync"}
Terminal == {"complete", "failed_terminal", "abandoned"}
NoRow == {"none", "deleted"}
Phases == {"draft", "active"} \cup NoRow \cup Terminal
Steps == {"idle", "snap", "apply", "recheck", "undo", "discard", "cleanup", "delete", "scanned",
          "recover", "confirm"}

TypeOK ==
    /\ phase \in Phases /\ idempotent \in BOOLEAN
    /\ prepared \subseteq Note /\ unsent \subseteq Note /\ sent \subseteq Note
    /\ spendable \subseteq Note /\ hasTarget \in BOOLEAN /\ locks \subseteq Note
    /\ pc \in [Thread -> Steps] /\ job \in {"none", "create", "abandon", "other"}
    /\ release \in [Thread -> BOOLEAN] /\ cands \in [Thread -> SUBSET Note]
    /\ tries \in [Thread -> 0 .. MaxTries]
    /\ faults \in 0 .. MaxFaults /\ owed \in BOOLEAN

Init ==
    /\ phase = "none" /\ idempotent = FALSE
    /\ prepared = {} /\ unsent = {} /\ sent = {}
    /\ spendable \in SUBSET Note /\ hasTarget \in BOOLEAN /\ locks = {}
    /\ pc = [t \in Thread |-> "idle"] /\ job = "none"
    /\ release = [t \in Thread |-> FALSE] /\ cands = [t \in Thread |-> {}]
    /\ tries = [t \in Thread |-> 0]
    /\ faults = 0 /\ owed = FALSE
----------------------------------------------------------------------------
\* Mutant: a stopped run keeps its locks.
ReleasesUnlessAbandoned(ph) == ph \in Terminal \ {"abandoned"}

\* migration_phase_releases_wallet_locks
PhaseReleasesLocks(ph) == ph \in Terminal

\* wallet_lock_candidates_with_conn
Candidates == prepared \cup unsent \cup sent

\* Mutant: the pass returns without comparing.
AlwaysStable(applied, current) == TRUE

\* wallet_lock_reconciliation_is_stable
Stable(applied, current) == applied = current

Goto(t, step) == pc' = [pc EXCEPT ![t] = step]

\* A thread is finished with its reconciliation: abandon_run goes on to
\* discard its unsubmitted stages, every other caller returns.
Done(t) == Goto(t, IF t = "foreground" /\ job = "abandon" THEN "discard" ELSE "idle")

\* A call fails.  A run whose first reconciliation fails is cleaned up; every
\* other caller returns the error.
Returns(t) ==
    /\ owed' = TRUE
    /\ Goto(t, IF t = "foreground" /\ job = "create" THEN "cleanup" ELSE "idle")
    /\ UNCHANGED <<table, job, release, cands, tries>>

Fails(t) == faults < MaxFaults /\ faults' = faults + 1 /\ Returns(t)

\* unlock_orchard_migration_outputs reaches only some of its outputs.
UnlockFails(t, outputs) ==
    /\ outputs # {}
    /\ \E s \in SUBSET outputs : locks' = locks \ s
    /\ Fails(t)
    /\ UNCHANGED <<spendable, hasTarget>>
----------------------------------------------------------------------------
(* reconcile_wallet_locks_for_run_inner                                    *)

\* wallet_lock_reconciliation_snapshot, at the top of a round.
Snapshot(t) ==
    /\ pc[t] = "snap"
    /\ IF phase \in NoRow THEN Done(t) /\ UNCHANGED <<release, cands>>
       ELSE /\ Goto(t, "apply")
            /\ release' = [release EXCEPT ![t] = PhaseReleasesLocks(phase)]
            /\ cands' = [cands EXCEPT ![t] = Candidates]
    /\ UNCHANGED <<table, wallet, job, tries, faults, owed>>

\* A read of the migration tables fails, or the scan does.
ReadFails(t) ==
    /\ pc[t] \in {"snap", "recheck", "scanned", "recover", "confirm"}
    /\ Fails(t)
    /\ UNCHANGED wallet

\* ensure_orchard_migration_locks: the candidates the wallet can see.
EnsureLocks(t) ==
    /\ pc[t] = "apply" /\ ~release[t]
    /\ locks' = IF hasTarget THEN locks \cup (cands[t] \cap spendable) ELSE locks
    /\ Goto(t, "recheck")
    /\ UNCHANGED <<table, spendable, hasTarget, job, release, cands, tries, faults, owed>>

EnsureFails(t) ==
    /\ pc[t] = "apply" /\ ~release[t] /\ cands[t] # {}
    /\ Fails(t)
    /\ UNCHANGED wallet

\* unlock_orchard_migration_outputs
Unlock(t) ==
    /\ pc[t] = "apply" /\ release[t]
    /\ locks' = locks \ cands[t]
    /\ Goto(t, "recheck")
    /\ UNCHANGED <<table, spendable, hasTarget, job, release, cands, tries, faults, owed>>

UnlockApplyFails(t) == pc[t] = "apply" /\ release[t] /\ UnlockFails(t, cands[t])

\* Mutant of Recheck: rounds are not counted.
RecheckForever(t) ==
    /\ pc[t] = "recheck"
    /\ \/ phase \in NoRow /\ Goto(t, "undo") /\ UNCHANGED tries
       \/ /\ phase \notin NoRow /\ Stable(release[t], PhaseReleasesLocks(phase))
          /\ Done(t) /\ UNCHANGED tries
       \/ /\ phase \notin NoRow /\ ~Stable(release[t], PhaseReleasesLocks(phase))
          /\ tries' = [tries EXCEPT ![t] = @ + 1]
          /\ Goto(t, "snap")
    /\ UNCHANGED <<table, wallet, job, release, cands, faults, owed>>

\* The second snapshot: the run is gone, the disposition is unchanged, or
\* another round is due.
Recheck(t) ==
    /\ pc[t] = "recheck"
    /\ \/ phase \in NoRow /\ Goto(t, "undo") /\ UNCHANGED tries
       \/ /\ phase \notin NoRow /\ Stable(release[t], PhaseReleasesLocks(phase))
          /\ Done(t) /\ UNCHANGED tries
       \/ /\ phase \notin NoRow /\ ~Stable(release[t], PhaseReleasesLocks(phase))
          /\ tries[t] + 1 < MaxTries
          /\ tries' = [tries EXCEPT ![t] = @ + 1]
          /\ Goto(t, "snap")
    /\ UNCHANGED <<table, wallet, job, release, cands, faults, owed>>

\* The last round ended unstable.
RecheckGivesUp(t) ==
    /\ pc[t] = "recheck" /\ phase \notin NoRow
    /\ ~Stable(release[t], PhaseReleasesLocks(phase)) /\ tries[t] + 1 = MaxTries
    /\ Returns(t)
    /\ UNCHANGED <<wallet, faults>>

\* The run was deleted meanwhile: the locks just written are removed.
UndoLocks(t) ==
    /\ pc[t] = "undo"
    /\ locks' = locks \ cands[t]
    /\ Done(t)
    /\ UNCHANGED <<table, spendable, hasTarget, job, release, cands, tries, faults, owed>>

UndoFails(t) == pc[t] = "undo" /\ UnlockFails(t, cands[t])

Reconcile(t) ==
    \/ Snapshot(t) \/ ReadFails(t) \/ EnsureLocks(t) \/ EnsureFails(t)
    \/ Unlock(t) \/ UnlockApplyFails(t) \/ Recheck(t) \/ RecheckGivesUp(t)
    \/ UndoLocks(t) \/ UndoFails(t)

\* A caller enters the reconciliation.
Enter(t) ==
    /\ Goto(t, "snap")
    /\ tries' = [tries EXCEPT ![t] = 0]
    /\ UNCHANGED <<release, cands>>
----------------------------------------------------------------------------
(* The foreground operations                                               *)

Foreground == pc["foreground"] = "idle"

\* create_run_with_staged_denominations_and_signed_children
CreateRun ==
    /\ Foreground /\ phase = "none"
    /\ phase' = "active" /\ prepared' = Prepared /\ unsent' = StageInput
    /\ job' = "create" /\ Enter("foreground")
    /\ UNCHANGED <<idempotent, sent, wallet, faults, owed>>

\* create_or_resume_private_migration_draft: a run without notes.
CreateDraft ==
    /\ Foreground /\ phase = "none"
    /\ phase' = "draft"
    /\ UNCHANGED <<idempotent, prepared, unsent, sent, wallet, thread, faults, owed>>

\* finalize_private_migration_draft
FinalizeDraft ==
    /\ Foreground /\ phase = "draft"
    /\ phase' = "active" /\ prepared' = Prepared /\ unsent' = StageInput
    /\ job' = "other" /\ Enter("foreground")
    /\ UNCHANGED <<idempotent, sent, wallet, faults, owed>>

\* cleanup_failed_created_run, its unlock ...
CleanupUnlocks ==
    /\ pc["foreground"] = "cleanup"
    /\ locks' = locks \ (Prepared \cup StageInput)
    /\ Goto("foreground", "delete")
    /\ UNCHANGED <<table, spendable, hasTarget, job, release, cands, tries, faults, owed>>

\* ... which may fail: the run is kept for a later reconciliation ...
CleanupFails ==
    /\ pc["foreground"] = "cleanup"
    /\ faults < MaxFaults /\ faults' = faults + 1 /\ owed' = TRUE
    /\ \E s \in SUBSET Note : locks' = locks \ s
    /\ Goto("foreground", "idle")
    /\ UNCHANGED <<table, spendable, hasTarget, job, release, cands, tries>>

\* ... and the deletion of the run's row, which may fail as well.
DeleteRun ==
    /\ pc["foreground"] = "delete"
    /\ phase' \in {"deleted", phase}
    /\ Goto("foreground", "idle")
    /\ UNCHANGED <<idempotent, prepared, unsent, sent, wallet, job, release, cands, tries, faults,
                   owed>>

\* retire_run_for_rebuild.  The message may be a server's "already accepted".
RetireRun ==
    /\ Foreground /\ phase = "active"
    /\ phase' = "failed_terminal" /\ idempotent' \in BOOLEAN
    /\ job' = "other" /\ Enter("foreground")
    /\ UNCHANGED <<prepared, unsent, sent, wallet, faults, owed>>

\* abandon_run, also when it is repeated on a stopped run.
AbandonRun ==
    /\ Foreground /\ phase \in {"draft", "active", "abandoned"}
    /\ phase' = "abandoned"
    /\ job' = "abandon" /\ Enter("foreground")
    /\ UNCHANGED <<idempotent, prepared, unsent, sent, wallet, faults, owed>>

\* discard_unsubmitted_preparation_stages
DiscardStages ==
    /\ pc["foreground"] = "discard"
    /\ unsent' = {}
    /\ Goto("foreground", "idle")
    /\ UNCHANGED <<phase, idempotent, prepared, sent, wallet, job, release, cands, tries, faults,
                   owed>>

\* advance_staged_denomination_run: a stage is broadcast, and locks are
\* reconciled for outputs the scan has discovered.
AdvanceStage ==
    /\ Foreground /\ phase = "active"
    /\ \E s \in SUBSET unsent : unsent' = unsent \ s /\ sent' = sent \cup s
    /\ job' = "other" /\ Enter("foreground")
    /\ UNCHANGED <<phase, idempotent, prepared, wallet, faults, owed>>

\* reconcile_run_confirmations inside a broadcast pass completes the run; the
\* pass does not reconcile locks.
CompleteInForeground ==
    /\ Foreground /\ phase = "active" /\ Candidates \cap spendable = {}
    /\ phase' = "complete" /\ owed' = TRUE
    /\ UNCHANGED <<idempotent, prepared, unsent, sent, wallet, thread, faults>>

\* reschedule_wallet_overdue_pending_txs, under another account's guard, sets
\* the phase of whatever run has, or had, overdue rows, a retired or stopped
\* one too, and does not reconcile locks.
ReviveRun ==
    /\ phase \in {"failed_terminal", "abandoned"}
    /\ phase' = "active" /\ owed' = TRUE
    /\ UNCHANGED <<idempotent, prepared, unsent, sent, wallet, thread, faults>>
----------------------------------------------------------------------------
(* The end of a scan: reconcile_wallet_locks_after_sync                    *)

\* The scan changes what is spendable; blocks may have been rewound.  The
\* sync that ends it makes up for earlier failures, except those of a run
\* that was deleted: nothing names its locks any more.
ScanBlocks ==
    /\ pc["sync"] = "idle"
    /\ spendable' \in SUBSET Note /\ hasTarget' = TRUE
    /\ owed' = (owed /\ (pc["foreground"] # "idle" \/ phase = "deleted"))
    /\ Goto("sync", "scanned")
    /\ UNCHANGED <<table, locks, job, release, cands, tries, faults>>

\* The scan queue is drained: reconcile_wallet_locks_after_sync begins.
FinishScan ==
    /\ pc["sync"] = "scanned"
    /\ Goto("sync", "recover")
    /\ UNCHANGED <<table, wallet, job, release, cands, tries, faults, owed>>

\* recover_latest_idempotent_broadcast_failure
RecoverIdempotent ==
    /\ pc["sync"] = "recover"
    /\ IF phase = "failed_terminal" /\ idempotent
       THEN phase' = "active" /\ idempotent' = FALSE
       ELSE UNCHANGED <<phase, idempotent>>
    /\ Goto("sync", "confirm")
    /\ UNCHANGED <<prepared, unsent, sent, wallet, job, release, cands, tries, faults, owed>>

\* reconcile_run_confirmations, then the reconciliation of every run's locks.
ConfirmAfterSync ==
    /\ pc["sync"] = "confirm"
    /\ \/ UNCHANGED phase
       \/ phase = "active" /\ Candidates \cap spendable = {} /\ phase' = "complete"
    /\ Enter("sync")
    /\ UNCHANGED <<idempotent, prepared, unsent, sent, wallet, job, faults, owed>>

\* The process is killed and started again.
Crash ==
    /\ faults < MaxFaults /\ faults' = faults + 1
    /\ owed' = TRUE
    /\ pc' = [t \in Thread |-> "idle"] /\ job' = "none"
    /\ release' = [t \in Thread |-> FALSE] /\ cands' = [t \in Thread |-> {}]
    /\ tries' = [t \in Thread |-> 0]
    /\ UNCHANGED <<table, wallet>>

ForegroundStep ==
    \/ CreateRun \/ CreateDraft \/ FinalizeDraft \/ RetireRun \/ AbandonRun
    \/ AdvanceStage \/ CompleteInForeground \/ ReviveRun
    \/ CleanupUnlocks \/ CleanupFails \/ DeleteRun \/ DiscardStages

SyncStep == ScanBlocks \/ FinishScan \/ RecoverIdempotent \/ ConfirmAfterSync

Next == ForegroundStep \/ SyncStep \/ (\E t \in Thread : Reconcile(t)) \/ Crash

\* A thread that has begun goes on, and the wallet keeps synchronizing.
Fairness ==
    /\ WF_vars(SyncStep)
    /\ \A t \in Thread : WF_vars(Reconcile(t))
    /\ WF_vars(CleanupUnlocks \/ DeleteRun \/ DiscardStages)

Spec == Init /\ [][Next]_vars

FairSpec == Spec /\ Fairness
----------------------------------------------------------------------------
Idle == \A t \in Thread : pc[t] = "idle"

\* Once nothing is under way and every phase change has been followed by its
\* reconciliation, the locks are those the phase calls for: a run that is
\* over keeps none of the spendable notes it lists from other sends, and a
\* live run holds every one of them.  It has to hold whichever of two crossing
\* reconciliations wrote its locks last.
LocksFollowPhase ==
    Idle /\ ~owed =>
        /\ phase \in Terminal => locks \cap Candidates \cap spendable = {}
        /\ phase = "active" /\ hasTarget => Candidates \cap spendable \subseteq locks

\* Wallet locks have no expiry (they are taken until u32::MAX): if a run is
\* over for good, its prepared notes are given back for good, whatever failed
\* or was killed on the way.
PreparedNotesComeBack ==
    <>[](phase \in Terminal) => <>[](locks \cap prepared = {})

\* The locks are those the phase calls for.
LocksRight ==
    IF PhaseReleasesLocks(phase) THEN locks \cap Candidates \cap spendable = {}
    ELSE hasTarget => Candidates \cap spendable \subseteq locks

\* A thread that will put them right, or find out that it put them wrong.
Fixing(t) ==
    \/ pc[t] \in {"scanned", "recover", "confirm", "snap"}
    \/ pc[t] = "apply" /\ (Stable(release[t], PhaseReleasesLocks(phase)) => Candidates \subseteq cands[t])
    \/ pc[t] = "recheck" /\ ~Stable(release[t], PhaseReleasesLocks(phase))

\* Unless something is owed, locks that are not those the phase calls for
\* have a thread on its way to them, the one that wrote them if no other.
FixUnderWay ==
    ~owed /\ phase \notin NoRow => LocksRight \/ \E t \in Thread : Fixing(t)

\* Locks are undone only for a run that is gone, and a run is cleaned up only
\* after a reconciliation failed.
UndoneForAReason ==
    /\ \A t \in Thread : pc[t] \in {"apply", "recheck", "undo"} => phase # "none"
    /\ \A t \in Thread : pc[t] = "undo" => phase = "deleted"
    /\ pc["foreground"] \in {"cleanup", "delete"} => owed

NoNotesYet == phase \in {"none", "draft"} => Candidates = {}

\* The inductive invariant behind LocksFollowPhase.
LockInv == TypeOK /\ NoNotesYet /\ UndoneForAReason /\ FixUnderWay

\* The same of every note, stage inputs included, once a stop has finished:
\* "the loser immediately applies the newer state", and stage inputs are kept
\* "until generic wallet locks have been released".
StoppedRunHoldsNoLock ==
    Idle /\ ~owed /\ phase = "abandoned" => locks = {}
============================================================================
