------------------------ MODULE MigrationLocksProofs ------------------------
(***************************************************************************)
(* The wallet locks follow the phase of the run, for any notes, any number *)
(* of rounds and any number of failures and crashes.                       *)
(*                                                                         *)
(* The argument of the code is that of two crossing reconciliations "the   *)
(* loser immediately applies the newer state".  LockInv says it step by    *)
(* step: whoever makes the locks wrong is itself on its way back, because  *)
(* the disposition it applied is not the one it will read.                 *)
(***************************************************************************)
EXTENDS MigrationLocks, TLAPS

\* A thread moves on.
LEMMA GotoOK ==
    ASSUME TypeOK, NEW t \in Thread, NEW step \in Steps, Goto(t, step)
    PROVE  /\ pc' \in [Thread -> Steps] /\ pc'[t] = step
           /\ \A u \in Thread : u # t => pc'[u] = pc[u]
BY DEF Goto, TypeOK

\* A thread is done with its reconciliation.
LEMMA DoneOK ==
    ASSUME TypeOK, NEW t \in Thread, Done(t)
    PROVE  /\ pc' \in [Thread -> Steps] /\ pc'[t] \in {"idle", "discard"}
           /\ \A u \in Thread : u # t => pc'[u] = pc[u]
<1> DEFINE step == IF t = "foreground" /\ job = "abandon" THEN "discard" ELSE "idle"
<1>1. step \in Steps /\ step \in {"idle", "discard"} /\ Goto(t, step)
  BY DEF Done, Steps
<1> HIDE DEF step
<1> QED
  BY <1>1, GotoOK

\* A caller enters the reconciliation.
LEMMA EnterOK ==
    ASSUME TypeOK, NEW t \in Thread, Enter(t)
    PROVE  /\ pc' \in [Thread -> Steps] /\ pc'[t] = "snap" /\ tries' \in [Thread -> 0 .. MaxTries]
           /\ UNCHANGED <<release, cands>> /\ Fixing(t)'
           /\ \A u \in Thread : u # t => pc'[u] = pc[u]
<1>1. pc' \in [Thread -> Steps] /\ pc'[t] = "snap" /\ \A u \in Thread : u # t => pc'[u] = pc[u]
  BY GotoOK DEF Enter, Steps
<1>2. tries' \in [Thread -> 0 .. MaxTries]
  BY LockConstants DEF Enter, TypeOK
<1> QED
  BY <1>1, <1>2 DEF Enter, Fixing

\* One thread moves on within the same phase.
LEMMA ThreadStep ==
    ASSUME LockInv, TypeOK', NEW t \in Thread, UNCHANGED phase, Candidates' \subseteq Candidates,
           \A u \in Thread : u # t => pc'[u] = pc[u],
           pc'[t] \in {"apply", "recheck", "undo"} => phase # "none",
           pc'[t] = "undo" => phase = "deleted",
           pc'[t] \in {"cleanup", "delete"} => owed',
           owed => owed',
           FixUnderWay'
    PROVE  LockInv'
<1>1. NoNotesYet'
  BY DEF LockInv, NoNotesYet
<1>2. \A u \in Thread : pc'[u] \in {"apply", "recheck", "undo"} => phase' # "none"
  BY DEF LockInv, UndoneForAReason
<1>3. \A u \in Thread : pc'[u] = "undo" => phase' = "deleted"
  BY DEF LockInv, UndoneForAReason
<1>4. pc'["foreground"] \in {"cleanup", "delete"} => owed'
  <2>1. CASE t = "foreground"
    BY <2>1
  <2>2. CASE t # "foreground"
    BY <2>2 DEF Thread, LockInv, UndoneForAReason
  <2> QED
    BY <2>1, <2>2
<1> QED
  BY <1>1, <1>2, <1>3, <1>4 DEF LockInv, UndoneForAReason

\* What a call that failed leaves: something is owed, and no reconciliation
\* goes on.
LEMMA ReturnsOK ==
    ASSUME LockInv, NEW t \in Thread, Returns(t), locks' \subseteq locks,
           UNCHANGED <<spendable, hasTarget>>, faults' \in 0 .. MaxFaults
    PROVE  LockInv'
<1> DEFINE step == IF t = "foreground" /\ job = "create" THEN "cleanup" ELSE "idle"
<1>1. owed' /\ UNCHANGED <<phase, idempotent, prepared, unsent, sent, job, release, cands, tries>>
  BY DEF Returns, table
<1>2. step \in Steps /\ step \in {"idle", "cleanup"} /\ Goto(t, step)
  BY DEF Returns, Steps
<1>3. /\ pc' \in [Thread -> Steps] /\ pc'[t] \in {"idle", "cleanup"}
      /\ \A u \in Thread : u # t => pc'[u] = pc[u]
  <2> HIDE DEF step
  <2> QED
    BY <1>2, GotoOK DEF LockInv
<1>4. TypeOK'
  BY <1>1, <1>3 DEF LockInv, TypeOK, Returns
<1>5. FixUnderWay' /\ Candidates' = Candidates
  BY <1>1 DEF FixUnderWay, Candidates
<1> QED
  BY <1>1, <1>3, <1>4, <1>5, ThreadStep

\* The same when the failure is counted.
LEMMA FailsOK ==
    ASSUME LockInv, NEW t \in Thread, Fails(t), locks' \subseteq locks,
           UNCHANGED <<spendable, hasTarget>>
    PROVE  LockInv'
<1>1. faults' \in 0 .. MaxFaults
  BY LockConstants DEF Fails, LockInv, TypeOK
<1> QED
  BY <1>1, ReturnsOK DEF Fails

\* A step that touches neither the phase, the notes nor the snapshots keeps
\* every thread that it does not move on its way.
LEMMA StillFixing ==
    ASSUME NEW u \in Thread, Fixing(u), pc'[u] = pc[u],
           UNCHANGED <<phase, prepared, unsent, sent>>, release'[u] = release[u],
           cands'[u] = cands[u]
    PROVE  Fixing(u)'
BY DEF Fixing, Candidates

----------------------------------------------------------------------------
(* The steps of a reconciliation                                           *)

\* The snapshot: what is applied next is what the phase calls for.
LEMMA SnapshotKeeps == ASSUME LockInv, NEW t \in Thread, Snapshot(t) PROVE LockInv'
<1>1. /\ pc[t] = "snap"
      /\ UNCHANGED <<phase, idempotent, prepared, unsent, sent, spendable, hasTarget, locks, job,
                     tries, faults, owed>>
  BY DEF Snapshot, table, wallet
<1>2. CASE phase \in NoRow
  <2>1. Done(t) /\ UNCHANGED <<release, cands>>
    BY <1>2 DEF Snapshot
  <2>2. /\ pc' \in [Thread -> Steps] /\ pc'[t] \in {"idle", "discard"}
        /\ \A u \in Thread : u # t => pc'[u] = pc[u]
    BY <2>1, DoneOK DEF LockInv
  <2>3. TypeOK'
    BY <1>1, <2>1, <2>2 DEF LockInv, TypeOK
  <2>4. FixUnderWay' /\ Candidates' = Candidates
    BY <1>1, <1>2 DEF FixUnderWay, Candidates
  <2> QED
    BY <1>1, <2>2, <2>3, <2>4, ThreadStep
<1>3. CASE phase \notin NoRow
  <2>1. /\ Goto(t, "apply")
        /\ release' = [release EXCEPT ![t] = PhaseReleasesLocks(phase)]
        /\ cands' = [cands EXCEPT ![t] = Candidates]
    BY <1>3 DEF Snapshot
  <2>2. /\ pc' \in [Thread -> Steps] /\ pc'[t] = "apply"
        /\ \A u \in Thread : u # t => pc'[u] = pc[u]
    BY <2>1, GotoOK DEF LockInv, Steps
  <2>3. Candidates \in SUBSET Note /\ PhaseReleasesLocks(phase) \in BOOLEAN
    BY DEF LockInv, TypeOK, Candidates, PhaseReleasesLocks
  <2>4. TypeOK'
    BY <1>1, <2>1, <2>2, <2>3 DEF LockInv, TypeOK
  <2>5. Fixing(t)'
    <3>1. cands'[t] = Candidates /\ Candidates' = Candidates
      BY <1>1, <2>1 DEF LockInv, TypeOK, Candidates
    <3> QED
      BY <2>2, <3>1 DEF Fixing
  <2>6. FixUnderWay' /\ Candidates' = Candidates /\ phase # "none"
    BY <1>1, <1>3, <2>5 DEF FixUnderWay, Candidates, NoRow
  <2> QED
    BY <1>1, <2>2, <2>4, <2>6, ThreadStep
<1> QED
  BY <1>2, <1>3

\* The locks are written, as the snapshot asked.  If that is what the phase
\* calls for they are right now or were before; if it is not, the thread
\* itself is to find out.
LEMMA ApplyKeeps ==
    ASSUME LockInv, NEW t \in Thread, pc[t] = "apply", Goto(t, "recheck"),
           locks' = IF release[t] THEN locks \ cands[t]
                    ELSE IF hasTarget THEN locks \cup (cands[t] \cap spendable) ELSE locks,
           UNCHANGED <<table, spendable, hasTarget, job, release, cands, tries, faults, owed>>
    PROVE  LockInv'
<1>1. UNCHANGED <<phase, idempotent, prepared, unsent, sent>>
  BY DEF table
<1>2. /\ pc' \in [Thread -> Steps] /\ pc'[t] = "recheck"
      /\ \A u \in Thread : u # t => pc'[u] = pc[u]
  BY GotoOK DEF LockInv, Steps
<1>3. locks' \subseteq Note
  BY DEF LockInv, TypeOK
<1>4. TypeOK'
  BY <1>1, <1>2, <1>3 DEF LockInv, TypeOK
<1>5. ASSUME ~owed, phase \notin NoRow PROVE LocksRight' \/ \E u \in Thread : Fixing(u)'
  <2>1. PhaseReleasesLocks(phase)' = PhaseReleasesLocks(phase) /\ Candidates' = Candidates
    BY <1>1 DEF PhaseReleasesLocks, Candidates
  <2>2. CASE release[t] # PhaseReleasesLocks(phase)
    BY <1>2, <2>1, <2>2 DEF Fixing, Stable
  <2>3. CASE release[t] = PhaseReleasesLocks(phase) /\ Candidates \subseteq cands[t]
    BY <2>1, <2>3 DEF LocksRight
  <2>4. CASE release[t] = PhaseReleasesLocks(phase) /\ ~(Candidates \subseteq cands[t])
    <3>1. CASE LocksRight
      BY <2>1, <2>4, <3>1 DEF LocksRight
    <3>2. CASE \E u \in Thread : Fixing(u)
      <4>1. PICK u \in Thread : Fixing(u)
        BY <3>2
      <4>2. u # t
        BY <2>4, <4>1 DEF Fixing, Stable
      <4> QED
        BY <1>1, <1>2, <4>1, <4>2, StillFixing
    <3> QED
      BY <1>5, <3>1, <3>2 DEF LockInv, FixUnderWay
  <2> QED
    BY <2>2, <2>3, <2>4
<1>6. FixUnderWay' /\ Candidates' = Candidates /\ phase # "none"
  BY <1>1, <1>5 DEF FixUnderWay, Candidates, LockInv, UndoneForAReason
<1> QED
  BY <1>1, <1>2, <1>4, <1>6, ThreadStep

\* The second look.
LEMMA RecheckKeeps == ASSUME LockInv, NEW t \in Thread, Recheck(t) PROVE LockInv'
<1>1. /\ pc[t] = "recheck"
      /\ UNCHANGED <<phase, idempotent, prepared, unsent, sent, spendable, hasTarget, locks, job,
                     release, cands, faults, owed>>
  BY DEF Recheck, table, wallet
<1>2. Candidates' = Candidates /\ PhaseReleasesLocks(phase)' = PhaseReleasesLocks(phase)
      /\ (LocksRight => LocksRight')
  BY <1>1 DEF Candidates, PhaseReleasesLocks, LocksRight
<1>3. CASE phase \in NoRow /\ Goto(t, "undo") /\ UNCHANGED tries
  <2>1. /\ pc' \in [Thread -> Steps] /\ pc'[t] = "undo"
        /\ \A u \in Thread : u # t => pc'[u] = pc[u]
    BY <1>3, GotoOK DEF LockInv, Steps
  <2>2. phase = "deleted"
    BY <1>1, <1>3 DEF LockInv, UndoneForAReason, NoRow
  <2>3. TypeOK'
    BY <1>1, <1>3, <2>1 DEF LockInv, TypeOK
  <2>4. FixUnderWay'
    BY <1>1, <1>3 DEF FixUnderWay
  <2> QED
    BY <1>1, <1>2, <2>1, <2>2, <2>3, <2>4, ThreadStep
<1>4. CASE /\ phase \notin NoRow /\ Stable(release[t], PhaseReleasesLocks(phase))
           /\ Done(t) /\ UNCHANGED tries
  <2>1. /\ pc' \in [Thread -> Steps] /\ pc'[t] \in {"idle", "discard"}
        /\ \A u \in Thread : u # t => pc'[u] = pc[u]
    BY <1>4, DoneOK DEF LockInv
  <2>2. TypeOK'
    BY <1>1, <1>4, <2>1 DEF LockInv, TypeOK
  <2>3. ~Fixing(t)
    BY <1>1, <1>4 DEF Fixing
  <2>4. \A u \in Thread : Fixing(u) => Fixing(u)'
    BY <1>1, <2>1, <2>3, StillFixing
  <2>5. FixUnderWay'
    BY <1>1, <1>2, <2>4 DEF LockInv, FixUnderWay
  <2> QED
    BY <1>1, <1>2, <2>1, <2>2, <2>5, ThreadStep
<1>5. CASE /\ phase \notin NoRow /\ tries[t] + 1 < MaxTries
           /\ tries' = [tries EXCEPT ![t] = @ + 1] /\ Goto(t, "snap")
  <2>1. /\ pc' \in [Thread -> Steps] /\ pc'[t] = "snap"
        /\ \A u \in Thread : u # t => pc'[u] = pc[u]
    BY <1>5, GotoOK DEF LockInv, Steps
  <2>2. tries' \in [Thread -> 0 .. MaxTries]
    BY <1>5, LockConstants DEF LockInv, TypeOK
  <2>3. TypeOK'
    BY <1>1, <2>1, <2>2 DEF LockInv, TypeOK
  <2>4. Fixing(t)'
    BY <2>1 DEF Fixing
  <2>5. FixUnderWay'
    BY <2>4 DEF FixUnderWay
  <2> QED
    BY <1>1, <1>2, <2>1, <2>3, <2>5, ThreadStep
<1> QED
  BY <1>3, <1>4, <1>5 DEF Recheck

\* The undo of a reconciliation whose run is gone.
LEMMA UndoKeeps == ASSUME LockInv, NEW t \in Thread, UndoLocks(t) PROVE LockInv'
<1>1. /\ pc[t] = "undo" /\ locks' \subseteq locks /\ Done(t)
      /\ UNCHANGED <<phase, idempotent, prepared, unsent, sent, spendable, hasTarget, job,
                     release, cands, tries, faults, owed>>
  BY DEF UndoLocks, table
<1>2. /\ pc' \in [Thread -> Steps] /\ pc'[t] \in {"idle", "discard"}
      /\ \A u \in Thread : u # t => pc'[u] = pc[u]
  BY <1>1, DoneOK DEF LockInv
<1>3. TypeOK'
  BY <1>1, <1>2 DEF LockInv, TypeOK
<1>4. phase = "deleted" /\ Candidates' = Candidates
  BY <1>1 DEF LockInv, UndoneForAReason, Candidates
<1>5. FixUnderWay'
  BY <1>1, <1>4 DEF FixUnderWay, NoRow
<1> QED
  BY <1>1, <1>2, <1>3, <1>4, <1>5, ThreadStep

\* Every step of a reconciliation.
LEMMA ReconcileKeeps == ASSUME LockInv, NEW t \in Thread, Reconcile(t) PROVE LockInv'
<1>1. CASE ReadFails(t) \/ EnsureFails(t)
  BY <1>1, FailsOK DEF ReadFails, EnsureFails, wallet
<1>2. CASE UnlockApplyFails(t) \/ UndoFails(t)
  BY <1>2, FailsOK DEF UnlockApplyFails, UndoFails, UnlockFails
<1>3. CASE EnsureLocks(t)
  BY <1>3, ApplyKeeps DEF EnsureLocks
<1>4. CASE Unlock(t)
  BY <1>4, ApplyKeeps DEF Unlock
<1>5. CASE RecheckGivesUp(t)
  BY <1>5, ReturnsOK DEF RecheckGivesUp, wallet, LockInv, TypeOK
<1> QED
  BY <1>1, <1>2, <1>3, <1>4, <1>5, SnapshotKeeps, RecheckKeeps, UndoKeeps DEF Reconcile

----------------------------------------------------------------------------
(* The callers                                                             *)

\* A thread is about to take a snapshot: it answers for whatever changed.
LEMMA FixStep ==
    ASSUME LockInv, TypeOK', NEW t \in Thread,
           pc'[t] \in {"scanned", "recover", "confirm", "snap"},
           \A u \in Thread : u # t => pc'[u] = pc[u],
           phase' \in {"none", "draft"} => phase' = phase /\ Candidates' = Candidates,
           phase = "deleted" => phase' = phase,
           pc'["foreground"] \in {"cleanup", "delete"} => (owed => owed')
    PROVE  LockInv'
<1>1. NoNotesYet'
  BY DEF LockInv, NoNotesYet
<1>2. Fixing(t)'
  BY DEF Fixing
<1>3. FixUnderWay'
  BY <1>2 DEF FixUnderWay
<1>4. \A u \in Thread : pc'[u] \in {"apply", "recheck", "undo"} => phase' # "none"
  BY DEF LockInv, UndoneForAReason
<1>5. \A u \in Thread : pc'[u] = "undo" => phase' = "deleted"
  BY DEF LockInv, UndoneForAReason
<1>6. pc'["foreground"] \in {"cleanup", "delete"} => owed'
  BY DEF Thread, LockInv, UndoneForAReason
<1> QED
  BY <1>1, <1>3, <1>4, <1>5, <1>6 DEF LockInv, UndoneForAReason

\* The phase changes and nobody reconciles: something is owed.
LEMMA OwedStep ==
    ASSUME LockInv, TypeOK', owed', UNCHANGED pc, phase' \notin {"none", "draft"},
           phase # "deleted"
    PROVE  LockInv'
<1>1. NoNotesYet' /\ FixUnderWay'
  BY DEF NoNotesYet, FixUnderWay
<1>2. UndoneForAReason'
  BY DEF LockInv, UndoneForAReason
<1> QED
  BY <1>1, <1>2 DEF LockInv

\* A foreground operation that changes the run and then reconciles.
LEMMA OperationKeeps ==
    ASSUME LockInv, CreateRun \/ FinalizeDraft \/ RetireRun \/ AbandonRun \/ AdvanceStage
    PROVE  LockInv'
<1>1. /\ Enter("foreground") /\ phase' \in {"active", "failed_terminal", "abandoned"}
      /\ phase # "deleted" /\ job' \in {"create", "abandon", "other"}
      /\ UNCHANGED <<spendable, hasTarget, locks, faults, owed>>
  BY DEF CreateRun, FinalizeDraft, RetireRun, AbandonRun, AdvanceStage, wallet
<1>2. idempotent' \in BOOLEAN /\ prepared' \subseteq Note /\ unsent' \subseteq Note /\ sent' \subseteq Note
  BY DEF CreateRun, FinalizeDraft, RetireRun, AbandonRun, AdvanceStage, LockInv, TypeOK, Note
<1>3. "foreground" \in Thread
  BY DEF Thread
<1>4. /\ pc' \in [Thread -> Steps] /\ pc'["foreground"] = "snap"
      /\ tries' \in [Thread -> 0 .. MaxTries] /\ UNCHANGED <<release, cands>>
      /\ \A u \in Thread : u # "foreground" => pc'[u] = pc[u]
  BY <1>1, <1>3, EnterOK DEF LockInv
<1>5. TypeOK'
  BY <1>1, <1>2, <1>4 DEF LockInv, TypeOK, Phases, Terminal
<1> QED
  BY <1>1, <1>3, <1>4, <1>5, FixStep

\* A draft has no notes.
LEMMA CreateDraftKeeps == ASSUME LockInv, CreateDraft PROVE LockInv'
<1>1. /\ phase = "none" /\ phase' = "draft"
      /\ UNCHANGED <<idempotent, prepared, unsent, sent, spendable, hasTarget, locks, pc, job,
                     release, cands, tries, faults, owed>>
  BY DEF CreateDraft, wallet, thread
<1>2. Candidates = {} /\ Candidates' = {}
  BY <1>1 DEF LockInv, NoNotesYet, Candidates
<1>3. TypeOK'
  BY <1>1 DEF LockInv, TypeOK, Phases
<1>4. LocksRight'
  BY <1>2 DEF LocksRight
<1>5. UndoneForAReason'
  BY <1>1 DEF LockInv, UndoneForAReason
<1> QED
  BY <1>2, <1>3, <1>4, <1>5 DEF LockInv, NoNotesYet, FixUnderWay

\* The phase changes of a broadcast pass and of another account's redraw.
LEMMA PhaseChangeKeeps ==
    ASSUME LockInv, CompleteInForeground \/ ReviveRun
    PROVE  LockInv'
<1>1. /\ phase' \in {"complete", "active"} /\ phase # "deleted" /\ owed' = TRUE
      /\ UNCHANGED <<idempotent, prepared, unsent, sent, spendable, hasTarget, locks, pc, job,
                     release, cands, tries, faults>>
  BY DEF CompleteInForeground, ReviveRun, wallet, thread
<1>2. TypeOK'
  BY <1>1 DEF LockInv, TypeOK, Phases, Terminal
<1> QED
  BY <1>1, <1>2, OwedStep

\* A failed creation is cleaned up.
LEMMA CleanupKeeps == ASSUME LockInv, CleanupUnlocks \/ CleanupFails PROVE LockInv'
<1>1. /\ pc["foreground"] = "cleanup" /\ locks' \subseteq locks /\ faults' \in 0 .. MaxFaults
      /\ UNCHANGED <<phase, idempotent, prepared, unsent, sent, spendable, hasTarget, job, release,
                     cands, tries>>
  BY LockConstants DEF CleanupUnlocks, CleanupFails, table, LockInv, TypeOK
<1>2. owed /\ owed'
  BY <1>1 DEF LockInv, UndoneForAReason, CleanupUnlocks, CleanupFails
<1>3. PICK step \in {"delete", "idle"} : Goto("foreground", step)
  BY DEF CleanupUnlocks, CleanupFails
<1>4. "foreground" \in Thread /\ step \in Steps
  BY DEF Thread, Steps
<1>5. /\ pc' \in [Thread -> Steps] /\ pc'["foreground"] = step
      /\ \A u \in Thread : u # "foreground" => pc'[u] = pc[u]
  BY <1>3, <1>4, GotoOK DEF LockInv
<1>6. owed' \in BOOLEAN
  BY DEF CleanupUnlocks, CleanupFails, LockInv, TypeOK
<1>7. TypeOK'
  BY <1>1, <1>5, <1>6 DEF LockInv, TypeOK
<1>8. FixUnderWay' /\ Candidates' = Candidates
  BY <1>1, <1>2 DEF FixUnderWay, Candidates
<1> QED
  BY <1>1, <1>2, <1>3, <1>4, <1>5, <1>7, <1>8, ThreadStep

\* Its row is deleted, or not.
LEMMA DeleteKeeps == ASSUME LockInv, DeleteRun PROVE LockInv'
<1>1. /\ pc["foreground"] = "delete" /\ phase' \in {"deleted", phase} /\ Goto("foreground", "idle")
      /\ UNCHANGED <<idempotent, prepared, unsent, sent, spendable, hasTarget, locks, job, release,
                     cands, tries, faults, owed>>
  BY DEF DeleteRun, wallet
<1>2. owed
  BY <1>1 DEF LockInv, UndoneForAReason
<1>3. "foreground" \in Thread /\ "idle" \in Steps
  BY DEF Thread, Steps
<1>4. /\ pc' \in [Thread -> Steps] /\ pc'["foreground"] = "idle"
      /\ \A u \in Thread : u # "foreground" => pc'[u] = pc[u]
  BY <1>1, <1>3, GotoOK DEF LockInv
<1>5. TypeOK'
  BY <1>1, <1>4 DEF LockInv, TypeOK, Phases, NoRow
<1>6. FixUnderWay' /\ Candidates' = Candidates
  BY <1>1, <1>2 DEF FixUnderWay, Candidates
<1>7. CASE phase' = phase
  BY <1>1, <1>3, <1>4, <1>5, <1>6, <1>7, ThreadStep
<1>8. CASE phase' = "deleted"
  <2>1. NoNotesYet' /\ UndoneForAReason'
    BY <1>4, <1>8 DEF NoNotesYet, UndoneForAReason
  <2> QED
    BY <1>5, <1>6, <2>1 DEF LockInv
<1> QED
  BY <1>1, <1>7, <1>8

\* The stages of a stopped run are deleted: there are fewer candidates.
LEMMA DiscardKeeps == ASSUME LockInv, DiscardStages PROVE LockInv'
<1>1. /\ pc["foreground"] = "discard" /\ unsent' = {} /\ Goto("foreground", "idle")
      /\ UNCHANGED <<phase, idempotent, prepared, sent, spendable, hasTarget, locks, job, release,
                     cands, tries, faults, owed>>
  BY DEF DiscardStages, wallet
<1>2. "foreground" \in Thread /\ "idle" \in Steps
  BY DEF Thread, Steps
<1>3. /\ pc' \in [Thread -> Steps] /\ pc'["foreground"] = "idle"
      /\ \A u \in Thread : u # "foreground" => pc'[u] = pc[u]
  BY <1>1, <1>2, GotoOK DEF LockInv
<1>4. TypeOK'
  BY <1>1, <1>3 DEF LockInv, TypeOK
<1>5. Candidates' \subseteq Candidates /\ PhaseReleasesLocks(phase)' = PhaseReleasesLocks(phase)
  BY <1>1 DEF Candidates, PhaseReleasesLocks
<1>6. LocksRight => LocksRight'
  BY <1>1, <1>5 DEF LocksRight
<1>7. ASSUME NEW u \in Thread, Fixing(u) PROVE Fixing(u)'
  <2>1. u # "foreground"
    BY <1>1, <1>7 DEF Fixing
  <2> QED
    BY <1>1, <1>3, <1>5, <1>7, <2>1 DEF Fixing
<1>8. FixUnderWay'
  BY <1>1, <1>6, <1>7 DEF LockInv, FixUnderWay
<1> QED
  BY <1>1, <1>2, <1>3, <1>4, <1>5, <1>8, ThreadStep

\* The steps at the end of a scan.
LEMMA SyncKeeps == ASSUME LockInv, SyncStep PROVE LockInv'
<1>1. "sync" \in Thread /\ "sync" # "foreground" /\ "foreground" \in Thread
      /\ {"scanned", "recover", "confirm", "snap"} \subseteq Steps
  BY DEF Thread, Steps
<1>2. CASE ScanBlocks
  <2>1. /\ Goto("sync", "scanned") /\ spendable' \subseteq Note /\ hasTarget' = TRUE
        /\ owed' = (owed /\ (pc["foreground"] # "idle" \/ phase = "deleted"))
        /\ UNCHANGED <<phase, idempotent, prepared, unsent, sent, locks, job, release, cands, tries,
                       faults>>
    BY <1>2 DEF ScanBlocks, table
  <2>2. /\ pc' \in [Thread -> Steps] /\ pc'["sync"] = "scanned"
        /\ \A u \in Thread : u # "sync" => pc'[u] = pc[u]
    BY <1>1, <2>1, GotoOK DEF LockInv
  <2>3. owed' \in BOOLEAN
    BY <2>1
  <2>4. TypeOK'
    BY <2>1, <2>2, <2>3 DEF LockInv, TypeOK
  <2>5. pc'["foreground"] \in {"cleanup", "delete"} => (owed => owed')
    BY <1>1, <2>1, <2>2
  <2>6. Candidates' = Candidates
    BY <2>1 DEF Candidates
  <2> QED
    BY <1>1, <2>1, <2>2, <2>4, <2>5, <2>6, FixStep
<1>3. CASE FinishScan \/ RecoverIdempotent
  <2>1. PICK step \in {"recover", "confirm"} : Goto("sync", step)
    BY <1>3 DEF FinishScan, RecoverIdempotent
  <2>2. /\ phase' = phase \/ (phase = "failed_terminal" /\ phase' = "active")
        /\ idempotent' \in BOOLEAN
        /\ UNCHANGED <<prepared, unsent, sent, spendable, hasTarget, locks, job, release, cands,
                       tries, faults, owed>>
    BY <1>3 DEF FinishScan, RecoverIdempotent, table, wallet, LockInv, TypeOK
  <2>3. /\ pc' \in [Thread -> Steps] /\ pc'["sync"] = step
        /\ \A u \in Thread : u # "sync" => pc'[u] = pc[u]
    BY <1>1, <2>1, GotoOK DEF LockInv
  <2>4. TypeOK'
    BY <2>2, <2>3 DEF LockInv, TypeOK, Phases
  <2>5. Candidates' = Candidates
    BY <2>2 DEF Candidates
  <2> QED
    BY <1>1, <2>1, <2>2, <2>3, <2>4, <2>5, FixStep
<1>4. CASE ConfirmAfterSync
  <2>1. /\ phase' = phase \/ (phase = "active" /\ phase' = "complete")
        /\ UNCHANGED <<idempotent, prepared, unsent, sent, spendable, hasTarget, locks, job, faults,
                       owed>>
    BY <1>4 DEF ConfirmAfterSync, wallet
  <2>2. /\ pc' \in [Thread -> Steps] /\ pc'["sync"] = "snap" /\ tries' \in [Thread -> 0 .. MaxTries]
        /\ UNCHANGED <<release, cands>> /\ \A u \in Thread : u # "sync" => pc'[u] = pc[u]
    BY <1>1, <1>4, EnterOK DEF LockInv, ConfirmAfterSync
  <2>3. TypeOK'
    BY <2>1, <2>2 DEF LockInv, TypeOK, Phases, Terminal
  <2>4. Candidates' = Candidates
    BY <2>1 DEF Candidates
  <2> QED
    BY <1>1, <2>1, <2>2, <2>3, <2>4, FixStep
<1> QED
  BY <1>2, <1>3, <1>4 DEF SyncStep

\* The process is killed.
LEMMA CrashKeeps == ASSUME LockInv, Crash PROVE LockInv'
<1>1. /\ owed' = TRUE /\ pc' = [t \in Thread |-> "idle"] /\ job' = "none"
      /\ release' = [t \in Thread |-> FALSE] /\ cands' = [t \in Thread |-> {}]
      /\ tries' = [t \in Thread |-> 0]
      /\ UNCHANGED <<phase, idempotent, prepared, unsent, sent, spendable, hasTarget, locks>>
  BY DEF Crash, table, wallet
<1>2. faults' \in 0 .. MaxFaults /\ 0 \in 0 .. MaxTries
  BY LockConstants DEF Crash, LockInv, TypeOK
<1>3. TypeOK'
  BY <1>1, <1>2 DEF LockInv, TypeOK, Steps
<1>4. UndoneForAReason'
  BY <1>1 DEF UndoneForAReason
<1>5. NoNotesYet' /\ FixUnderWay'
  BY <1>1 DEF LockInv, NoNotesYet, FixUnderWay, Candidates
<1> QED
  BY <1>3, <1>4, <1>5 DEF LockInv

----------------------------------------------------------------------------
(* The specification                                                       *)

\* It holds initially.
LEMMA InitInv == Init => LockInv
<1> SUFFICES ASSUME Init PROVE LockInv
  OBVIOUS
<1>1. 0 \in 0 .. MaxTries /\ 0 \in 0 .. MaxFaults
  BY LockConstants
<1>2. TypeOK
  BY <1>1 DEF Init, TypeOK, Steps, Phases, NoRow
<1>3. NoNotesYet /\ FixUnderWay
  BY DEF Init, NoNotesYet, FixUnderWay, Candidates, NoRow
<1>4. UndoneForAReason
  BY DEF Init, UndoneForAReason, Thread
<1> QED
  BY <1>2, <1>3, <1>4 DEF LockInv

\* Every step keeps it.
LEMMA StepInv == LockInv /\ [Next]_vars => LockInv'
<1> SUFFICES ASSUME LockInv, [Next]_vars PROVE LockInv'
  OBVIOUS
<1>1. CASE ForegroundStep
  BY <1>1, OperationKeeps, CreateDraftKeeps, PhaseChangeKeeps, CleanupKeeps, DeleteKeeps,
     DiscardKeeps DEF ForegroundStep
<1>2. CASE \E t \in Thread : Reconcile(t)
  BY <1>2, ReconcileKeeps
<1>3. CASE UNCHANGED vars
  BY <1>3 DEF vars, LockInv, TypeOK, NoNotesYet, UndoneForAReason, FixUnderWay, LocksRight, Fixing,
     Candidates, PhaseReleasesLocks
<1> QED
  BY <1>1, <1>2, <1>3, SyncKeeps, CrashKeeps DEF Next

\* The invariant of the locks: whenever they are not what the phase calls for,
\* a reconciliation that will see it is under way, or a failure is on record.
THEOREM LockInvariant == Spec => []LockInv
BY InitInv, StepInv, PTL DEF Spec

\* Every thread, note set and counter stays in its type: the rounds of a
\* reconciliation stay within the eight of the code.
THEOREM LockTyping == Spec => []TypeOK
<1>1. LockInv => TypeOK
  BY DEF LockInv
<1> QED
  BY <1>1, LockInvariant, PTL

\* Whichever of the crossing reconciliations of reconcile_wallet_locks_for_run_inner
\* wrote last, the locks are those of the phase once both are done.
THEOREM LocksAlwaysFollowPhase == Spec => []LocksFollowPhase
<1>1. LockInv => LocksFollowPhase
  <2> SUFFICES ASSUME LockInv, Idle, ~owed PROVE
        /\ phase \in Terminal => locks \cap Candidates \cap spendable = {}
        /\ phase = "active" /\ hasTarget => Candidates \cap spendable \subseteq locks
    BY DEF LocksFollowPhase
  <2>1. \A t \in Thread : ~Fixing(t)
    BY DEF Idle, Fixing
  <2>2. phase \notin NoRow => LocksRight
    BY <2>1 DEF LockInv, FixUnderWay
  <2> QED
    BY <2>2 DEF LocksRight, PhaseReleasesLocks, NoRow, Terminal
<1> QED
  BY <1>1, LockInvariant, PTL
============================================================================
