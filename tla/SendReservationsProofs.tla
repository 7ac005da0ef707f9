---------------------- MODULE SendReservationsProofs ----------------------
(* The safety theorems of SendReservations, for every set of proposals and *)
(* notes, every lock window and every bound: ReservationInv is inductive,  *)
(* and the properties follow from it.  First what the sections do to locks *)
(* and rows, then one lemma per part of the invariant with one step per    *)
(* action, the invariants, the refinement of SpendOnce, and what a step    *)
(* may never do.                                                           *)
EXTENDS SendReservationsTyping

\* What mark_retain_until_expiry, checkpoint_owner and release_operation write.
LEMMA RowUpdates ==
    ASSUME NEW r \in Row
    PROVE  /\ RetainedRow(r).old = r.old /\ RetainedRow(r).expiry = r.expiry
           /\ RetainedRow(r).retain /\ IsDurable(RetainedRow(r))
           /\ SignedRow(r).old = r.old /\ SignedRow(r).expiry = r.expiry
           /\ SignedRow(r).retain /\ IsDurable(SignedRow(r))
           /\ ReleasedRow(r).old = r.old /\ ReleasedRow(r).expiry = r.expiry
           /\ ReleasedRow(r) = r \/ ReleasedRow(r).phase = "release"
           /\ ReleasedRow(r).phase = "none" <=> r.phase = "none"
BY DEF Row, Phases, RetainedRow, SignedRow, ReleasedRow, IsDurable

\* A release, complete or torn, clears locks of its own proposal only; once the
\* row is gone, none of the proposal's inputs is locked by it.
Releases(p) ==
    /\ \A n \in Note : lock'[n] = lock[n] \/ (lock[n].owner = p /\ lock'[n] = NoLock)
    /\ \A q \in Proposal : q # p => row'[q] = row[q] /\ (q \in locks' <=> q \in locks)
    /\ \/ row'[p] = row[p] /\ (p \in locks' <=> p \in locks)
       \/ /\ row'[p] = NoRow /\ p \notin locks'
          /\ \A n \in inputs[p] : lock'[n].owner # p

\* unlock_stored_proposal_locked releases, whether it completes or not.
LEMMA UnlockEffect ==
    ASSUME TypeInv, NEW p \in Proposal, UnlockCompletes(p) \/ UnlockTears(p)
    PROVE  Releases(p)
<1>1. CASE UnlockCompletes(p)
  <2>1. \A n \in inputs[p] : n \in Note
    BY DEF TypeInv, TypeOK
  <2>2. \A n \in inputs[p] : lock'[n].owner # p
    BY <1>1, <2>1, OwnersDiffer DEF UnlockCompletes, Unlocked, NoLock
  <2> QED
    BY <1>1, <2>2 DEF UnlockCompletes, Unlocked, TypeInv, TypeOK, Releases
<1>2. CASE UnlockTears(p)
  BY <1>2 DEF UnlockTears, Unlocked, TypeInv, TypeOK, Releases
<1> QED
  BY <1>1, <1>2

\* Leaving the reservation alone is a trivial release.
LEMMA NoUnlockEffect ==
    ASSUME NEW p \in Proposal, UNCHANGED <<lock, row, locks>>
    PROVE  Releases(p)
BY DEF Releases

\* A recovery pass, complete or torn, clears locks of left-behind reservations it
\* may release; a row it removes leaves no lock behind.
Recovers(c) ==
    /\ \A n \in Note : \/ lock'[n] = lock[n]
                       \/ lock[n].owner \in Recoverable(c) /\ lock'[n] = NoLock
    /\ \A q \in Proposal :
          \/ row'[q] = row[q]
          \/ /\ q \in Recoverable(c) /\ row'[q] = NoRow
             /\ \A n \in inputs[q] : lock'[n].owner # q

\* recover does that, whether it completes or not.
LEMMA RecoverEffect ==
    ASSUME TypeInv, NEW c \in BOOLEAN, Recover(c)
    PROVE  Recovers(c)
<1>1. CASE RecoverCompletes(c)
  <2>1. \A q \in Recoverable(c) : \A n \in inputs[q] : lock'[n].owner # q
    BY <1>1, OwnersDiffer
       DEF RecoverCompletes, Recoverable, Unlocked, NoLock, TypeInv, TypeOK
  <2>2. \A n \in Note : \/ lock'[n] = lock[n]
                        \/ lock[n].owner \in Recoverable(c) /\ lock'[n] = NoLock
    BY <1>1 DEF RecoverCompletes, Unlocked
  <2>3. \A q \in Proposal : IF q \in Recoverable(c) THEN row'[q] = NoRow ELSE row'[q] = row[q]
    BY <1>1 DEF RecoverCompletes
  <2> QED
    BY <2>1, <2>2, <2>3 DEF Recovers
<1>2. CASE RecoverTears(c)
  <2>1. \A n \in Note : \/ lock'[n] = lock[n]
                        \/ lock[n].owner \in Recoverable(c) /\ lock'[n] = NoLock
    BY <1>2 DEF RecoverTears, Unlocked
  <2> QED
    BY <1>2, <2>1 DEF RecoverTears, Recovers
<1> QED
  BY <1>1, <1>2 DEF Recover

\* A discard or a shutdown releases a reservation that is not durable, or leaves
\* it alone; the flow of the proposal goes on, or ends.
LEMMA DiscardEffect ==
    ASSUME TypeInv, NEW p \in Proposal, Discard(p)
    PROVE  /\ Releases(p)
           /\ IsDurable(row[p]) => UNCHANGED <<lock, row>>
           /\ \A q \in Proposal : q # p => pc'[q] = pc[q]
           /\ pc'[p] \in {pc[p], "idle"}
<1>1. UNCHANGED pc \/ pc' = [pc EXCEPT ![p] = "idle"]
  BY DEF Discard
<1>2. \/ UNCHANGED <<lock, row, locks>>
      \/ ~UnlockDeclined(p, FALSE) /\ (UnlockCompletes(p) \/ UnlockTears(p))
  BY DEF Discard
<1>3. pc \in [Proposal -> PCs]
  BY DEF TypeInv, TypeOK
<1>4. Releases(p)
  BY <1>2, UnlockEffect, NoUnlockEffect
<1>5. IsDurable(row[p]) => UNCHANGED <<lock, row>>
  BY <1>2 DEF UnlockDeclined
<1> QED
  BY <1>1, <1>3, <1>4, <1>5

\* The same for a shutdown...
LEMMA ShutdownEffect ==
    ASSUME TypeInv, NEW p \in Proposal, ShutdownRelease(p)
    PROVE  Releases(p) /\ ~IsDurable(row[p])
BY UnlockEffect DEF ShutdownRelease, UnlockDeclined

\* ... and for a failed flow, which releases durable reservations too.
LEMMA FailureEffect ==
    ASSUME TypeInv, NEW p \in Proposal, ReleaseAfterFailure(p)
    PROVE  Releases(p)
BY UnlockEffect, NoUnlockEffect DEF ReleaseAfterFailure

\* A recovery pass keeps every lock it leaves behind listed in a row.
LEMMA RecoverKeepsLocksListed ==
    ASSUME TypeInv, LocksAreRecoverable, NEW c \in BOOLEAN, Recover(c), UNCHANGED inputs
    PROVE  LocksAreRecoverable'
<1>1. Recovers(c)
  BY RecoverEffect
<1>2. NoLock.owner \notin Proposal
  BY OwnersDiffer DEF NoLock
<1> SUFFICES ASSUME NEW m \in Note, lock'[m].owner \in Proposal
             PROVE  row'[lock'[m].owner].phase # "none" /\ m \in inputs[lock'[m].owner]
  BY DEF LocksAreRecoverable
<1>3. lock'[m] = lock[m]
  BY <1>1, <1>2 DEF Recovers
<1>4. m \in inputs[lock[m].owner] /\ row[lock[m].owner].phase # "none"
  BY <1>3 DEF LocksAreRecoverable
<1> QED
  BY <1>1, <1>3, <1>4 DEF Recovers

\* A proposal whose inputs nobody else may take.
Protected(p) == InWindow(p) \/ ReadyToSend(p) \/ UnstoredClaim(p)

\* Its locks are its own, and they bind.
LEMMA ProtectedHolds ==
    ASSUME ReservationInv, NEW q \in Proposal, Protected(q)
    PROVE  \A n \in inputs[q] : n \in Note /\ lock[n].owner = q /\ LockActive(n)
<1>1. /\ inputs[q] \subseteq Note /\ tip \in Nat /\ wtip \in Nat /\ wtip <= tip
      /\ expiry[q] \in Nat /\ minTarget[q] \in Nat
  BY DEF ReservationInv, TypeInv, TypeOK
<1>2. q # NoOwner
  BY OwnersDiffer
<1>3. CASE InWindow(q)
  <2>1. HoldsWindow(q)
    BY <1>3 DEF ReservationInv, GoingHoldsInputs
  <2> QED
    BY <1>1, <1>2, <1>3, <2>1 DEF HoldsWindow, InWindow, LockActive
<1>4. CASE ReadyToSend(q) \/ UnstoredClaim(q)
  <2>1. HoldsInputs(q)
    BY <1>4 DEF ReservationInv, GoingHoldsInputs, ClaimHoldsInputs
  <2>2. tip + 1 < expiry[q]
    BY <1>4 DEF ReadyToSend, UnstoredClaim, Live
  <2> QED
    BY <1>1, <1>2, <2>1, <2>2 DEF HoldsInputs, LockActive, Target
<1> QED
  BY <1>3, <1>4 DEF Protected

\* lock_outputs, behind its own check of other owners' locks, takes no input of
\* a protected proposal.
LEMMA ProtectedIsNotTaken ==
    ASSUME ReservationInv, NEW p, NEW S, NEW e, LockOutputs(p, S, e),
           \A n \in S : lock[n].owner # p => ~LockActive(n),
           NEW q \in Proposal, q # p, Protected(q)
    PROVE  \A n \in inputs[q] : lock'[n] = lock[n]
<1>1. \A n \in inputs[q] : n \in Note /\ lock[n].owner = q /\ LockActive(n)
  BY ProtectedHolds
<1> QED
  BY <1>1 DEF LockOutputs

\* Recovery never selects a protected proposal: before the broadcast its row is
\* of this session, and afterwards it is retained up to the expiry.
LEMMA ProtectedIsNotRecoverable ==
    ASSUME ReservationInv, NEW q \in Proposal, Protected(q), NEW c \in BOOLEAN
    PROVE  q \notin Recoverable(c)
<1>1. CASE InWindow(q) \/ ReadyToSend(q)
  <2>1. Early(q) /\ q \in locks
    BY <1>1 DEF InWindow, ReadyToSend, Built, Going, MayProceed, Early
  <2>2. row[q].phase = "session" /\ ~row[q].old
    BY <2>1 DEF ReservationInv, RowMatchesStore
  <2> QED
    BY <2>2 DEF Recoverable, LeftBehind
<1>2. CASE UnstoredClaim(q)
  <2>1. IsDurable(row[q]) /\ row[q].expiry = expiry[q]
    BY <1>2 DEF ReservationInv, ClaimHoldsInputs
  <2>2. row[q].retain
    BY <2>1 DEF ReservationInv, RowMatchesStore
  <2>3. Target < row[q].expiry
    BY <1>2, <2>1 DEF UnstoredClaim, Live, Target, ReservationInv, TypeInv, TypeOK
  <2>4. Target \in Nat /\ row[q].expiry \in Nat
    BY DEF Target, ReservationInv, TypeInv, TypeOK, Row
  <2> QED
    BY <2>2, <2>3, <2>4 DEF Recoverable, ShouldRelease
<1> QED
  BY <1>1, <1>2 DEF Protected

\* So a recovery pass leaves a protected proposal its locks and its row.
LEMMA ProtectedIsSpared ==
    ASSUME ReservationInv, NEW q \in Proposal, Protected(q), NEW c \in BOOLEAN, Recover(c)
    PROVE  row'[q] = row[q] /\ \A n \in inputs[q] : lock'[n] = lock[n]
<1>1. q \notin Recoverable(c)
  BY ProtectedIsNotRecoverable
<1>2. \A n \in inputs[q] : n \in Note /\ lock[n].owner = q
  BY ProtectedHolds
<1>3. Recovers(c)
  BY RecoverEffect DEF ReservationInv
<1> QED
  BY <1>1, <1>2, <1>3 DEF Recovers

\* A step of somebody else: it leaves the proposal where it is, and its row and
\* its locks alone while it is protected.
Untouched(q) ==
    /\ pc'[q] = pc[q] /\ via'[q] = via[q] /\ net'[q] = net[q] /\ stored'[q] = stored[q]
    /\ outbox'[q] = outbox[q] /\ inputs'[q] = inputs[q] /\ minTarget'[q] = minTarget[q]
    /\ expiry'[q] = expiry[q] /\ (q \in locks' => q \in locks)
    /\ (q \in proposals' => q \in proposals) /\ UNCHANGED <<tip, wtip, shutting>>
    /\ Protected(q) => row'[q] = row[q] /\ \A n \in inputs[q] : lock'[n] = lock[n]

\* Such a step keeps what the proposal relies on.
LEMMA UntouchedKeepsGoing ==
    ASSUME ReservationInv, NEW q \in Proposal, Untouched(q)
    PROVE  (InWindow(q)' => HoldsWindow(q)') /\ (ReadyToSend(q)' => HoldsInputs(q)')
<1>1. (InWindow(q)' => InWindow(q)) /\ (ReadyToSend(q)' => ReadyToSend(q))
  BY DEF Untouched, InWindow, ReadyToSend, Going, MayProceed, Built, Early, Live, Target,
         SendProposalLockExpiry
<1>2. (InWindow(q) => HoldsWindow(q)) /\ (ReadyToSend(q) => HoldsInputs(q))
  BY DEF ReservationInv, GoingHoldsInputs
<1> QED
  BY <1>1, <1>2 DEF Untouched, Protected, HoldsWindow, HoldsInputs, SendProposalLockExpiry

\* The same for what a transaction that may be on the network relies on.
LEMMA UntouchedKeepsClaim ==
    ASSUME ReservationInv, NEW q \in Proposal, Untouched(q), UnstoredClaim(q)'
    PROVE  (HoldsInputs(q) /\ IsDurable(row[q]) /\ row[q].expiry = expiry[q])'
<1>1. UnstoredClaim(q)
  BY DEF Untouched, UnstoredClaim, Claims, Live
<1>2. HoldsInputs(q) /\ IsDurable(row[q]) /\ row[q].expiry = expiry[q]
  BY <1>1 DEF ReservationInv, ClaimHoldsInputs
<1> QED
  BY <1>1, <1>2 DEF Untouched, Protected, HoldsInputs, IsDurable

\* Proposing, building and failing to build are such steps for the others ...
LEMMA LockingTouchesOneProposal ==
    ASSUME ReservationInv, NEW p \in Proposal, Propose(p) \/ CreatePczts(p) \/ CreateFails(p),
           NEW q \in Proposal, q # p
    PROVE  Untouched(q)
<1>1. Protected(q) => \A n \in inputs[q] : lock'[n] = lock[n]
  <2>1. CASE UNCHANGED lock
    BY <2>1
  <2>2. CASE \E S \in SUBSET {n \in Note : Spendable(n)} : \E e : LockOutputs(p, S, e)
    BY <2>2, ProtectedIsNotTaken DEF Spendable
  <2>3. CASE CanLock(p) /\ LockOutputs(p, inputs[p], expiry[p])
    BY <2>3, ProtectedIsNotTaken DEF CanLock
  <2> QED
    BY <2>1, <2>2, <2>3 DEF Propose, CreatePczts, CreateFails, MayCreate
<1>2. row'[q] = row[q]
  BY DEF Propose, CreatePczts, CreateFails, ReservationInv, TypeInv, TypeOK
<1>3. /\ pc'[q] = pc[q] /\ inputs'[q] = inputs[q] /\ minTarget'[q] = minTarget[q]
      /\ (q \in locks' => q \in locks) /\ (q \in proposals' => q \in proposals)
  BY DEF Propose, CreatePczts, CreateFails, store, facts, ReservationInv, TypeInv, TypeOK
<1>4. UNCHANGED <<tip, wtip, shutting, via, net, stored, outbox, expiry>>
  BY DEF Propose, CreatePczts, CreateFails, chain
<1> QED
  BY <1>1, <1>2, <1>3, <1>4 DEF Untouched

\* ... and a recovery pass is one for everybody.
LEMMA RecoveryTouchesNobody ==
    ASSUME ReservationInv, NEW c \in BOOLEAN, Recover(c), NEW q \in Proposal,
           pc'[q] = pc[q],
           UNCHANGED <<chain, net, stored, outbox, store, shutting, via, facts, expiry>>
    PROVE  Untouched(q)
<1>1. Protected(q) => row'[q] = row[q] /\ \A n \in inputs[q] : lock'[n] = lock[n]
  BY ProtectedIsSpared
<1> QED
  BY <1>1 DEF Untouched, chain, store, facts

StoredLive(p) == stored[p] > 0 /\ Live(p)

\* A protected proposal shares no input with a stored live one.
LEMMA ProtectedIsDisjoint ==
    ASSUME ReservationInv, NEW p \in Proposal, Protected(p), NEW q \in Proposal, StoredLive(q)
    PROVE  inputs[p] \cap inputs[q] = {}
<1>1. \A n \in inputs[p] : LockActive(n)
  BY ProtectedHolds
<1>2. \A n \in inputs[q] : ~LockActive(n)
  BY DEF ReservationInv, StoredIsExclusive, StoredLive
<1> QED
  BY <1>1, <1>2

\* The critical section of a build runs inside the proposal's lock window.
LEMMA BuildsInWindow ==
    ASSUME ReservationInv, NEW p \in Proposal, pc[p] = "create", MayCreate(p)
    PROVE  InWindow(p)
<1>1. CASE via[p] = "software"
  BY <1>1, BoundsAreNat DEF MayCreate, InWindow, Going, SendProposalIsExpired, ReservationInv,
              TypeInv, TypeOK, Target, SendProposalLockExpiry
<1>2. CASE via[p] # "software"
  BY <1>2 DEF MayCreate, InWindow, Going, ReservationInv, CreatesInTime
<1> QED
  BY <1>1, <1>2

\* A recovery pass only clears locks, so stored transactions keep their notes.
LEMMA RecoverKeepsExclusive ==
    ASSUME ReservationInv, NEW c \in BOOLEAN, Recover(c),
           UNCHANGED <<chain, stored, facts, expiry>>
    PROVE  StoredIsExclusive'
<1>1. \A m \in Note : lock'[m] = lock[m] \/ lock'[m] = NoLock
  BY RecoverEffect DEF ReservationInv, Recovers
<1>2. \A m \in Note : ~LockActive(m) => ~LockActive(m)'
  BY <1>1 DEF LockActive, Target, NoLock, chain
<1>3. \A q \in Proposal : inputs[q] \subseteq Note
  BY DEF ReservationInv, TypeInv, TypeOK
<1> QED
  BY <1>2, <1>3 DEF ReservationInv, StoredIsExclusive, Live, chain, facts

----------------------------------------------------------------------------

\* Every step keeps the flows and the outbox in step.
LEMMA StepsMatchFlowStep ==
    ASSUME TypeInv, StepsMatchFlow, Next
    PROVE  StepsMatchFlow'
<1> USE DEF TypeInv, TypeOK, SentCountOK, Flows, StepsMatchFlow, chain, store, facts,
        attempt
<1>1. ASSUME NEW p \in Proposal, Propose(p) PROVE StepsMatchFlow'
  BY <1>1 DEF Propose
<1>2. ASSUME NEW p \in Proposal, Consume(p) PROVE StepsMatchFlow'
  BY <1>2 DEF Consume
<1>3. ASSUME NEW p \in Proposal, Discard(p) PROVE StepsMatchFlow'
  BY <1>3 DEF Discard
<1>4. ASSUME NEW p \in Proposal, ReleaseAfterFailure(p) PROVE StepsMatchFlow'
  BY <1>4 DEF ReleaseAfterFailure, EndFlow
<1>5. ASSUME NEW p \in Proposal, ReadLiveTip(p) PROVE StepsMatchFlow'
  BY <1>5 DEF ReadLiveTip
<1>6. ASSUME NEW p \in Proposal, CreateTransactions(p) PROVE StepsMatchFlow'
  BY <1>6 DEF CreateTransactions
<1>7. ASSUME NEW p \in Proposal, CreatePczts(p) PROVE StepsMatchFlow'
  BY <1>7 DEF CreatePczts
<1>8. ASSUME NEW p \in Proposal, CreateFails(p) PROVE StepsMatchFlow'
  BY <1>8 DEF CreateFails
<1>9. ASSUME NEW p \in Proposal, FinishStored(p) PROVE StepsMatchFlow'
  BY <1>9 DEF FinishStored, EndFlow
<1>10. ASSUME NEW p \in Proposal, SendCreated(p) PROVE StepsMatchFlow'
  BY <1>10 DEF SendCreated, EndFlow
<1>11. ASSUME NEW p \in Proposal, Resubmit(p) PROVE StepsMatchFlow'
  BY <1>11 DEF Resubmit
<1>12. ASSUME NEW p \in Proposal, StartBroadcast(p) PROVE StepsMatchFlow'
  BY <1>12 DEF StartBroadcast
<1>13. ASSUME NEW p \in Proposal, OpenRoute(p) PROVE StepsMatchFlow'
  BY <1>13 DEF OpenRoute
<1>14. ASSUME NEW p \in Proposal, MarkBroadcastStarted(p) PROVE StepsMatchFlow'
  BY <1>14 DEF MarkBroadcastStarted, EndFlow
<1>15. ASSUME NEW p \in Proposal, SendPczt(p) PROVE StepsMatchFlow'
  BY <1>15 DEF SendPczt
<1>16. ASSUME NEW p \in Proposal, StorePczts(p) PROVE StepsMatchFlow'
  BY <1>16 DEF StorePczts
<1>17. ASSUME NEW p \in Proposal, Retain(p) PROVE StepsMatchFlow'
  BY <1>17 DEF Retain, EndFlow
<1>18. ASSUME NEW p \in Proposal, Checkpoint(p) PROVE StepsMatchFlow'
  BY <1>18 DEF Checkpoint, EndFlow
<1>19. ASSUME NEW p \in Proposal, BroadcastOperation(p) PROVE StepsMatchFlow'
  BY <1>19 DEF BroadcastOperation
<1>20. ASSUME NEW p \in Proposal, RecordOutcome(p) PROVE StepsMatchFlow'
  BY <1>20 DEF RecordOutcome
<1>21. ASSUME NEW p \in Proposal, ReclaimAfterBroadcast(p) PROVE StepsMatchFlow'
  BY <1>21 DEF ReclaimAfterBroadcast, EndFlow
<1>22. ASSUME NEW p \in Proposal, Acknowledge(p) PROVE StepsMatchFlow'
  BY <1>22 DEF Acknowledge
<1>23. ASSUME NEW p \in Proposal, ShutdownRelease(p) PROVE StepsMatchFlow'
  BY <1>23 DEF ShutdownRelease
<1>24. ASSUME RecoverBeforeBalance PROVE StepsMatchFlow'
  BY <1>24 DEF RecoverBeforeBalance
<1>25. ASSUME RecoverPreviousProcess PROVE StepsMatchFlow'
  BY <1>25 DEF RecoverPreviousProcess
<1>26. ASSUME BeginShutdown PROVE StepsMatchFlow'
  BY <1>26 DEF BeginShutdown
<1>27. ASSUME Restart PROVE StepsMatchFlow'
  BY <1>27 DEF Restart
<1>28. ASSUME AdvanceTip PROVE StepsMatchFlow'
  BY <1>28 DEF AdvanceTip
<1>29. ASSUME SyncTip PROVE StepsMatchFlow'
  BY <1>29 DEF SyncTip
<1>30. ASSUME NEW n \in Note, MigrationLock(n) PROVE StepsMatchFlow'
  BY <1>30 DEF MigrationLock
<1>31. ASSUME NEW n \in Note, MigrationUnlock(n) PROVE StepsMatchFlow'
  BY <1>31 DEF MigrationUnlock
<1> QED
  BY <1>1, <1>2, <1>3, <1>4, <1>5, <1>6, <1>7, <1>8, <1>9, <1>10, <1>11, <1>12,
       <1>13, <1>14, <1>15, <1>16, <1>17, <1>18, <1>19, <1>20, <1>21, <1>22, <1>23,
       <1>24, <1>25, <1>26, <1>27, <1>28, <1>29, <1>30, <1>31
     DEF Next, Review, Build, Broadcast, Ledger

\* Every step keeps what a flow may assume about what was stored and sent.
LEMMA StepsMatchFactsStep ==
    ASSUME TypeInv, StepsMatchFlow, StepsMatchFacts, RowMatchesStore, Next
    PROVE  StepsMatchFacts'
<1> USE DEF TypeInv, TypeOK, SentCountOK, Flows, StepsMatchFlow, StepsMatchFacts,
        RowMatchesStore, Early, Row, chain, store, facts, attempt
<1>1. ASSUME NEW p \in Proposal, Propose(p) PROVE StepsMatchFacts'
  BY <1>1 DEF Propose
<1>2. ASSUME NEW p \in Proposal, Consume(p) PROVE StepsMatchFacts'
  BY <1>2 DEF Consume
<1>3. ASSUME NEW p \in Proposal, Discard(p) PROVE StepsMatchFacts'
  <2> HIDE DEF TypeInv
  <2>1. pc[p] # "none"
    BY <1>3 DEF Discard, TypeInv
  <2>2. /\ pc'[p] \in {pc[p], "idle"}
        /\ \A q \in Proposal : q # p => pc'[q] = pc[q]
    BY <1>3, DiscardEffect
  <2>3. \A q \in Proposal : q # p => row'[q] = row[q] /\ (q \in locks' <=> q \in locks)
    BY <1>3, DiscardEffect DEF Releases
  <2> QED
    BY <1>3, <2>1, <2>2, <2>3 DEF Discard, TypeInv
<1>4. ASSUME NEW p \in Proposal, ReleaseAfterFailure(p) PROVE StepsMatchFacts'
  BY <1>4 DEF ReleaseAfterFailure, UnlockDeclined, UnlockCompletes, UnlockTears, EndFlow
<1>5. ASSUME NEW p \in Proposal, ReadLiveTip(p) PROVE StepsMatchFacts'
  BY <1>5 DEF ReadLiveTip
<1>6. ASSUME NEW p \in Proposal, CreateTransactions(p) PROVE StepsMatchFacts'
  BY <1>6 DEF CreateTransactions, StoreTransactions
<1>7. ASSUME NEW p \in Proposal, CreatePczts(p) PROVE StepsMatchFacts'
  BY <1>7 DEF CreatePczts
<1>8. ASSUME NEW p \in Proposal, CreateFails(p) PROVE StepsMatchFacts'
  BY <1>8 DEF CreateFails
<1>9. ASSUME NEW p \in Proposal, FinishStored(p) PROVE StepsMatchFacts'
  BY <1>9 DEF FinishStored, EndFlow
<1>10. ASSUME NEW p \in Proposal, SendCreated(p) PROVE StepsMatchFacts'
  BY <1>10 DEF SendCreated, EndFlow, Reached
<1>11. ASSUME NEW p \in Proposal, Resubmit(p) PROVE StepsMatchFacts'
  BY <1>11 DEF Resubmit, Reached
<1>12. ASSUME NEW p \in Proposal, StartBroadcast(p) PROVE StepsMatchFacts'
  BY <1>12 DEF StartBroadcast
<1>13. ASSUME NEW p \in Proposal, OpenRoute(p) PROVE StepsMatchFacts'
  BY <1>13 DEF OpenRoute, RecentTips, BroadcastExpired
<1>14. ASSUME NEW p \in Proposal, MarkBroadcastStarted(p) PROVE StepsMatchFacts'
  BY <1>14 DEF MarkBroadcastStarted, EndFlow
<1>15. ASSUME NEW p \in Proposal, SendPczt(p) PROVE StepsMatchFacts'
  BY <1>15 DEF SendPczt, BroadcastStep, Answers, Reached
<1>16. ASSUME NEW p \in Proposal, StorePczts(p) PROVE StepsMatchFacts'
  BY <1>16 DEF StorePczts, StoreTransactions
<1>17. ASSUME NEW p \in Proposal, Retain(p) PROVE StepsMatchFacts'
  BY <1>17 DEF Retain, RetainUntilExpiry, EndFlow
<1>18. ASSUME NEW p \in Proposal, Checkpoint(p) PROVE StepsMatchFacts'
  BY <1>18 DEF Checkpoint, EndFlow
<1>19. ASSUME NEW p \in Proposal, BroadcastOperation(p) PROVE StepsMatchFacts'
  BY <1>19 DEF BroadcastOperation
<1>20. ASSUME NEW p \in Proposal, RecordOutcome(p) PROVE StepsMatchFacts'
  BY <1>20 DEF RecordOutcome
<1>21. ASSUME NEW p \in Proposal, ReclaimAfterBroadcast(p) PROVE StepsMatchFacts'
  BY <1>21 DEF ReclaimAfterBroadcast, EndFlow, Recover, RecoverCompletes,
       RecoverTears, Recoverable, LeftBehind, ShouldRelease, Unlocked, NoRow, NoLock
<1>22. ASSUME NEW p \in Proposal, Acknowledge(p) PROVE StepsMatchFacts'
  BY <1>22 DEF Acknowledge
<1>23. ASSUME NEW p \in Proposal, ShutdownRelease(p) PROVE StepsMatchFacts'
  <2> HIDE DEF TypeInv
  <2>1. \A q \in Proposal : q # p => row'[q] = row[q] /\ (q \in locks' <=> q \in locks)
    BY <1>23, ShutdownEffect DEF Releases
  <2>2. pc[p] # "none"
    BY <1>23 DEF ShutdownRelease, TypeInv
  <2> QED
    BY <1>23, <2>1, <2>2 DEF ShutdownRelease, TypeInv
<1>24. ASSUME RecoverBeforeBalance PROVE StepsMatchFacts'
  BY <1>24 DEF RecoverBeforeBalance, Recover, RecoverCompletes, RecoverTears,
       Recoverable, LeftBehind, ShouldRelease, Unlocked, NoRow, NoLock
<1>25. ASSUME RecoverPreviousProcess PROVE StepsMatchFacts'
  BY <1>25 DEF RecoverPreviousProcess, Recover, RecoverCompletes, RecoverTears,
       Recoverable, LeftBehind, ShouldRelease, Unlocked, NoRow, NoLock
<1>26. ASSUME BeginShutdown PROVE StepsMatchFacts'
  BY <1>26 DEF BeginShutdown
<1>27. ASSUME Restart PROVE StepsMatchFacts'
  BY <1>27 DEF Restart
<1>28. ASSUME AdvanceTip PROVE StepsMatchFacts'
  BY <1>28 DEF AdvanceTip
<1>29. ASSUME SyncTip PROVE StepsMatchFacts'
  BY <1>29 DEF SyncTip
<1>30. ASSUME NEW n \in Note, MigrationLock(n) PROVE StepsMatchFacts'
  BY <1>30 DEF MigrationLock
<1>31. ASSUME NEW n \in Note, MigrationUnlock(n) PROVE StepsMatchFacts'
  BY <1>31 DEF MigrationUnlock
<1> QED
  BY <1>1, <1>2, <1>3, <1>4, <1>5, <1>6, <1>7, <1>8, <1>9, <1>10, <1>11, <1>12,
       <1>13, <1>14, <1>15, <1>16, <1>17, <1>18, <1>19, <1>20, <1>21, <1>22, <1>23,
       <1>24, <1>25, <1>26, <1>27, <1>28, <1>29, <1>30, <1>31
     DEF Next, Review, Build, Broadcast, Ledger

\* Every step keeps the capability and the row of an early proposal together.
LEMMA RowMatchesStoreStep ==
    ASSUME TypeInv, StepsMatchFlow, StepsMatchFacts, RowMatchesStore, Next
    PROVE  RowMatchesStore'
<1> USE DEF TypeInv, TypeOK, SentCountOK, Flows, RowMatchesStore, StepsMatchFlow,
        StepsMatchFacts, Early, Built, IsDurable, Row, chain, store, facts, attempt
<1>1. ASSUME NEW p \in Proposal, Propose(p) PROVE RowMatchesStore'
  BY <1>1 DEF Propose, SessionRow
<1>2. ASSUME NEW p \in Proposal, Consume(p) PROVE RowMatchesStore'
  BY <1>2 DEF Consume
<1>3. ASSUME NEW p \in Proposal, Discard(p) PROVE RowMatchesStore'
  BY <1>3 DEF Discard, UnlockDeclined, UnlockCompletes, UnlockTears, NoRow
<1>4. ASSUME NEW p \in Proposal, ReleaseAfterFailure(p) PROVE RowMatchesStore'
  BY <1>4 DEF ReleaseAfterFailure, UnlockDeclined, UnlockCompletes, UnlockTears,
       EndFlow, NoRow
<1>5. ASSUME NEW p \in Proposal, ReadLiveTip(p) PROVE RowMatchesStore'
  BY <1>5 DEF ReadLiveTip
<1>6. ASSUME NEW p \in Proposal, CreateTransactions(p) PROVE RowMatchesStore'
  BY <1>6 DEF CreateTransactions
<1>7. ASSUME NEW p \in Proposal, CreatePczts(p) PROVE RowMatchesStore'
  BY <1>7 DEF CreatePczts
<1>8. ASSUME NEW p \in Proposal, CreateFails(p) PROVE RowMatchesStore'
  BY <1>8 DEF CreateFails
<1>9. ASSUME NEW p \in Proposal, FinishStored(p) PROVE RowMatchesStore'
  BY <1>9 DEF FinishStored, EndFlow, NoRow
<1>10. ASSUME NEW p \in Proposal, SendCreated(p) PROVE RowMatchesStore'
  BY <1>10 DEF SendCreated, EndFlow
<1>11. ASSUME NEW p \in Proposal, Resubmit(p) PROVE RowMatchesStore'
  BY <1>11 DEF Resubmit
<1>12. ASSUME NEW p \in Proposal, StartBroadcast(p) PROVE RowMatchesStore'
  BY <1>12 DEF StartBroadcast
<1>13. ASSUME NEW p \in Proposal, OpenRoute(p) PROVE RowMatchesStore'
  BY <1>13 DEF OpenRoute
<1>14. ASSUME NEW p \in Proposal, MarkBroadcastStarted(p) PROVE RowMatchesStore'
  <2>1. \A q \in Proposal : q # p => row'[q] = row[q] /\ pc'[q] = pc[q]
    BY <1>14 DEF MarkBroadcastStarted, EndFlow
  <2>2. pc'[p] \in {"send", "idle"} /\ (row'[p] = row[p] \/ row'[p] = RetainedRow(row[p]))
    BY <1>14 DEF MarkBroadcastStarted, EndFlow
  <2>3. row'[p].phase \in {"signed", "broadcast"} => row'[p].retain
    BY <2>2, RowUpdates
  <2> QED
    BY <1>14, <2>1, <2>2, <2>3 DEF MarkBroadcastStarted
<1>15. ASSUME NEW p \in Proposal, SendPczt(p) PROVE RowMatchesStore'
  BY <1>15 DEF SendPczt
<1>16. ASSUME NEW p \in Proposal, StorePczts(p) PROVE RowMatchesStore'
  BY <1>16 DEF StorePczts
<1>17. ASSUME NEW p \in Proposal, Retain(p) PROVE RowMatchesStore'
  <2>1. \A q \in Proposal : q # p => row'[q] = row[q] /\ pc'[q] = pc[q]
    BY <1>17 DEF Retain, RetainUntilExpiry, EndFlow
  <2>2. pc'[p] \in {"send", "idle"} /\ (row'[p] = row[p] \/ row'[p] = RetainedRow(row[p]))
    BY <1>17 DEF Retain, RetainUntilExpiry, EndFlow
  <2>3. row'[p].phase \in {"signed", "broadcast"} => row'[p].retain
    BY <2>2, RowUpdates
  <2> QED
    BY <1>17, <2>1, <2>2, <2>3 DEF Retain, RetainUntilExpiry
<1>18. ASSUME NEW p \in Proposal, Checkpoint(p) PROVE RowMatchesStore'
  <2>1. \A q \in Proposal : q # p => row'[q] = row[q] /\ pc'[q] = pc[q]
    BY <1>18 DEF Checkpoint, EndFlow
  <2>2. pc'[p] \in {"send", "idle"} /\ (row'[p] = row[p] \/ row'[p] = SignedRow(row[p]))
    BY <1>18 DEF Checkpoint, EndFlow
  <2>3. row'[p].phase \in {"signed", "broadcast"} => row'[p].retain
    BY <2>2, RowUpdates
  <2> QED
    BY <1>18, <2>1, <2>2, <2>3 DEF Checkpoint
<1>19. ASSUME NEW p \in Proposal, BroadcastOperation(p) PROVE RowMatchesStore'
  BY <1>19 DEF BroadcastOperation
<1>20. ASSUME NEW p \in Proposal, RecordOutcome(p) PROVE RowMatchesStore'
  <2>1. \A q \in Proposal : q # p => row'[q] = row[q] /\ pc'[q] = pc[q]
    BY <1>20 DEF RecordOutcome
  <2>2. pc'[p] \in {"reclaim"} /\ (row'[p] = row[p] \/ row'[p] = ReleasedRow(row[p]))
    BY <1>20 DEF RecordOutcome
  <2>3. row'[p].phase \in {"signed", "broadcast"} => row'[p].retain
    BY <2>2, RowUpdates
  <2> QED
    BY <1>20, <2>1, <2>2, <2>3 DEF RecordOutcome
<1>21. ASSUME NEW p \in Proposal, ReclaimAfterBroadcast(p) PROVE RowMatchesStore'
  BY <1>21 DEF ReclaimAfterBroadcast, EndFlow, Recover, RecoverCompletes,
       RecoverTears, Recoverable, LeftBehind, ShouldRelease, NoRow
<1>22. ASSUME NEW p \in Proposal, Acknowledge(p) PROVE RowMatchesStore'
  BY <1>22 DEF Acknowledge
<1>23. ASSUME NEW p \in Proposal, ShutdownRelease(p) PROVE RowMatchesStore'
  BY <1>23 DEF ShutdownRelease, UnlockCompletes, UnlockTears, NoRow
<1>24. ASSUME RecoverBeforeBalance PROVE RowMatchesStore'
  BY <1>24 DEF RecoverBeforeBalance, Recover, RecoverCompletes, RecoverTears,
       Recoverable, LeftBehind, ShouldRelease, NoRow
<1>25. ASSUME RecoverPreviousProcess PROVE RowMatchesStore'
  BY <1>25 DEF RecoverPreviousProcess, Recover, RecoverCompletes, RecoverTears,
       Recoverable, LeftBehind, ShouldRelease, NoRow
<1>26. ASSUME BeginShutdown PROVE RowMatchesStore'
  BY <1>26 DEF BeginShutdown
<1>27. ASSUME Restart PROVE RowMatchesStore'
  BY <1>27 DEF Restart
<1>28. ASSUME AdvanceTip PROVE RowMatchesStore'
  BY <1>28 DEF AdvanceTip
<1>29. ASSUME SyncTip PROVE RowMatchesStore'
  BY <1>29 DEF SyncTip
<1>30. ASSUME NEW n \in Note, MigrationLock(n) PROVE RowMatchesStore'
  BY <1>30 DEF MigrationLock
<1>31. ASSUME NEW n \in Note, MigrationUnlock(n) PROVE RowMatchesStore'
  BY <1>31 DEF MigrationUnlock
<1> QED
  BY <1>1, <1>2, <1>3, <1>4, <1>5, <1>6, <1>7, <1>8, <1>9, <1>10, <1>11, <1>12,
       <1>13, <1>14, <1>15, <1>16, <1>17, <1>18, <1>19, <1>20, <1>21, <1>22, <1>23,
       <1>24, <1>25, <1>26, <1>27, <1>28, <1>29, <1>30, <1>31
     DEF Next, Review, Build, Broadcast, Ledger

\* Every step keeps each lock of a proposal listed in a row.
LEMMA LocksAreRecoverableStep ==
    ASSUME TypeInv, StepsMatchFacts, RowMatchesStore, LocksAreRecoverable,
           FinishedHoldsNoLock, Next
    PROVE  LocksAreRecoverable'
<1> USE OwnersDiffer DEF TypeInv, TypeOK, StepsMatchFacts, LocksAreRecoverable,
        chain, store, facts, attempt
<1>1. ASSUME NEW p \in Proposal, Propose(p) PROVE LocksAreRecoverable'
  BY <1>1 DEF Propose, LockOutputs, SessionRow
<1>2. ASSUME NEW p \in Proposal, Consume(p) PROVE LocksAreRecoverable'
  BY <1>2 DEF Consume
<1>3. ASSUME NEW p \in Proposal, Discard(p) PROVE LocksAreRecoverable'
  <2> HIDE DEF TypeInv
  <2>1. /\ Releases(p) /\ pc'[p] \in {pc[p], "idle"}
        /\ \A q \in Proposal : q # p => pc'[q] = pc[q]
    BY <1>3, DiscardEffect
  <2> QED
    BY <1>3, <2>1 DEF Discard, Releases, NoLock
<1>4. ASSUME NEW p \in Proposal, ReleaseAfterFailure(p) PROVE LocksAreRecoverable'
  <2> HIDE DEF TypeInv
  <2>1. Releases(p)
    BY <1>4, FailureEffect
  <2> QED
    BY <1>4, <2>1 DEF ReleaseAfterFailure, Releases, EndFlow, NoLock, TypeInv
<1>5. ASSUME NEW p \in Proposal, ReadLiveTip(p) PROVE LocksAreRecoverable'
  BY <1>5 DEF ReadLiveTip
<1>6. ASSUME NEW p \in Proposal, CreateTransactions(p) PROVE LocksAreRecoverable'
  BY <1>6 DEF CreateTransactions, StoreTransactions, Unlocked, NoLock
<1>7. ASSUME NEW p \in Proposal, CreatePczts(p) PROVE LocksAreRecoverable'
  BY <1>7 DEF CreatePczts, LockOutputs
<1>8. ASSUME NEW p \in Proposal, CreateFails(p) PROVE LocksAreRecoverable'
  <2>1. MayProceed(p) => row[p].phase # "none"
    BY <1>8 DEF CreateFails, MayProceed, RowMatchesStore, Early
  <2>2. \A q \in Proposal : row'[q].phase = row[q].phase
    BY <1>8 DEF CreateFails, Row
  <2>3. \A m \in Note : \/ lock'[m] = lock[m]
                        \/ m \in inputs[p] /\ lock'[m].owner = p /\ MayProceed(p)
    BY <1>8 DEF CreateFails, MayCreate, LockOutputs
  <2> QED
    BY <1>8, <2>1, <2>2, <2>3 DEF CreateFails
<1>9. ASSUME NEW p \in Proposal, FinishStored(p) PROVE LocksAreRecoverable'
  BY <1>9 DEF FinishStored, EndFlow, NoRow, FinishedHoldsNoLock
<1>10. ASSUME NEW p \in Proposal, SendCreated(p) PROVE LocksAreRecoverable'
  BY <1>10 DEF SendCreated, EndFlow
<1>11. ASSUME NEW p \in Proposal, Resubmit(p) PROVE LocksAreRecoverable'
  BY <1>11 DEF Resubmit
<1>12. ASSUME NEW p \in Proposal, StartBroadcast(p) PROVE LocksAreRecoverable'
  BY <1>12 DEF StartBroadcast
<1>13. ASSUME NEW p \in Proposal, OpenRoute(p) PROVE LocksAreRecoverable'
  BY <1>13 DEF OpenRoute
<1>14. ASSUME NEW p \in Proposal, MarkBroadcastStarted(p) PROVE LocksAreRecoverable'
  <2>1. \A q \in Proposal : q # p => row'[q] = row[q] /\ pc'[q] = pc[q]
    BY <1>14 DEF MarkBroadcastStarted, EndFlow
  <2>2. pc'[p] \in {"send", "idle"} /\ (row'[p] = row[p] \/ row'[p] = RetainedRow(row[p]))
    BY <1>14 DEF MarkBroadcastStarted, EndFlow
  <2>3. row[p].phase # "none" => row'[p].phase # "none"
    BY <2>2, RowUpdates DEF IsDurable
  <2> QED
    BY <1>14, <2>1, <2>2, <2>3 DEF MarkBroadcastStarted
<1>15. ASSUME NEW p \in Proposal, SendPczt(p) PROVE LocksAreRecoverable'
  BY <1>15 DEF SendPczt
<1>16. ASSUME NEW p \in Proposal, StorePczts(p) PROVE LocksAreRecoverable'
  BY <1>16 DEF StorePczts, StoreTransactions, Unlocked, NoLock
<1>17. ASSUME NEW p \in Proposal, Retain(p) PROVE LocksAreRecoverable'
  <2>1. \A q \in Proposal : q # p => row'[q] = row[q] /\ pc'[q] = pc[q]
    BY <1>17 DEF Retain, RetainUntilExpiry, EndFlow
  <2>2. pc'[p] \in {"send", "idle"} /\ (row'[p] = row[p] \/ row'[p] = RetainedRow(row[p]))
    BY <1>17 DEF Retain, RetainUntilExpiry, EndFlow
  <2>3. row[p].phase # "none" => row'[p].phase # "none"
    BY <2>2, RowUpdates DEF IsDurable
  <2> QED
    BY <1>17, <2>1, <2>2, <2>3 DEF Retain, RetainUntilExpiry
<1>18. ASSUME NEW p \in Proposal, Checkpoint(p) PROVE LocksAreRecoverable'
  <2>1. \A q \in Proposal : q # p => row'[q] = row[q] /\ pc'[q] = pc[q]
    BY <1>18 DEF Checkpoint, EndFlow
  <2>2. pc'[p] \in {"send", "idle"} /\ (row'[p] = row[p] \/ row'[p] = SignedRow(row[p]))
    BY <1>18 DEF Checkpoint, EndFlow
  <2>3. row[p].phase # "none" => row'[p].phase # "none"
    BY <2>2, RowUpdates DEF IsDurable
  <2> QED
    BY <1>18, <2>1, <2>2, <2>3 DEF Checkpoint
<1>19. ASSUME NEW p \in Proposal, BroadcastOperation(p) PROVE LocksAreRecoverable'
  BY <1>19 DEF BroadcastOperation
<1>20. ASSUME NEW p \in Proposal, RecordOutcome(p) PROVE LocksAreRecoverable'
  <2>1. \A q \in Proposal : q # p => row'[q] = row[q] /\ pc'[q] = pc[q]
    BY <1>20 DEF RecordOutcome
  <2>2. pc'[p] \in {"reclaim"} /\ (row'[p] = row[p] \/ row'[p] = ReleasedRow(row[p]))
    BY <1>20 DEF RecordOutcome
  <2>3. row[p].phase # "none" => row'[p].phase # "none"
    BY <2>2, RowUpdates DEF IsDurable
  <2> QED
    BY <1>20, <2>1, <2>2, <2>3 DEF RecordOutcome
<1>21. ASSUME NEW p \in Proposal, ReclaimAfterBroadcast(p) PROVE LocksAreRecoverable'
  <2> HIDE DEF TypeInv, LocksAreRecoverable
  <2> QED
    BY <1>21, RecoverKeepsLocksListed DEF ReclaimAfterBroadcast
<1>22. ASSUME NEW p \in Proposal, Acknowledge(p) PROVE LocksAreRecoverable'
  BY <1>22 DEF Acknowledge
<1>23. ASSUME NEW p \in Proposal, ShutdownRelease(p) PROVE LocksAreRecoverable'
  <2> HIDE DEF TypeInv
  <2>1. Releases(p)
    BY <1>23, ShutdownEffect
  <2> QED
    BY <1>23, <2>1 DEF ShutdownRelease, Releases, NoLock
<1>24. ASSUME RecoverBeforeBalance PROVE LocksAreRecoverable'
  <2> HIDE DEF TypeInv, LocksAreRecoverable
  <2> QED
    BY <1>24, RecoverKeepsLocksListed DEF RecoverBeforeBalance
<1>25. ASSUME RecoverPreviousProcess PROVE LocksAreRecoverable'
  <2> HIDE DEF TypeInv, LocksAreRecoverable
  <2> QED
    BY <1>25, RecoverKeepsLocksListed DEF RecoverPreviousProcess
<1>26. ASSUME BeginShutdown PROVE LocksAreRecoverable'
  BY <1>26 DEF BeginShutdown
<1>27. ASSUME Restart PROVE LocksAreRecoverable'
  BY <1>27 DEF Restart
<1>28. ASSUME AdvanceTip PROVE LocksAreRecoverable'
  BY <1>28 DEF AdvanceTip
<1>29. ASSUME SyncTip PROVE LocksAreRecoverable'
  BY <1>29 DEF SyncTip
<1>30. ASSUME NEW n \in Note, MigrationLock(n) PROVE LocksAreRecoverable'
  BY <1>30 DEF MigrationLock, LockOutputs
<1>31. ASSUME NEW n \in Note, MigrationUnlock(n) PROVE LocksAreRecoverable'
  BY <1>31 DEF MigrationUnlock, Unlocked, NoLock
<1> QED
  BY <1>1, <1>2, <1>3, <1>4, <1>5, <1>6, <1>7, <1>8, <1>9, <1>10, <1>11, <1>12,
       <1>13, <1>14, <1>15, <1>16, <1>17, <1>18, <1>19, <1>20, <1>21, <1>22, <1>23,
       <1>24, <1>25, <1>26, <1>27, <1>28, <1>29, <1>30, <1>31
     DEF Next, Review, Build, Broadcast, Ledger

\* Storing the transactions leaves no lock of the proposal behind.
LEMMA FinishedHoldsNoLockStep ==
    ASSUME TypeInv, StepsMatchFlow, StepsMatchFacts, LocksAreRecoverable,
           FinishedHoldsNoLock, Next
    PROVE  FinishedHoldsNoLock'
<1> USE OwnersDiffer DEF TypeInv, TypeOK, FinishedHoldsNoLock, chain, store, facts,
        attempt
<1>1. ASSUME NEW p \in Proposal, Propose(p) PROVE FinishedHoldsNoLock'
  BY <1>1 DEF Propose, LockOutputs
<1>2. ASSUME NEW p \in Proposal, Consume(p) PROVE FinishedHoldsNoLock'
  BY <1>2 DEF Consume
<1>3. ASSUME NEW p \in Proposal, Discard(p) PROVE FinishedHoldsNoLock'
  BY <1>3 DEF Discard, UnlockDeclined, UnlockCompletes, UnlockTears, Unlocked, NoLock
<1>4. ASSUME NEW p \in Proposal, ReleaseAfterFailure(p) PROVE FinishedHoldsNoLock'
  BY <1>4 DEF ReleaseAfterFailure, UnlockDeclined, UnlockCompletes, UnlockTears,
       Unlocked, EndFlow, NoLock
<1>5. ASSUME NEW p \in Proposal, ReadLiveTip(p) PROVE FinishedHoldsNoLock'
  BY <1>5 DEF ReadLiveTip
<1>6. ASSUME NEW p \in Proposal, CreateTransactions(p) PROVE FinishedHoldsNoLock'
  <2>1. \A m \in Note : lock'[m].owner # p
    BY <1>6 DEF CreateTransactions, StoreTransactions, Unlocked, NoLock,
         LocksAreRecoverable
  <2>2. \A q \in Proposal : \A m \in Note : lock'[m].owner = q => lock[m].owner = q
    BY <1>6 DEF CreateTransactions, StoreTransactions, Unlocked, NoLock
  <2> QED
    BY <1>6, <2>1, <2>2 DEF CreateTransactions
<1>7. ASSUME NEW p \in Proposal, CreatePczts(p) PROVE FinishedHoldsNoLock'
  BY <1>7 DEF CreatePczts, LockOutputs
<1>8. ASSUME NEW p \in Proposal, CreateFails(p) PROVE FinishedHoldsNoLock'
  BY <1>8 DEF CreateFails, LockOutputs
<1>9. ASSUME NEW p \in Proposal, FinishStored(p) PROVE FinishedHoldsNoLock'
  BY <1>9 DEF FinishStored, EndFlow
<1>10. ASSUME NEW p \in Proposal, SendCreated(p) PROVE FinishedHoldsNoLock'
  BY <1>10 DEF SendCreated, EndFlow
<1>11. ASSUME NEW p \in Proposal, Resubmit(p) PROVE FinishedHoldsNoLock'
  BY <1>11 DEF Resubmit
<1>12. ASSUME NEW p \in Proposal, StartBroadcast(p) PROVE FinishedHoldsNoLock'
  BY <1>12 DEF StartBroadcast
<1>13. ASSUME NEW p \in Proposal, OpenRoute(p) PROVE FinishedHoldsNoLock'
  BY <1>13 DEF OpenRoute
<1>14. ASSUME NEW p \in Proposal, MarkBroadcastStarted(p) PROVE FinishedHoldsNoLock'
  BY <1>14 DEF MarkBroadcastStarted, EndFlow
<1>15. ASSUME NEW p \in Proposal, SendPczt(p) PROVE FinishedHoldsNoLock'
  BY <1>15 DEF SendPczt
<1>16. ASSUME NEW p \in Proposal, StorePczts(p) PROVE FinishedHoldsNoLock'
  <2>1. pc'[p] = "finish" => \A m \in Note : lock'[m].owner # p
    BY <1>16 DEF StorePczts, StoreTransactions, Unlocked, NoLock,
         LocksAreRecoverable, SentCountOK
  <2>2. \A q \in Proposal : \A m \in Note : lock'[m].owner = q => lock[m].owner = q
    BY <1>16 DEF StorePczts, StoreTransactions, Unlocked, NoLock
  <2> QED
    BY <1>16, <2>1, <2>2 DEF StorePczts
<1>17. ASSUME NEW p \in Proposal, Retain(p) PROVE FinishedHoldsNoLock'
  BY <1>17 DEF Retain, EndFlow
<1>18. ASSUME NEW p \in Proposal, Checkpoint(p) PROVE FinishedHoldsNoLock'
  BY <1>18 DEF Checkpoint, EndFlow
<1>19. ASSUME NEW p \in Proposal, BroadcastOperation(p) PROVE FinishedHoldsNoLock'
  BY <1>19 DEF BroadcastOperation
<1>20. ASSUME NEW p \in Proposal, RecordOutcome(p) PROVE FinishedHoldsNoLock'
  BY <1>20 DEF RecordOutcome
<1>21. ASSUME NEW p \in Proposal, ReclaimAfterBroadcast(p) PROVE FinishedHoldsNoLock'
  BY <1>21 DEF ReclaimAfterBroadcast, EndFlow, Recover, RecoverCompletes,
       RecoverTears, Recoverable, ShouldRelease, Unlocked, NoLock
<1>22. ASSUME NEW p \in Proposal, Acknowledge(p) PROVE FinishedHoldsNoLock'
  BY <1>22 DEF Acknowledge
<1>23. ASSUME NEW p \in Proposal, ShutdownRelease(p) PROVE FinishedHoldsNoLock'
  BY <1>23 DEF ShutdownRelease, UnlockCompletes, UnlockTears, Unlocked, NoLock
<1>24. ASSUME RecoverBeforeBalance PROVE FinishedHoldsNoLock'
  BY <1>24 DEF RecoverBeforeBalance, Recover, RecoverCompletes, RecoverTears,
       Recoverable, ShouldRelease, Unlocked, NoLock
<1>25. ASSUME RecoverPreviousProcess PROVE FinishedHoldsNoLock'
  BY <1>25 DEF RecoverPreviousProcess, Recover, RecoverCompletes, RecoverTears,
       Recoverable, ShouldRelease, Unlocked, NoLock
<1>26. ASSUME BeginShutdown PROVE FinishedHoldsNoLock'
  BY <1>26 DEF BeginShutdown
<1>27. ASSUME Restart PROVE FinishedHoldsNoLock'
  BY <1>27 DEF Restart
<1>28. ASSUME AdvanceTip PROVE FinishedHoldsNoLock'
  BY <1>28 DEF AdvanceTip
<1>29. ASSUME SyncTip PROVE FinishedHoldsNoLock'
  BY <1>29 DEF SyncTip
<1>30. ASSUME NEW n \in Note, MigrationLock(n) PROVE FinishedHoldsNoLock'
  BY <1>30 DEF MigrationLock, LockOutputs
<1>31. ASSUME NEW n \in Note, MigrationUnlock(n) PROVE FinishedHoldsNoLock'
  BY <1>31 DEF MigrationUnlock, Unlocked, NoLock
<1> QED
  BY <1>1, <1>2, <1>3, <1>4, <1>5, <1>6, <1>7, <1>8, <1>9, <1>10, <1>11, <1>12,
       <1>13, <1>14, <1>15, <1>16, <1>17, <1>18, <1>19, <1>20, <1>21, <1>22, <1>23,
       <1>24, <1>25, <1>26, <1>27, <1>28, <1>29, <1>30, <1>31
     DEF Next, Review, Build, Broadcast, Ledger

\* The hardware flows stay inside the lock window until they build.
LEMMA CreatesInTimeStep ==
    ASSUME TypeInv, CreatesInTime, Next
    PROVE  CreatesInTime'
<1> USE BoundsAreNat DEF TypeInv, TypeOK, SentCountOK, Flows, CreatesInTime, Target,
        SendProposalLockExpiry, chain, store, facts, attempt
<1>1. ASSUME NEW p \in Proposal, Propose(p) PROVE CreatesInTime'
  BY <1>1 DEF Propose
<1>2. ASSUME NEW p \in Proposal, Consume(p) PROVE CreatesInTime'
  BY <1>2 DEF Consume
<1>3. ASSUME NEW p \in Proposal, Discard(p) PROVE CreatesInTime'
  BY <1>3 DEF Discard
<1>4. ASSUME NEW p \in Proposal, ReleaseAfterFailure(p) PROVE CreatesInTime'
  BY <1>4 DEF ReleaseAfterFailure, EndFlow
<1>5. ASSUME NEW p \in Proposal, ReadLiveTip(p) PROVE CreatesInTime'
  BY <1>5 DEF ReadLiveTip, RecentTips, SendProposalIsExpired
<1>6. ASSUME NEW p \in Proposal, CreateTransactions(p) PROVE CreatesInTime'
  BY <1>6 DEF CreateTransactions
<1>7. ASSUME NEW p \in Proposal, CreatePczts(p) PROVE CreatesInTime'
  BY <1>7 DEF CreatePczts
<1>8. ASSUME NEW p \in Proposal, CreateFails(p) PROVE CreatesInTime'
  BY <1>8 DEF CreateFails
<1>9. ASSUME NEW p \in Proposal, FinishStored(p) PROVE CreatesInTime'
  BY <1>9 DEF FinishStored, EndFlow
<1>10. ASSUME NEW p \in Proposal, SendCreated(p) PROVE CreatesInTime'
  BY <1>10 DEF SendCreated, EndFlow
<1>11. ASSUME NEW p \in Proposal, Resubmit(p) PROVE CreatesInTime'
  BY <1>11 DEF Resubmit
<1>12. ASSUME NEW p \in Proposal, StartBroadcast(p) PROVE CreatesInTime'
  BY <1>12 DEF StartBroadcast
<1>13. ASSUME NEW p \in Proposal, OpenRoute(p) PROVE CreatesInTime'
  BY <1>13 DEF OpenRoute
<1>14. ASSUME NEW p \in Proposal, MarkBroadcastStarted(p) PROVE CreatesInTime'
  BY <1>14 DEF MarkBroadcastStarted, EndFlow
<1>15. ASSUME NEW p \in Proposal, SendPczt(p) PROVE CreatesInTime'
  BY <1>15 DEF SendPczt
<1>16. ASSUME NEW p \in Proposal, StorePczts(p) PROVE CreatesInTime'
  BY <1>16 DEF StorePczts
<1>17. ASSUME NEW p \in Proposal, Retain(p) PROVE CreatesInTime'
  BY <1>17 DEF Retain, EndFlow
<1>18. ASSUME NEW p \in Proposal, Checkpoint(p) PROVE CreatesInTime'
  BY <1>18 DEF Checkpoint, EndFlow
<1>19. ASSUME NEW p \in Proposal, BroadcastOperation(p) PROVE CreatesInTime'
  BY <1>19 DEF BroadcastOperation
<1>20. ASSUME NEW p \in Proposal, RecordOutcome(p) PROVE CreatesInTime'
  BY <1>20 DEF RecordOutcome
<1>21. ASSUME NEW p \in Proposal, ReclaimAfterBroadcast(p) PROVE CreatesInTime'
  BY <1>21 DEF ReclaimAfterBroadcast, EndFlow
<1>22. ASSUME NEW p \in Proposal, Acknowledge(p) PROVE CreatesInTime'
  BY <1>22 DEF Acknowledge
<1>23. ASSUME NEW p \in Proposal, ShutdownRelease(p) PROVE CreatesInTime'
  BY <1>23 DEF ShutdownRelease
<1>24. ASSUME RecoverBeforeBalance PROVE CreatesInTime'
  BY <1>24 DEF RecoverBeforeBalance
<1>25. ASSUME RecoverPreviousProcess PROVE CreatesInTime'
  BY <1>25 DEF RecoverPreviousProcess
<1>26. ASSUME BeginShutdown PROVE CreatesInTime'
  BY <1>26 DEF BeginShutdown
<1>27. ASSUME Restart PROVE CreatesInTime'
  BY <1>27 DEF Restart
<1>28. ASSUME AdvanceTip PROVE CreatesInTime'
  BY <1>28 DEF AdvanceTip
<1>29. ASSUME SyncTip PROVE CreatesInTime'
  BY <1>29 DEF SyncTip, GapIsShort, SendProposalIsExpired
<1>30. ASSUME NEW n \in Note, MigrationLock(n) PROVE CreatesInTime'
  BY <1>30 DEF MigrationLock
<1>31. ASSUME NEW n \in Note, MigrationUnlock(n) PROVE CreatesInTime'
  BY <1>31 DEF MigrationUnlock
<1> QED
  BY <1>1, <1>2, <1>3, <1>4, <1>5, <1>6, <1>7, <1>8, <1>9, <1>10, <1>11, <1>12,
       <1>13, <1>14, <1>15, <1>16, <1>17, <1>18, <1>19, <1>20, <1>21, <1>22, <1>23,
       <1>24, <1>25, <1>26, <1>27, <1>28, <1>29, <1>30, <1>31
     DEF Next, Review, Build, Broadcast, Ledger

\* Nothing takes the inputs of a proposal on its way.
LEMMA GoingHoldsInputsStep ==
    ASSUME ReservationInv, Next
    PROVE  GoingHoldsInputs'
<1>1. ASSUME NEW p \in Proposal, Propose(p) PROVE GoingHoldsInputs'
  <2>1. \A q \in Proposal : q # p => Untouched(q)
    BY <1>1, LockingTouchesOneProposal
  <2>2. (InWindow(p)' => HoldsWindow(p)') /\ ~ReadyToSend(p)'
    BY <1>1 DEF Propose, LockOutputs, SendProposalLockExpiry, ReservationInv,
         StepsMatchFacts,
                TypeInv, TypeOK, InWindow, ReadyToSend, HoldsWindow, Going, MayProceed, Built,
                Early, Target, chain
  <2> QED
    BY <2>1, <2>2, UntouchedKeepsGoing DEF GoingHoldsInputs
<1>2. ASSUME NEW p \in Proposal, ReadLiveTip(p) PROVE GoingHoldsInputs'
  <2>1. \A q \in Proposal : q # p => Untouched(q)
    BY <1>2 DEF ReadLiveTip, Untouched, chain, store, facts, ReservationInv, TypeInv,
         TypeOK
  <2>2. pc[p] = "tip" /\ pc'[p] \in {"create", "release"}
    BY <1>2 DEF ReadLiveTip, ReservationInv, TypeInv, TypeOK
  <2>3. UNCHANGED <<tip, wtip, lock, proposals, locks, shutting, inputs, minTarget>>
    BY <1>2 DEF ReadLiveTip, chain, store, facts
  <2>4. ~ReadyToSend(p)' /\ (InWindow(p)' => InWindow(p))
    BY <2>2, <2>3 DEF InWindow, ReadyToSend, Going, MayProceed, Built, Target,
         SendProposalLockExpiry
  <2>5. InWindow(p)' => HoldsWindow(p)'
    BY <2>3, <2>4 DEF ReservationInv, GoingHoldsInputs, HoldsWindow,
         SendProposalLockExpiry
  <2> QED
    BY <2>1, <2>4, <2>5, UntouchedKeepsGoing DEF GoingHoldsInputs
<1>3. ASSUME NEW p \in Proposal, CreatePczts(p) PROVE GoingHoldsInputs'
  <2>1. \A q \in Proposal : q # p => Untouched(q)
    BY <1>3, LockingTouchesOneProposal
  <2>2. ~InWindow(p)' /\ HoldsInputs(p)'
    BY <1>3 DEF CreatePczts, LockOutputs, ReservationInv, TypeInv, TypeOK, InWindow,
                HoldsInputs, facts
  <2> QED
    BY <2>1, <2>2, UntouchedKeepsGoing DEF GoingHoldsInputs
<1>4. ASSUME NEW p \in Proposal, CreateFails(p) PROVE GoingHoldsInputs'
  <2>1. \A q \in Proposal : q # p => Untouched(q)
    BY <1>4, LockingTouchesOneProposal
  <2>2. ~InWindow(p)' /\ ~ReadyToSend(p)'
    BY <1>4 DEF CreateFails, ReservationInv, TypeInv, TypeOK, InWindow, ReadyToSend,
         Built
  <2> QED
    BY <2>1, <2>2, UntouchedKeepsGoing DEF GoingHoldsInputs
<1>5. ASSUME NEW p \in Proposal, ReclaimAfterBroadcast(p) PROVE GoingHoldsInputs'
  <2>1. pc'[p] = "idle" /\ \A q \in Proposal : q # p => pc'[q] = pc[q]
    BY <1>5 DEF ReclaimAfterBroadcast, EndFlow, ReservationInv, TypeInv, TypeOK
  <2>2. \A q \in Proposal : q # p => Untouched(q)
    BY <1>5, <2>1, RecoveryTouchesNobody DEF ReclaimAfterBroadcast
  <2>3. ~InWindow(p)' /\ ~ReadyToSend(p)'
    BY <2>1 DEF InWindow, ReadyToSend, Built
  <2> QED
    BY <2>2, <2>3, UntouchedKeepsGoing DEF GoingHoldsInputs
<1>6. ASSUME RecoverBeforeBalance PROVE GoingHoldsInputs'
  <2>1. \A q \in Proposal : Untouched(q)
    BY <1>6, RecoveryTouchesNobody DEF RecoverBeforeBalance
  <2> QED
    BY <2>1, UntouchedKeepsGoing DEF GoingHoldsInputs
<1>7. ASSUME RecoverPreviousProcess PROVE GoingHoldsInputs'
  <2>1. \A q \in Proposal : Untouched(q)
    BY <1>7, RecoveryTouchesNobody DEF RecoverPreviousProcess
  <2> QED
    BY <2>1, UntouchedKeepsGoing DEF GoingHoldsInputs
<1> USE BoundsAreNat DEF ReservationInv, TypeInv, TypeOK, SentCountOK, Flows,
        GoingHoldsInputs, InWindow, ReadyToSend, HoldsWindow, StepsMatchFlow,
        StepsMatchFacts, LocksAreRecoverable, Going, MayProceed, HoldsInputs, Early,
        Built, Live, Target, SendProposalLockExpiry, chain, store, facts, attempt
<1>8. ASSUME NEW p \in Proposal, Consume(p) PROVE GoingHoldsInputs'
  BY <1>8 DEF Consume
<1>9. ASSUME NEW p \in Proposal, Discard(p) PROVE GoingHoldsInputs'
  BY <1>9 DEF Discard, UnlockDeclined, UnlockCompletes, UnlockTears, Unlocked, InFlight
<1>10. ASSUME NEW p \in Proposal, ReleaseAfterFailure(p) PROVE GoingHoldsInputs'
  BY <1>10 DEF ReleaseAfterFailure, UnlockDeclined, UnlockCompletes, UnlockTears,
       Unlocked, EndFlow
<1>11. ASSUME NEW p \in Proposal, CreateTransactions(p) PROVE GoingHoldsInputs'
  BY <1>11 DEF CreateTransactions, StoreTransactions, Unlocked
<1>12. ASSUME NEW p \in Proposal, FinishStored(p) PROVE GoingHoldsInputs'
  BY <1>12 DEF FinishStored, EndFlow
<1>13. ASSUME NEW p \in Proposal, SendCreated(p) PROVE GoingHoldsInputs'
  BY <1>13 DEF SendCreated, EndFlow
<1>14. ASSUME NEW p \in Proposal, Resubmit(p) PROVE GoingHoldsInputs'
  BY <1>14 DEF Resubmit
<1>15. ASSUME NEW p \in Proposal, StartBroadcast(p) PROVE GoingHoldsInputs'
  BY <1>15 DEF StartBroadcast
<1>16. ASSUME NEW p \in Proposal, OpenRoute(p) PROVE GoingHoldsInputs'
  BY <1>16 DEF OpenRoute
<1>17. ASSUME NEW p \in Proposal, MarkBroadcastStarted(p) PROVE GoingHoldsInputs'
  BY <1>17 DEF MarkBroadcastStarted, EndFlow
<1>18. ASSUME NEW p \in Proposal, SendPczt(p) PROVE GoingHoldsInputs'
  BY <1>18 DEF SendPczt
<1>19. ASSUME NEW p \in Proposal, StorePczts(p) PROVE GoingHoldsInputs'
  BY <1>19 DEF StorePczts, StoreTransactions, Unlocked
<1>20. ASSUME NEW p \in Proposal, Retain(p) PROVE GoingHoldsInputs'
  BY <1>20 DEF Retain, RetainUntilExpiry, EndFlow
<1>21. ASSUME NEW p \in Proposal, Checkpoint(p) PROVE GoingHoldsInputs'
  BY <1>21 DEF Checkpoint, EndFlow
<1>22. ASSUME NEW p \in Proposal, BroadcastOperation(p) PROVE GoingHoldsInputs'
  BY <1>22 DEF BroadcastOperation
<1>23. ASSUME NEW p \in Proposal, RecordOutcome(p) PROVE GoingHoldsInputs'
  BY <1>23 DEF RecordOutcome
<1>24. ASSUME NEW p \in Proposal, Acknowledge(p) PROVE GoingHoldsInputs'
  BY <1>24 DEF Acknowledge
<1>25. ASSUME NEW p \in Proposal, ShutdownRelease(p) PROVE GoingHoldsInputs'
  BY <1>25 DEF ShutdownRelease
<1>26. ASSUME BeginShutdown PROVE GoingHoldsInputs'
  BY <1>26 DEF BeginShutdown
<1>27. ASSUME Restart PROVE GoingHoldsInputs'
  BY <1>27 DEF Restart
<1>28. ASSUME AdvanceTip PROVE GoingHoldsInputs'
  BY <1>28 DEF AdvanceTip
<1>29. ASSUME SyncTip PROVE GoingHoldsInputs'
  BY <1>29 DEF SyncTip
<1>30. ASSUME NEW n \in Note, MigrationLock(n) PROVE GoingHoldsInputs'
  BY <1>30, OwnersDiffer DEF MigrationLock, LockOutputs, Spendable, LockActive
<1>31. ASSUME NEW n \in Note, MigrationUnlock(n) PROVE GoingHoldsInputs'
  BY <1>31, OwnersDiffer DEF MigrationUnlock, Unlocked
<1> QED
  BY <1>1, <1>2, <1>3, <1>4, <1>5, <1>6, <1>7, <1>8, <1>9, <1>10, <1>11, <1>12,
       <1>13, <1>14, <1>15, <1>16, <1>17, <1>18, <1>19, <1>20, <1>21, <1>22, <1>23,
       <1>24, <1>25, <1>26, <1>27, <1>28, <1>29, <1>30, <1>31
     DEF Next, Review, Build, Broadcast, Ledger

\* Nothing takes the inputs of a transaction that may be on the network.
LEMMA ClaimHoldsInputsStep ==
    ASSUME ReservationInv, Next
    PROVE  ClaimHoldsInputs'
<1>1. ASSUME NEW p \in Proposal, Propose(p) PROVE ClaimHoldsInputs'
  <2>1. \A q \in Proposal : q # p => Untouched(q)
    BY <1>1, LockingTouchesOneProposal
  <2>2. ~UnstoredClaim(p)'
    BY <1>1 DEF Propose, ReservationInv, StepsMatchFacts, TypeInv, TypeOK,
         UnstoredClaim, Claims
  <2> QED
    BY <2>1, <2>2, UntouchedKeepsClaim DEF ClaimHoldsInputs
<1>2. ASSUME NEW p \in Proposal, CreatePczts(p) PROVE ClaimHoldsInputs'
  <2>1. \A q \in Proposal : q # p => Untouched(q)
    BY <1>2, LockingTouchesOneProposal
  <2>2. ~UnstoredClaim(p)'
    BY <1>2 DEF CreatePczts, ReservationInv, StepsMatchFacts, Early, TypeInv, TypeOK,
         UnstoredClaim, Claims
  <2> QED
    BY <2>1, <2>2, UntouchedKeepsClaim DEF ClaimHoldsInputs
<1>3. ASSUME NEW p \in Proposal, CreateFails(p) PROVE ClaimHoldsInputs'
  <2>1. \A q \in Proposal : q # p => Untouched(q)
    BY <1>3, LockingTouchesOneProposal
  <2>2. ~UnstoredClaim(p)'
    BY <1>3 DEF CreateFails, ReservationInv, StepsMatchFacts, Early, TypeInv, TypeOK,
         UnstoredClaim, Claims
  <2> QED
    BY <2>1, <2>2, UntouchedKeepsClaim DEF ClaimHoldsInputs
<1>4. ASSUME NEW p \in Proposal, MarkBroadcastStarted(p) PROVE ClaimHoldsInputs'
  <2>1. \A q \in Proposal : q # p => Untouched(q)
    BY <1>4 DEF MarkBroadcastStarted, EndFlow, Untouched, chain, store, facts,
         ReservationInv, TypeInv, TypeOK
  
  <2>2. /\ UNCHANGED <<tip, wtip, net, lock, stored, outbox, via, inputs, expiry, shutting>>
        /\ pc[p] = "mark" /\ via[p] = "keystone" /\ net[p] = 0 /\ outbox[p] # "pending"
    BY <1>4 DEF MarkBroadcastStarted, chain, facts, ReservationInv, StepsMatchFlow,
         StepsMatchFacts, Early
  <2>3. UnstoredClaim(p)' => MayProceed(p) /\ row'[p] = RetainedRow(row[p]) /\ Live(p)
    BY <1>4, <2>2 DEF MarkBroadcastStarted, EndFlow, UnstoredClaim, Claims, Live,
                      ReservationInv, TypeInv, TypeOK
  <2>4. MayProceed(p) /\ Live(p) => HoldsInputs(p) /\ row[p].expiry = expiry[p]
    BY <2>2 DEF ReservationInv, GoingHoldsInputs, ReadyToSend, Going, MayProceed,
         Built, Early,
                RowMatchesStore
  <2>5. row[p] \in Row
    BY DEF ReservationInv, TypeInv, TypeOK
  <2>6. UnstoredClaim(p)' => 
          (HoldsInputs(p) /\ IsDurable(row[p]) /\ row[p].expiry = expiry[p])'
    BY <2>2, <2>3, <2>4, <2>5, RowUpdates DEF HoldsInputs, IsDurable
  <2> QED
    BY <2>1, <2>6, UntouchedKeepsClaim DEF ClaimHoldsInputs
<1>5. ASSUME NEW p \in Proposal, Retain(p) PROVE ClaimHoldsInputs'
  <2>1. \A q \in Proposal : q # p => Untouched(q)
    BY <1>5 DEF Retain, RetainUntilExpiry, EndFlow, Untouched, chain, store, facts,
         ReservationInv, TypeInv, TypeOK
  
  <2>2. /\ UNCHANGED <<tip, wtip, net, lock, stored, outbox, via, inputs, expiry>>
        /\ pc'[p] = "idle"
    BY <1>5 DEF Retain, EndFlow, chain, facts, ReservationInv, TypeInv, TypeOK
  <2>3. row'[p] = row[p] \/ row'[p] = RetainedRow(row[p])
    BY <1>5 DEF Retain, RetainUntilExpiry, ReservationInv, TypeInv, TypeOK
  <2>4. UnstoredClaim(p)' => UnstoredClaim(p)
    BY <2>2 DEF UnstoredClaim, Claims, Live
  <2>5. row[p] \in Row
    BY DEF ReservationInv, TypeInv, TypeOK
  <2>6. UnstoredClaim(p)' => HoldsInputs(p) /\ IsDurable(row[p]) /\ row[p].expiry = expiry[p]
    BY <2>4 DEF ReservationInv, ClaimHoldsInputs
  <2>7. UnstoredClaim(p)' => 
          (HoldsInputs(p) /\ IsDurable(row[p]) /\ row[p].expiry = expiry[p])'
    BY <2>2, <2>3, <2>5, <2>6, RowUpdates DEF HoldsInputs, IsDurable
  <2> QED
    BY <2>1, <2>7, UntouchedKeepsClaim DEF ClaimHoldsInputs
<1>6. ASSUME NEW p \in Proposal, Checkpoint(p) PROVE ClaimHoldsInputs'
  <2>1. \A q \in Proposal : q # p => Untouched(q)
    BY <1>6 DEF Checkpoint, EndFlow, Untouched, chain, store, facts, ReservationInv,
         TypeInv, TypeOK
  
  <2>2. /\ UNCHANGED <<tip, wtip, net, lock, stored, via, inputs, expiry, shutting>>
        /\ pc[p] = "sign" /\ via[p] = "ledger" /\ net[p] = 0 /\ outbox[p] = "none"
    BY <1>6 DEF Checkpoint, chain, facts, ReservationInv, StepsMatchFacts, Early
  <2>3. UnstoredClaim(p)' =>
          ~shutting /\ row[p].phase = "session" /\ row'[p] = SignedRow(row[p]) /\ Live(p)
    BY <1>6, <2>2 DEF Checkpoint, EndFlow, MayCheckpoint, UnstoredClaim, Claims, Live,
                      ReservationInv, TypeInv, TypeOK
  <2>4. ~shutting /\ row[p].phase = "session" /\ Live(p) =>
          HoldsInputs(p) /\ row[p].expiry = expiry[p]
    BY <2>2 DEF ReservationInv, GoingHoldsInputs, ReadyToSend, Going, MayProceed,
         Built, Early,
                RowMatchesStore
  <2>5. row[p] \in Row
    BY DEF ReservationInv, TypeInv, TypeOK
  <2>6. UnstoredClaim(p)' => 
          (HoldsInputs(p) /\ IsDurable(row[p]) /\ row[p].expiry = expiry[p])'
    BY <2>2, <2>3, <2>4, <2>5, RowUpdates DEF HoldsInputs, IsDurable
  <2> QED
    BY <2>1, <2>6, UntouchedKeepsClaim DEF ClaimHoldsInputs
<1>7. ASSUME NEW p \in Proposal, ReclaimAfterBroadcast(p) PROVE ClaimHoldsInputs'
  <2>1. pc[p] = "reclaim" /\ pc'[p] = "idle" /\ \A q \in Proposal : q # p => pc'[q] = pc[q]
    BY <1>7 DEF ReclaimAfterBroadcast, EndFlow, ReservationInv, TypeInv, TypeOK
  <2>2. \A q \in Proposal : q # p => Untouched(q)
    BY <1>7, <2>1, RecoveryTouchesNobody DEF ReclaimAfterBroadcast
  <2>3. UNCHANGED <<tip, net, stored, outbox, via, inputs, expiry>>
    BY <1>7 DEF ReclaimAfterBroadcast, chain, facts
  <2>4. UnstoredClaim(p)' => UnstoredClaim(p)
    BY <2>1, <2>3 DEF UnstoredClaim, Claims, Live
  <2>5. UnstoredClaim(p) => /\ HoldsInputs(p) /\ IsDurable(row[p]) /\ row[p].expiry = expiry[p]
                            /\ row'[p] = row[p] /\ \A m \in inputs[p] : lock'[m] = lock[m]
    BY <1>7, ProtectedIsSpared DEF ReclaimAfterBroadcast, Protected, ReservationInv,
         ClaimHoldsInputs
  <2>6. UnstoredClaim(p)' => 
          (HoldsInputs(p) /\ IsDurable(row[p]) /\ row[p].expiry = expiry[p])'
    BY <2>3, <2>4, <2>5 DEF HoldsInputs, IsDurable
  <2> QED
    BY <2>2, <2>6, UntouchedKeepsClaim DEF ClaimHoldsInputs
<1>8. ASSUME RecoverBeforeBalance PROVE ClaimHoldsInputs'
  <2>1. \A q \in Proposal : Untouched(q)
    BY <1>8, RecoveryTouchesNobody DEF RecoverBeforeBalance
  <2> QED
    BY <2>1, UntouchedKeepsClaim DEF ClaimHoldsInputs
<1>9. ASSUME RecoverPreviousProcess PROVE ClaimHoldsInputs'
  <2>1. \A q \in Proposal : Untouched(q)
    BY <1>9, RecoveryTouchesNobody DEF RecoverPreviousProcess
  <2> QED
    BY <2>1, UntouchedKeepsClaim DEF ClaimHoldsInputs
<1> USE BoundsAreNat DEF ReservationInv, TypeInv, TypeOK, SentCountOK, Flows,
        ClaimHoldsInputs, UnstoredClaim, GoingHoldsInputs, ReadyToSend,
        RowMatchesStore, StepsMatchFlow, StepsMatchFacts, Going, MayProceed,
        HoldsInputs, Claims, Early, Built, Live, Target, IsDurable, chain, store,
        facts, attempt
<1>10. ASSUME NEW p \in Proposal, Consume(p) PROVE ClaimHoldsInputs'
  BY <1>10 DEF Consume
<1>11. ASSUME NEW p \in Proposal, Discard(p) PROVE ClaimHoldsInputs'
  BY <1>11 DEF Discard, UnlockDeclined, UnlockCompletes, UnlockTears, Unlocked
<1>12. ASSUME NEW p \in Proposal, ReleaseAfterFailure(p) PROVE ClaimHoldsInputs'
  BY <1>12 DEF ReleaseAfterFailure, UnlockDeclined, UnlockCompletes, UnlockTears,
       Unlocked, EndFlow
<1>13. ASSUME NEW p \in Proposal, ReadLiveTip(p) PROVE ClaimHoldsInputs'
  BY <1>13 DEF ReadLiveTip
<1>14. ASSUME NEW p \in Proposal, CreateTransactions(p) PROVE ClaimHoldsInputs'
  BY <1>14 DEF CreateTransactions, StoreTransactions, Unlocked
<1>15. ASSUME NEW p \in Proposal, FinishStored(p) PROVE ClaimHoldsInputs'
  BY <1>15 DEF FinishStored, EndFlow
<1>16. ASSUME NEW p \in Proposal, SendCreated(p) PROVE ClaimHoldsInputs'
  BY <1>16 DEF SendCreated, EndFlow, Reached
<1>17. ASSUME NEW p \in Proposal, Resubmit(p) PROVE ClaimHoldsInputs'
  BY <1>17 DEF Resubmit, Reached
<1>18. ASSUME NEW p \in Proposal, StartBroadcast(p) PROVE ClaimHoldsInputs'
  BY <1>18 DEF StartBroadcast
<1>19. ASSUME NEW p \in Proposal, OpenRoute(p) PROVE ClaimHoldsInputs'
  BY <1>19 DEF OpenRoute
<1>20. ASSUME NEW p \in Proposal, SendPczt(p) PROVE ClaimHoldsInputs'
  BY <1>20 DEF SendPczt, Reached
<1>21. ASSUME NEW p \in Proposal, StorePczts(p) PROVE ClaimHoldsInputs'
  BY <1>21 DEF StorePczts, StoreTransactions, Unlocked
<1>22. ASSUME NEW p \in Proposal, BroadcastOperation(p) PROVE ClaimHoldsInputs'
  BY <1>22 DEF BroadcastOperation
<1>23. ASSUME NEW p \in Proposal, RecordOutcome(p) PROVE ClaimHoldsInputs'
  BY <1>23 DEF RecordOutcome, EndsReservation
<1>24. ASSUME NEW p \in Proposal, Acknowledge(p) PROVE ClaimHoldsInputs'
  BY <1>24 DEF Acknowledge
<1>25. ASSUME NEW p \in Proposal, ShutdownRelease(p) PROVE ClaimHoldsInputs'
  BY <1>25 DEF ShutdownRelease, UnlockDeclined, UnlockCompletes, UnlockTears,
       Unlocked, NoLock
<1>26. ASSUME BeginShutdown PROVE ClaimHoldsInputs'
  BY <1>26 DEF BeginShutdown
<1>27. ASSUME Restart PROVE ClaimHoldsInputs'
  BY <1>27 DEF Restart
<1>28. ASSUME AdvanceTip PROVE ClaimHoldsInputs'
  BY <1>28 DEF AdvanceTip
<1>29. ASSUME SyncTip PROVE ClaimHoldsInputs'
  BY <1>29 DEF SyncTip
<1>30. ASSUME NEW n \in Note, MigrationLock(n) PROVE ClaimHoldsInputs'
  BY <1>30, OwnersDiffer DEF MigrationLock, LockOutputs, Spendable, LockActive
<1>31. ASSUME NEW n \in Note, MigrationUnlock(n) PROVE ClaimHoldsInputs'
  BY <1>31, OwnersDiffer DEF MigrationUnlock, Unlocked
<1> QED
  BY <1>1, <1>2, <1>3, <1>4, <1>5, <1>6, <1>7, <1>8, <1>9, <1>10, <1>11, <1>12,
       <1>13, <1>14, <1>15, <1>16, <1>17, <1>18, <1>19, <1>20, <1>21, <1>22, <1>23,
       <1>24, <1>25, <1>26, <1>27, <1>28, <1>29, <1>30, <1>31
     DEF Next, Review, Build, Broadcast, Ledger

\* No step lets two live stored transactions share a note.
LEMMA StoredIsExclusiveStep ==
    ASSUME ReservationInv, Next
    PROVE  StoredIsExclusive'
<1>1. ASSUME NEW p \in Proposal, CreateTransactions(p) PROVE StoredIsExclusive'
  <2>1. \A q \in Proposal : StoredLive(q) => inputs[p] \cap inputs[q] = {}
    BY <1>1, BuildsInWindow, ProtectedIsDisjoint DEF CreateTransactions, Protected
  <2>2. \A m \in Note : /\ lock'[m] = lock[m] \/ lock'[m] = NoLock
                        /\ m \in inputs[p] /\ lock'[m] = lock[m]
                              => lock[m].owner # p \/ lock[m] = NoLock
    BY <1>1 DEF CreateTransactions, StoreTransactions, Unlocked, ReservationInv,
         TypeInv, TypeOK
  <2>3. \A m \in inputs[p] : lock[m].owner # p => ~LockActive(m)
    BY <1>1 DEF CreateTransactions, MayCreate, CanLock
  <2>4. /\ UNCHANGED <<tip, wtip, inputs, expiry>>
        /\ \A q \in Proposal : q # p => stored'[q] = stored[q]
    BY <1>1 DEF CreateTransactions, StoreTransactions, chain, facts, ReservationInv,
         TypeInv, TypeOK
  <2>5. \A q \in Proposal : inputs[q] \subseteq Note
    BY DEF ReservationInv, TypeInv, TypeOK
  <2>6. \A m \in Note : lock'[m] = NoLock => ~LockActive(m)'
    BY DEF NoLock, LockActive
  <2>7. \A m \in Note : ~LockActive(m) => ~LockActive(m)'
    BY <2>2, <2>4, <2>6 DEF LockActive, Target
  <2>8. \A m \in inputs[p] : ~LockActive(m)'
    BY <2>2, <2>3, <2>5, <2>6, <2>7
  <2>9. \A q \in Proposal : q # p => (StoredLive(q)' <=> StoredLive(q))
    BY <2>4 DEF StoredLive, Live
  <2>10. \A q \in Proposal : StoredLive(q)' => \A m \in inputs[q] : ~LockActive(m)'
    BY <2>5, <2>7, <2>8, <2>9 DEF ReservationInv, StoredIsExclusive, StoredLive
  <2>11. \A q, r \in Proposal :
            q # r /\ StoredLive(q)' /\ StoredLive(r)' => inputs[q] \cap inputs[r] = {}
    BY <2>1, <2>9 DEF ReservationInv, StoredIsExclusive, StoredLive
  <2> QED
    BY <2>4, <2>10, <2>11 DEF StoredIsExclusive, StoredLive
<1>2. ASSUME NEW p \in Proposal, CreatePczts(p) PROVE StoredIsExclusive'
  <2>1. MayCreate(p) => \A q \in Proposal : StoredLive(q) => inputs[p] \cap inputs[q] = {}
    BY <1>2, BuildsInWindow, ProtectedIsDisjoint DEF CreatePczts, Protected
  <2>2. \A m \in Note : lock'[m] = lock[m] \/ (m \in inputs[p] /\ MayCreate(p))
    BY <1>2 DEF CreatePczts, LockOutputs
  <2>3. UNCHANGED <<tip, wtip, stored, inputs, expiry>>
    BY <1>2 DEF CreatePczts, chain, facts
  <2>4. \A q \in Proposal : inputs[q] \subseteq Note
    BY DEF ReservationInv, TypeInv, TypeOK
  <2> QED
    BY <2>1, <2>2, <2>3, <2>4 DEF ReservationInv, StoredIsExclusive, StoredLive,
         Live, LockActive, Target
<1>3. ASSUME NEW p \in Proposal, CreateFails(p) PROVE StoredIsExclusive'
  <2>1. MayCreate(p) => \A q \in Proposal : StoredLive(q) => inputs[p] \cap inputs[q] = {}
    BY <1>3, BuildsInWindow, ProtectedIsDisjoint DEF CreateFails, Protected
  <2>2. \A m \in Note : lock'[m] = lock[m] \/ (m \in inputs[p] /\ MayCreate(p))
    BY <1>3 DEF CreateFails, LockOutputs
  <2>3. UNCHANGED <<tip, wtip, stored, inputs, expiry>>
    BY <1>3 DEF CreateFails, chain, facts
  <2>4. \A q \in Proposal : inputs[q] \subseteq Note
    BY DEF ReservationInv, TypeInv, TypeOK
  <2> QED
    BY <2>1, <2>2, <2>3, <2>4 DEF ReservationInv, StoredIsExclusive, StoredLive,
         Live, LockActive, Target
<1>4. ASSUME NEW p \in Proposal, StorePczts(p) PROVE StoredIsExclusive'
  <2>1. /\ UNCHANGED <<tip, wtip, inputs, expiry>> /\ stored'[p] >= stored[p]
        /\ \A q \in Proposal : q # p => stored'[q] = stored[q]
    BY <1>4 DEF StorePczts, StoreTransactions, chain, facts, ReservationInv, TypeInv,
         TypeOK
  <2>2. \A m \in Note : lock'[m] = lock[m] \/ lock'[m] = NoLock
    BY <1>4 DEF StorePczts, StoreTransactions, Unlocked, ReservationInv, TypeInv, TypeOK
  <2>3. \A q \in Proposal : inputs[q] \subseteq Note /\ stored[q] \in Nat
    BY DEF ReservationInv, TypeInv, TypeOK
  <2>4. \A m \in Note : ~LockActive(m) => ~LockActive(m)'
    BY <2>1, <2>2 DEF LockActive, Target, NoLock
  <2>5. \A q \in Proposal : q # p => (StoredLive(q)' <=> StoredLive(q))
    BY <2>1 DEF StoredLive, Live
  <2>6. CASE StoredLive(p)' /\ ~StoredLive(p)
    <3>1. UnstoredClaim(p) /\ stored'[p] # stored[p]
      BY <1>4, <2>1, <2>3, <2>6 DEF StorePczts, StoredLive, UnstoredClaim, Claims, Live,
                            ReservationInv, TypeInv, SentCountOK
    <3>2. \A q \in Proposal : StoredLive(q) => inputs[p] \cap inputs[q] = {}
      BY <3>1, ProtectedIsDisjoint DEF Protected
    <3>3. \A m \in inputs[p] : m \in Note /\ lock[m].owner = p
      BY <3>1, ProtectedHolds DEF Protected
    <3>4. \A m \in inputs[p] : lock'[m] = NoLock
      BY <1>4, <3>1, <3>3 DEF StorePczts, StoreTransactions, Unlocked,
           ReservationInv, TypeInv,
                              TypeOK, SentCountOK
    <3>5. \A m \in inputs[p] : ~LockActive(m)'
      BY <3>4 DEF LockActive, NoLock
    <3>6. \A q \in Proposal : StoredLive(q)' => \A m \in inputs[q] : ~LockActive(m)'
      BY <2>3, <2>4, <2>5, <3>5 DEF ReservationInv, StoredIsExclusive, StoredLive
    <3>7. \A q, r \in Proposal :
             q # r /\ StoredLive(q)' /\ StoredLive(r)' => inputs[q] \cap inputs[r] = {}
      BY <2>5, <3>2 DEF ReservationInv, StoredIsExclusive, StoredLive
    <3> QED
      BY <2>1, <3>6, <3>7 DEF StoredIsExclusive, StoredLive
  <2>7. CASE StoredLive(p)' => StoredLive(p)
    BY <2>1, <2>3, <2>4, <2>5, <2>7 DEF ReservationInv, StoredIsExclusive, StoredLive
  <2> QED
    BY <2>6, <2>7
<1>5. ASSUME NEW p \in Proposal, ReclaimAfterBroadcast(p) PROVE StoredIsExclusive'
  BY <1>5, RecoverKeepsExclusive DEF ReclaimAfterBroadcast
<1>6. ASSUME RecoverBeforeBalance PROVE StoredIsExclusive'
  BY <1>6, RecoverKeepsExclusive DEF RecoverBeforeBalance
<1>7. ASSUME RecoverPreviousProcess PROVE StoredIsExclusive'
  BY <1>7, RecoverKeepsExclusive DEF RecoverPreviousProcess
<1>8. ASSUME SyncTip PROVE StoredIsExclusive'
  <2>1. wtip' \in Nat /\ wtip' > wtip /\ UNCHANGED <<tip, stored, lock, inputs, expiry>>
    BY <1>8 DEF SyncTip, facts, ReservationInv, TypeInv, TypeOK
  <2>2. \A m \in Note : lock[m].expiry \in Nat /\ wtip \in Nat
    BY DEF ReservationInv, TypeInv, TypeOK, Lock
  <2>3. \A m \in Note : ~LockActive(m) => ~LockActive(m)'
    BY <2>1, <2>2 DEF LockActive, Target
  <2>4. \A q \in Proposal : inputs[q] \subseteq Note
    BY DEF ReservationInv, TypeInv, TypeOK
  <2> QED
    BY <2>1, <2>3, <2>4 DEF ReservationInv, StoredIsExclusive, Live
<1> USE OwnersDiffer, BoundsAreNat DEF ReservationInv, TypeInv, TypeOK, SentCountOK,
        Flows, StoredIsExclusive, StepsMatchFacts, StepsMatchFlow, Early, Live,
        Target, LockActive, chain, store, facts, attempt
<1>9. ASSUME NEW p \in Proposal, Propose(p) PROVE StoredIsExclusive'
  BY <1>9 DEF Propose, LockOutputs, Spendable, SpentByPending
<1>10. ASSUME NEW p \in Proposal, Consume(p) PROVE StoredIsExclusive'
  BY <1>10 DEF Consume
<1>11. ASSUME NEW p \in Proposal, Discard(p) PROVE StoredIsExclusive'
  BY <1>11 DEF Discard, UnlockDeclined, UnlockCompletes, UnlockTears, Unlocked, NoLock
<1>12. ASSUME NEW p \in Proposal, ReleaseAfterFailure(p) PROVE StoredIsExclusive'
  BY <1>12 DEF ReleaseAfterFailure, UnlockDeclined, UnlockCompletes, UnlockTears,
       Unlocked, NoLock
<1>13. ASSUME NEW p \in Proposal, ReadLiveTip(p) PROVE StoredIsExclusive'
  BY <1>13 DEF ReadLiveTip
<1>14. ASSUME NEW p \in Proposal, FinishStored(p) PROVE StoredIsExclusive'
  BY <1>14 DEF FinishStored, EndFlow
<1>15. ASSUME NEW p \in Proposal, SendCreated(p) PROVE StoredIsExclusive'
  BY <1>15 DEF SendCreated, EndFlow
<1>16. ASSUME NEW p \in Proposal, Resubmit(p) PROVE StoredIsExclusive'
  BY <1>16 DEF Resubmit
<1>17. ASSUME NEW p \in Proposal, StartBroadcast(p) PROVE StoredIsExclusive'
  BY <1>17 DEF StartBroadcast
<1>18. ASSUME NEW p \in Proposal, OpenRoute(p) PROVE StoredIsExclusive'
  BY <1>18 DEF OpenRoute
<1>19. ASSUME NEW p \in Proposal, MarkBroadcastStarted(p) PROVE StoredIsExclusive'
  BY <1>19 DEF MarkBroadcastStarted, EndFlow
<1>20. ASSUME NEW p \in Proposal, SendPczt(p) PROVE StoredIsExclusive'
  BY <1>20 DEF SendPczt
<1>21. ASSUME NEW p \in Proposal, Retain(p) PROVE StoredIsExclusive'
  BY <1>21 DEF Retain, EndFlow
<1>22. ASSUME NEW p \in Proposal, Checkpoint(p) PROVE StoredIsExclusive'
  BY <1>22 DEF Checkpoint, EndFlow
<1>23. ASSUME NEW p \in Proposal, BroadcastOperation(p) PROVE StoredIsExclusive'
  BY <1>23 DEF BroadcastOperation
<1>24. ASSUME NEW p \in Proposal, RecordOutcome(p) PROVE StoredIsExclusive'
  BY <1>24 DEF RecordOutcome
<1>25. ASSUME NEW p \in Proposal, Acknowledge(p) PROVE StoredIsExclusive'
  BY <1>25 DEF Acknowledge
<1>26. ASSUME NEW p \in Proposal, ShutdownRelease(p) PROVE StoredIsExclusive'
  BY <1>26 DEF ShutdownRelease, UnlockCompletes, UnlockTears, Unlocked, NoLock
<1>27. ASSUME BeginShutdown PROVE StoredIsExclusive'
  BY <1>27 DEF BeginShutdown
<1>28. ASSUME Restart PROVE StoredIsExclusive'
  BY <1>28 DEF Restart
<1>29. ASSUME AdvanceTip PROVE StoredIsExclusive'
  BY <1>29 DEF AdvanceTip
<1>30. ASSUME NEW n \in Note, MigrationLock(n) PROVE StoredIsExclusive'
  BY <1>30 DEF MigrationLock, LockOutputs, Spendable, SpentByPending
<1>31. ASSUME NEW n \in Note, MigrationUnlock(n) PROVE StoredIsExclusive'
  BY <1>31 DEF MigrationUnlock, Unlocked, NoLock
<1> QED
  BY <1>1, <1>2, <1>3, <1>4, <1>5, <1>6, <1>7, <1>8, <1>9, <1>10, <1>11, <1>12,
       <1>13, <1>14, <1>15, <1>16, <1>17, <1>18, <1>19, <1>20, <1>21, <1>22, <1>23,
       <1>24, <1>25, <1>26, <1>27, <1>28, <1>29, <1>30, <1>31
     DEF Next, Review, Build, Broadcast, Ledger

\* Every step keeps a hardware attempt backed by the network and its row.
LEMMA SendingIsBackedStep ==
    ASSUME TypeInv, StepsMatchFlow, RowMatchesStore, SendingIsBacked, Next
    PROVE  SendingIsBacked'
<1> USE DEF SendingIsBacked, chain, store, facts, attempt
<1>0. /\ pc \in [Proposal -> PCs] /\ via \in [Proposal -> Flows] /\ sent \in [Proposal -> Nat]
      /\ net \in [Proposal -> Nat] /\ row \in [Proposal -> Row] /\ stored \in [Proposal -> Nat]
      /\ parts \in [Proposal -> Nat]
  BY BoundsAreNat DEF TypeInv, TypeOK
<1>1. ASSUME NEW p \in Proposal, Propose(p) PROVE SendingIsBacked'
  BY <1>0, <1>1 DEF Propose
<1>2. ASSUME NEW p \in Proposal, Consume(p) PROVE SendingIsBacked'
  BY <1>0, <1>2 DEF Consume
<1>3. ASSUME NEW p \in Proposal, Discard(p) PROVE SendingIsBacked'
  <2>1. \A q \in Proposal : pc'[q] \in {"send", "store"} => pc'[q] = pc[q]
    BY <1>3, DiscardEffect
  <2>2. \A q \in Proposal : row[q].phase = "broadcast" => row'[q] = row[q]
    BY <1>3, DiscardEffect DEF Releases, IsDurable
  <2> QED
    BY <1>3, <2>1, <2>2 DEF Discard
<1>4. ASSUME NEW p \in Proposal, ReleaseAfterFailure(p) PROVE SendingIsBacked'
  <2>1. \A q \in Proposal : q # p => row'[q] = row[q]
    BY <1>4, FailureEffect DEF Releases
  <2> QED
    BY <1>0, <1>4, <2>1 DEF ReleaseAfterFailure, EndFlow
<1>5. ASSUME NEW p \in Proposal, ReadLiveTip(p) PROVE SendingIsBacked'
  BY <1>0, <1>5 DEF ReadLiveTip
<1>6. ASSUME NEW p \in Proposal, CreateTransactions(p) PROVE SendingIsBacked'
  BY <1>0, <1>6 DEF CreateTransactions
<1>7. ASSUME NEW p \in Proposal, CreatePczts(p) PROVE SendingIsBacked'
  BY <1>0, <1>7 DEF CreatePczts
<1>8. ASSUME NEW p \in Proposal, CreateFails(p) PROVE SendingIsBacked'
  BY <1>0, <1>8 DEF CreateFails
<1>9. ASSUME NEW p \in Proposal, FinishStored(p) PROVE SendingIsBacked'
  BY <1>0, <1>9 DEF FinishStored, EndFlow
<1>10. ASSUME NEW p \in Proposal, SendCreated(p) PROVE SendingIsBacked'
  BY <1>0, <1>10 DEF SendCreated, EndFlow, Reached
<1>11. ASSUME NEW p \in Proposal, Resubmit(p) PROVE SendingIsBacked'
  BY <1>0, <1>11 DEF Resubmit, Reached
<1>12. ASSUME NEW p \in Proposal, StartBroadcast(p) PROVE SendingIsBacked'
  BY <1>0, <1>12 DEF StartBroadcast
<1>13. ASSUME NEW p \in Proposal, OpenRoute(p) PROVE SendingIsBacked'
  <2>1. sent[p] = 0 /\ UNCHANGED <<sent, net, via, row>>
    BY <1>13 DEF OpenRoute, TypeInv, SentCountOK
  <2>2. \A q \in Proposal : q # p => pc'[q] = pc[q]
    BY <1>0, <1>13 DEF OpenRoute
  <2>3. pc'[p] # "store" /\ (pc'[p] = "send" => via[p] = "ledger")
    BY <1>0, <1>13 DEF OpenRoute
  <2> QED
    BY <1>0, <2>1, <2>2, <2>3
<1>14. ASSUME NEW p \in Proposal, MarkBroadcastStarted(p) PROVE SendingIsBacked'
  <2>1. via[p] = "keystone" /\ sent[p] = 0 /\ Early(p)
    BY <1>14 DEF MarkBroadcastStarted, StepsMatchFlow, TypeInv, SentCountOK, Early
  <2>2. CASE MayProceed(p) /\ row' = [row EXCEPT ![p] = RetainedRow(row[p])] /\ sent' = sent
             /\ pc' = [pc EXCEPT ![p] = "send"]
    <3>1. row[p] \in Row /\ row[p].phase = "session" /\ ~row[p].old
      BY <1>0, <2>1, <2>2 DEF RowMatchesStore, MayProceed
    <3>2. RetainedRow(row[p]).phase = "broadcast" /\ RetainedRow(row[p]).old = row[p].old
      BY <3>1 DEF RetainedRow, Row
    <3> QED
      BY <1>0, <1>14, <2>1, <2>2, <3>1, <3>2 DEF MarkBroadcastStarted
  <2>3. CASE EndFlow(p) /\ UNCHANGED row
    BY <1>0, <1>14, <2>3 DEF MarkBroadcastStarted, EndFlow
  <2> QED
    BY <1>14, <2>2, <2>3 DEF MarkBroadcastStarted
<1>15. ASSUME NEW p \in Proposal, SendPczt(p) PROVE SendingIsBacked'
  <2>1. \A q \in Proposal : q # p => pc'[q] = pc[q] /\ sent'[q] = sent[q] /\ net'[q] = net[q]
    BY <1>0, <1>15 DEF SendPczt, Reached
  <2>2. sent'[p] <= net'[p]
    BY <1>0, <1>15 DEF SendPczt, Reached, BroadcastStep, Answers
  <2>3. pc[p] = "send" /\ UNCHANGED <<row, via>>
    BY <1>15 DEF SendPczt
  <2> QED
    BY <2>1, <2>2, <2>3
<1>16. ASSUME NEW p \in Proposal, StorePczts(p) PROVE SendingIsBacked'
  BY <1>0, <1>16 DEF StorePczts
<1>17. ASSUME NEW p \in Proposal, Retain(p) PROVE SendingIsBacked'
  BY <1>0, <1>17 DEF Retain, RetainUntilExpiry, EndFlow
<1>18. ASSUME NEW p \in Proposal, Checkpoint(p) PROVE SendingIsBacked'
  BY <1>0, <1>18 DEF Checkpoint, EndFlow
<1>19. ASSUME NEW p \in Proposal, BroadcastOperation(p) PROVE SendingIsBacked'
  BY <1>0, <1>19 DEF BroadcastOperation
<1>20. ASSUME NEW p \in Proposal, RecordOutcome(p) PROVE SendingIsBacked'
  <2>1. pc' = [pc EXCEPT ![p] = "reclaim"] /\ UNCHANGED <<sent, net, via>>
    BY <1>20 DEF RecordOutcome
  <2>2. \A q \in Proposal : q # p => row'[q] = row[q]
    BY <1>0, <1>20 DEF RecordOutcome
  <2> QED
    BY <1>0, <2>1, <2>2
<1>21. ASSUME NEW p \in Proposal, ReclaimAfterBroadcast(p) PROVE SendingIsBacked'
  <2>1. \A q \in Proposal : row[q].phase = "broadcast" /\ ~row[q].old => row'[q] = row[q]
    BY <1>21, RecoverEffect DEF ReclaimAfterBroadcast, Recovers, Recoverable, LeftBehind
  <2> QED
    BY <1>0, <1>21, <2>1 DEF ReclaimAfterBroadcast, EndFlow
<1>22. ASSUME NEW p \in Proposal, Acknowledge(p) PROVE SendingIsBacked'
  BY <1>0, <1>22 DEF Acknowledge
<1>23. ASSUME NEW p \in Proposal, ShutdownRelease(p) PROVE SendingIsBacked'
  <2>1. \A q \in Proposal : row[q].phase = "broadcast" => row'[q] = row[q]
    BY <1>23, ShutdownEffect DEF Releases, IsDurable
  <2> QED
    BY <1>23, <2>1 DEF ShutdownRelease
<1>24. ASSUME RecoverBeforeBalance PROVE SendingIsBacked'
  <2>1. \A q \in Proposal : row[q].phase = "broadcast" /\ ~row[q].old => row'[q] = row[q]
    BY <1>24, RecoverEffect DEF RecoverBeforeBalance, Recovers, Recoverable, LeftBehind
  <2> QED
    BY <1>24, <2>1 DEF RecoverBeforeBalance
<1>25. ASSUME RecoverPreviousProcess PROVE SendingIsBacked'
  <2>1. \A q \in Proposal : row[q].phase = "broadcast" /\ ~row[q].old => row'[q] = row[q]
    BY <1>25, RecoverEffect DEF RecoverPreviousProcess, Recovers, Recoverable, LeftBehind
  <2> QED
    BY <1>25, <2>1 DEF RecoverPreviousProcess
<1>26. ASSUME BeginShutdown PROVE SendingIsBacked'
  BY <1>0, <1>26 DEF BeginShutdown
<1>27. ASSUME Restart PROVE SendingIsBacked'
  BY <1>0, <1>27 DEF Restart
<1>28. ASSUME AdvanceTip PROVE SendingIsBacked'
  BY <1>0, <1>28 DEF AdvanceTip
<1>29. ASSUME SyncTip PROVE SendingIsBacked'
  BY <1>0, <1>29 DEF SyncTip
<1>30. ASSUME NEW n \in Note, MigrationLock(n) PROVE SendingIsBacked'
  BY <1>0, <1>30 DEF MigrationLock
<1>31. ASSUME NEW n \in Note, MigrationUnlock(n) PROVE SendingIsBacked'
  BY <1>0, <1>31 DEF MigrationUnlock
<1> QED
  BY <1>1, <1>2, <1>3, <1>4, <1>5, <1>6, <1>7, <1>8, <1>9, <1>10, <1>11, <1>12,
       <1>13, <1>14, <1>15, <1>16, <1>17, <1>18, <1>19, <1>20, <1>21, <1>22, <1>23,
       <1>24, <1>25, <1>26, <1>27, <1>28, <1>29, <1>30, <1>31
     DEF Next, Review, Build, Broadcast, Ledger

----------------------------------------------------------------------------

\* The initial state satisfies the invariant.
LEMMA InitInv == Init => ReservationInv
<1> SUFFICES ASSUME Init PROVE ReservationInv
  OBVIOUS
<1>1. TypeInv
  BY InitTypeInv
<1>2. /\ \A p \in Proposal : /\ pc[p] = "none" /\ net[p] = 0 /\ stored[p] = 0 /\ outbox[p] = "none"
                              /\ row[p].phase = "none" /\ inputs[p] = {}
      /\ \A n \in Note : lock[n].owner = NoOwner
      /\ proposals = {} /\ locks = {}
  BY DEF Init, NoLock, NoRow
<1>3. StepsMatchFlow
  BY <1>1, <1>2 DEF StepsMatchFlow
<1>4. StepsMatchFacts
  BY <1>1, <1>2 DEF StepsMatchFacts, Early
<1>5. RowMatchesStore
  BY <1>1, <1>2 DEF RowMatchesStore, Early, Built, IsDurable
<1>6. LocksAreRecoverable
  BY <1>1, <1>2, OwnersDiffer DEF LocksAreRecoverable
<1>7. FinishedHoldsNoLock
  BY <1>1, <1>2 DEF FinishedHoldsNoLock
<1>8. CreatesInTime
  BY <1>1, <1>2 DEF CreatesInTime, Target, SendProposalLockExpiry
<1>9. GoingHoldsInputs
  BY <1>1, <1>2 DEF GoingHoldsInputs, InWindow, ReadyToSend, HoldsWindow,
       HoldsInputs, Going, MayProceed, Built, Early, Live, Target,
       SendProposalLockExpiry
<1>10. ClaimHoldsInputs
  BY <1>1, <1>2 DEF ClaimHoldsInputs, UnstoredClaim, Claims, Live, HoldsInputs,
       IsDurable
<1>11. StoredIsExclusive
  BY <1>1, <1>2 DEF StoredIsExclusive, Live, LockActive, Target
<1>12. SendingIsBacked
  BY <1>2 DEF SendingIsBacked
<1> QED
  BY <1>1, <1>3, <1>4, <1>5, <1>6, <1>7, <1>8, <1>9, <1>10, <1>11, <1>12 DEF ReservationInv

\* Stuttering keeps the invariant.
LEMMA StutterInv == ASSUME ReservationInv, UNCHANGED vars PROVE ReservationInv'
<1>1. TypeInv'
  BY TypeStep DEF ReservationInv
<1>2. StepsMatchFlow'
  BY DEF ReservationInv, vars, StepsMatchFlow
<1>3. StepsMatchFacts'
  BY DEF ReservationInv, vars, StepsMatchFacts, Early
<1>4. RowMatchesStore'
  BY DEF ReservationInv, vars, RowMatchesStore, Early, Built, IsDurable
<1>5. LocksAreRecoverable'
  BY DEF ReservationInv, vars, LocksAreRecoverable
<1>6. FinishedHoldsNoLock'
  BY DEF ReservationInv, vars, FinishedHoldsNoLock
<1>7. CreatesInTime'
  BY DEF ReservationInv, vars, CreatesInTime, Target, SendProposalLockExpiry
<1>8. GoingHoldsInputs'
  BY DEF ReservationInv, vars, GoingHoldsInputs, InWindow, ReadyToSend, HoldsWindow,
       HoldsInputs, Going, MayProceed, Built, Early, Live, Target,
       SendProposalLockExpiry
<1>9. ClaimHoldsInputs'
  BY DEF ReservationInv, vars, ClaimHoldsInputs, UnstoredClaim, Claims, Live,
       HoldsInputs, IsDurable
<1>10. StoredIsExclusive'
  BY DEF ReservationInv, vars, StoredIsExclusive, Live, LockActive, Target
<1>11. SendingIsBacked'
  BY DEF ReservationInv, vars, SendingIsBacked
<1> QED
  BY <1>1, <1>2, <1>3, <1>4, <1>5, <1>6, <1>7, <1>8, <1>9, <1>10, <1>11 DEF ReservationInv

\* Every step keeps the invariant.
LEMMA NextInv == ASSUME ReservationInv, [Next]_vars PROVE ReservationInv'
<1>1. CASE Next
  <2>1. TypeInv'
    BY TypeStep DEF ReservationInv
  <2>2. StepsMatchFlow'
    BY <1>1, StepsMatchFlowStep DEF ReservationInv
  <2>3. StepsMatchFacts'
    BY <1>1, StepsMatchFactsStep DEF ReservationInv
  <2>4. RowMatchesStore'
    BY <1>1, RowMatchesStoreStep DEF ReservationInv
  <2>5. LocksAreRecoverable'
    BY <1>1, LocksAreRecoverableStep DEF ReservationInv
  <2>6. FinishedHoldsNoLock'
    BY <1>1, FinishedHoldsNoLockStep DEF ReservationInv
  <2>7. CreatesInTime'
    BY <1>1, CreatesInTimeStep DEF ReservationInv
  <2>8. GoingHoldsInputs'
    BY <1>1, GoingHoldsInputsStep DEF ReservationInv
  <2>9. ClaimHoldsInputs'
    BY <1>1, ClaimHoldsInputsStep DEF ReservationInv
  <2>10. StoredIsExclusive'
    BY <1>1, StoredIsExclusiveStep DEF ReservationInv
  <2>11. SendingIsBacked'
    BY <1>1, SendingIsBackedStep DEF ReservationInv
  <2> QED
    BY <2>1, <2>2, <2>3, <2>4, <2>5, <2>6, <2>7, <2>8, <2>9, <2>10, <2>11 DEF ReservationInv
<1>2. CASE UNCHANGED vars
  BY <1>2, StutterInv
<1> QED
  BY <1>1, <1>2

\* Rows, locks, outbox and flow steps are consistent in every reachable state.
THEOREM ReservationsConsistent == Spec => []ReservationInv
<1>1. Init => ReservationInv
  BY InitInv
<1>2. ReservationInv /\ [Next]_vars => ReservationInv'
  BY NextInv
<1> QED
  BY <1>1, <1>2, PTL DEF Spec

\* Cancelling, shutting down, dying, recovering or failing at any point never
\* frees the inputs of a transaction the network may know and may still mine.
THEOREM BroadcastStaysReserved == Spec => []MaybeOnNetworkIsReserved
<1>1. ReservationInv => MaybeOnNetworkIsReserved
  <2> SUFFICES ASSUME ReservationInv, NEW p \in Proposal, net[p] > 0, Live(p), ~(stored[p] > 0)
               PROVE  HoldsInputs(p)
    BY DEF MaybeOnNetworkIsReserved, Reserved
  <2>1. UnstoredClaim(p)
    BY DEF UnstoredClaim, Claims, ReservationInv, TypeInv, TypeOK
  <2> QED
    BY <2>1 DEF ReservationInv, ClaimHoldsInputs
<1> QED
  BY <1>1, ReservationsConsistent, PTL

\* A Ledger operation that a later process may still broadcast keeps its inputs.
THEOREM PendingStaysReserved == Spec => []PendingOperationIsReserved
<1>1. ReservationInv => PendingOperationIsReserved
  <2> SUFFICES ASSUME ReservationInv, NEW p \in Proposal, outbox[p] = "pending", Live(p),
                      ~(stored[p] > 0)
               PROVE  HoldsInputs(p)
    BY DEF PendingOperationIsReserved, Reserved
  <2>1. UnstoredClaim(p)
    BY DEF UnstoredClaim, Claims, ReservationInv, TypeInv, TypeOK
  <2> QED
    BY <2>1 DEF ReservationInv, ClaimHoldsInputs
<1> QED
  BY <1>1, ReservationsConsistent, PTL

\* The wallet never has two live transactions out that spend the same note.
THEOREM SpendsNeverConflict == Spec => []NoConflictingSpends
<1>1. ReservationInv => NoConflictingSpends
  <2> SUFFICES ASSUME ReservationInv, NEW p \in Proposal, NEW q \in Proposal, p # q,
                      net[p] > 0, net[q] > 0, Live(p), Live(q)
               PROVE  inputs[p] \cap inputs[q] = {}
    BY DEF NoConflictingSpends
  <2>1. \A r \in {p, q} : StoredLive(r) \/ UnstoredClaim(r)
    BY DEF StoredLive, UnstoredClaim, Claims, ReservationInv, TypeInv, TypeOK
  <2>2. CASE StoredLive(p) /\ StoredLive(q)
    BY <2>2 DEF StoredLive, ReservationInv, StoredIsExclusive
  <2>3. CASE UnstoredClaim(p) /\ StoredLive(q)
    BY <2>3, ProtectedIsDisjoint DEF Protected
  <2>4. CASE StoredLive(p) /\ UnstoredClaim(q)
    BY <2>4, ProtectedIsDisjoint DEF Protected
  <2>5. CASE UnstoredClaim(p) /\ UnstoredClaim(q)
    BY <2>5, ProtectedHolds DEF Protected
  <2> QED
    BY <2>1, <2>2, <2>3, <2>4, <2>5
<1> QED
  BY <1>1, ReservationsConsistent, PTL

\* No lock of a send proposal is ever lost to the recovery of a later process.
THEOREM NoLockLeaks == Spec => []LocksAreRecoverable
<1>1. ReservationInv => LocksAreRecoverable
  BY DEF ReservationInv
<1> QED
  BY <1>1, ReservationsConsistent, PTL

----------------------------------------------------------------------------
(* SendReservations implements SpendOnce.  Most steps are invisible to the *)
(* network; those that choose inputs or an expiry happen before anything   *)
(* is sent, and those that send leave no two live rivals behind            *)
(* (NoConflictingSpends in the state after the step).                      *)

\* A step that leaves the chain, the composition of every payment and what the
\* network may know alone.
Invisible == UNCHANGED <<tip, inputs, expiry, net>>

\* Such a step is a stuttering step of SpendOnce.
LEMMA InvisibleStutters == ASSUME Invisible PROVE UNCHANGED Network!vars
BY DEF Invisible, Network!vars, MaybeKnown

\* Nothing of a proposal was sent before its transactions are built.
LEMMA EarlyIsUnknown ==
    ASSUME ReservationInv, NEW p \in Proposal, pc[p] \in {"none", "review", "tip"}
    PROVE  p \notin MaybeKnown
<1>1. pc[p] \in {"none", "release"} \/ Early(p)
  BY DEF Early
<1>2. net[p] = 0
  BY <1>1 DEF ReservationInv, StepsMatchFacts
<1> QED
  BY <1>2 DEF MaybeKnown

\* propose_send composes a payment that nobody can know.
LEMMA ProposeComposes ==
    ASSUME ReservationInv, ReservationInv', NEW p \in Proposal, Propose(p)
    PROVE  Network!Compose(p)
<1>1. p \notin MaybeKnown
  BY EarlyIsUnknown DEF Propose
<1>2. inputs \in [Proposal -> SUBSET Note] /\ inputs' \in [Proposal -> SUBSET Note]
  BY DEF ReservationInv, TypeInv, TypeOK
<1>3. expiry \in [Proposal -> Nat]
  BY DEF ReservationInv, TypeInv, TypeOK
<1>4. PICK S : inputs' = [inputs EXCEPT ![p] = S]
  BY DEF Propose
<1>5. UNCHANGED <<tip, net, expiry>>
  BY DEF Propose, chain
<1> QED
  BY <1>1, <1>2, <1>3, <1>4, <1>5 DEF Network!Compose, MaybeKnown

\* The live tip sets the expiry of a payment that nobody can know.
LEMMA TipComposes ==
    ASSUME ReservationInv, ReservationInv', NEW p \in Proposal, ReadLiveTip(p)
    PROVE  Network!Compose(p)
<1>1. p \notin MaybeKnown
  BY EarlyIsUnknown DEF ReadLiveTip
<1>2. inputs \in [Proposal -> SUBSET Note]
  BY DEF ReservationInv, TypeInv, TypeOK
<1>3. expiry \in [Proposal -> Nat] /\ expiry' \in [Proposal -> Nat]
  BY DEF ReservationInv, TypeInv, TypeOK
<1>4. expiry' = [expiry EXCEPT ![p] = expiry'[p]]
  BY <1>3 DEF ReadLiveTip
<1>5. UNCHANGED <<tip, net, inputs>>
  BY DEF ReadLiveTip, chain, facts
<1> QED
  BY <1>1, <1>2, <1>3, <1>4, <1>5 DEF Network!Compose, MaybeKnown

\* A step that changes net for one proposal only sends it, or takes it back, or
\* the network sees nothing new.
LEMMA NetStep ==
    ASSUME ReservationInv, ReservationInv', NoConflictingSpends', NEW p \in Proposal,
           UNCHANGED <<tip, inputs, expiry>>,
           \A q \in Proposal : q # p => net'[q] = net[q]
    PROVE  Network!Send(p) \/ Network!Reject(p) \/ UNCHANGED Network!vars
<1>1. net \in [Proposal -> Nat] /\ net' \in [Proposal -> Nat]
  BY DEF ReservationInv, TypeInv, TypeOK
<1>2. MaybeKnown' \in {MaybeKnown, MaybeKnown \cup {p}, MaybeKnown \ {p}}
  <2>1. \A q : q # p => (q \in MaybeKnown' <=> q \in MaybeKnown)
    BY DEF MaybeKnown
  <2> QED
    BY <2>1
<1>3. CASE MaybeKnown' = MaybeKnown
  BY <1>3 DEF Network!vars
<1>4. CASE p \notin MaybeKnown /\ MaybeKnown' = MaybeKnown \cup {p}
  <2>1. ASSUME NEW q \in MaybeKnown \ {p}, Network!Live(p), Network!Live(q)
        PROVE  inputs[p] \cap inputs[q] = {}
    <3>1. q \in Proposal /\ net'[q] > 0 /\ net'[p] > 0
      BY <1>4, <2>1 DEF MaybeKnown
    <3>2. Live(p)' /\ Live(q)'
      BY <2>1 DEF Live, Network!Live
    <3> QED
      BY <2>1, <3>1, <3>2 DEF NoConflictingSpends
  <2> QED
    BY <1>4, <2>1 DEF Network!Send, Network!Unrivalled
<1>5. CASE p \in MaybeKnown /\ MaybeKnown' = MaybeKnown \ {p}
  BY <1>5 DEF Network!Reject
<1> QED
  BY <1>2, <1>3, <1>4, <1>5

\* Every broadcasting step is one of these.
LEMMA BroadcastsAreNetSteps ==
    ASSUME ReservationInv, NEW p \in Proposal, SendCreated(p) \/ Resubmit(p) \/ SendPczt(p)
    PROVE  /\ UNCHANGED <<tip, inputs, expiry>>
           /\ \A q \in Proposal : q # p => net'[q] = net[q]
<1>0. net \in [Proposal -> 0..MaxParts]
  BY DEF ReservationInv, TypeInv, TypeOK
<1>1. CASE SendCreated(p)
  BY <1>0, <1>1 DEF SendCreated, Reached, chain, facts
<1>2. CASE Resubmit(p)
  BY <1>0, <1>2 DEF Resubmit, Reached, chain, facts
<1>3. CASE SendPczt(p)
  <2>1. UNCHANGED <<tip, inputs, expiry>>
    BY <1>3 DEF SendPczt, chain, facts
  <2>2. PICK answer \in Answers(sent[p]) :
           net' = CASE answer \in {"accepted", "unknown"} -> Reached(p, sent[p] + 1)
                    [] answer = "rejected" -> [net EXCEPT ![p] = sent[p]]
                    [] OTHER -> net
    BY <1>3 DEF SendPczt
  <2>3. \A q \in Proposal : q # p => net'[q] = net[q]
    BY <1>0, <2>2 DEF Reached
  <2> QED
    BY <2>1, <2>3
<1> QED
  BY <1>1, <1>2, <1>3

\* Every step of the send flows is a step of SpendOnce or a stutter.
LEMMA StepImplementsSpendOnce ==
    ASSUME ReservationInv, ReservationInv', NoConflictingSpends', [Next]_vars
    PROVE  [Network!Next]_(Network!vars)
<1> USE DEF chain, store, facts, attempt
<1>1. ASSUME NEW p \in Proposal, Propose(p) PROVE Network!Next
  BY <1>1, ProposeComposes DEF Network!Next
<1>2. ASSUME NEW p \in Proposal, ReadLiveTip(p) PROVE Network!Next
  BY <1>2, TipComposes DEF Network!Next
<1>3. ASSUME NEW p \in Proposal, SendCreated(p) \/ Resubmit(p) \/ SendPczt(p)
      PROVE  [Network!Next]_(Network!vars)
  <2>1. /\ UNCHANGED <<tip, inputs, expiry>>
        /\ \A q \in Proposal : q # p => net'[q] = net[q]
    BY <1>3, BroadcastsAreNetSteps
  <2> QED
    BY <2>1, NetStep DEF Network!Next
<1>4. ASSUME AdvanceTip PROVE Network!Next
  BY <1>4 DEF AdvanceTip, Network!Next, Network!NewBlock, MaybeKnown
<1>5. ASSUME NEW p \in Proposal, Consume(p) \/ Discard(p) \/ ReleaseAfterFailure(p)
      PROVE  Invisible
  BY <1>5 DEF Invisible, Consume, Discard, ReleaseAfterFailure
<1>6. ASSUME NEW p \in Proposal,
             CreateTransactions(p) \/ CreatePczts(p) \/ CreateFails(p) \/ FinishStored(p)
      PROVE  Invisible
  BY <1>6 DEF Invisible, CreateTransactions, CreatePczts, CreateFails, FinishStored
<1>7. ASSUME NEW p \in Proposal,
             \/ StartBroadcast(p) \/ OpenRoute(p) \/ MarkBroadcastStarted(p)
             \/ StorePczts(p) \/ Retain(p)
      PROVE  Invisible
  BY <1>7 DEF Invisible, StartBroadcast, OpenRoute, MarkBroadcastStarted, StorePczts, Retain
<1>8. ASSUME NEW p \in Proposal, Ledger(p) \/ ShutdownRelease(p) PROVE Invisible
  BY <1>8 DEF Invisible, Ledger, Checkpoint, BroadcastOperation, RecordOutcome,
     ReclaimAfterBroadcast, Acknowledge, ShutdownRelease
<1>9. ASSUME RecoverBeforeBalance \/ RecoverPreviousProcess \/ BeginShutdown \/ Restart \/ SyncTip
      PROVE  Invisible
  BY <1>9 DEF Invisible, RecoverBeforeBalance, RecoverPreviousProcess, BeginShutdown, Restart,
     SyncTip
<1>10. ASSUME NEW n \in Note, MigrationLock(n) \/ MigrationUnlock(n) PROVE Invisible
  BY <1>10 DEF Invisible, MigrationLock, MigrationUnlock
<1>11. ASSUME UNCHANGED vars PROVE Invisible
  BY <1>11 DEF Invisible, vars
<1>12. ASSUME NEW p \in Proposal,
              Review(p) \/ Build(p) \/ Broadcast(p) \/ Ledger(p) \/ ShutdownRelease(p)
       PROVE  [Network!Next]_(Network!vars)
  BY <1>1, <1>2, <1>3, <1>5, <1>6, <1>7, <1>8, <1>12, InvisibleStutters
     DEF Review, Build, Broadcast
<1> QED
  BY <1>4, <1>9, <1>10, <1>11, <1>12, InvisibleStutters DEF Next

\* The initial states are those of SpendOnce.
LEMMA InitImplementsSpendOnce == Init => Network!Init
BY DEF Init, Network!Init, MaybeKnown

\* The send flows implement SpendOnce: whatever is cancelled, killed, retried
\* or recovered, the network never sees a payment composed anew, nor a payment
\* whose live rival it may already know.
THEOREM SendsImplementSpendOnce == Spec => SendsSpendOnce
<1>1. Init => Network!Init
  BY InitImplementsSpendOnce
<1>2. ReservationInv /\ ReservationInv' /\ NoConflictingSpends' /\ [Next]_vars
         => [Network!Next]_(Network!vars)
  BY StepImplementsSpendOnce
<1> QED
  BY <1>1, <1>2, ReservationsConsistent, SpendsNeverConflict, PTL
     DEF Spec, SendsSpendOnce, Network!Spec

----------------------------------------------------------------------------
(* What a step may never do.                                               *)

\* Only the two storing sections store.
LEMMA StoringSteps ==
    ASSUME Next
    PROVE  UNCHANGED stored \/ \E p \in Proposal : CreateTransactions(p) \/ StorePczts(p)
<1>1. ASSUME NEW p \in Proposal, Review(p) PROVE UNCHANGED stored
  BY <1>1 DEF Review, Propose, Consume, Discard, ReleaseAfterFailure
<1>2. ASSUME NEW p \in Proposal, Build(p), ~CreateTransactions(p) PROVE UNCHANGED stored
  BY <1>2 DEF Build, ReadLiveTip, CreatePczts, CreateFails, FinishStored
<1>3. ASSUME NEW p \in Proposal, Broadcast(p), ~StorePczts(p) PROVE UNCHANGED stored
  BY <1>3 DEF Broadcast, SendCreated, Resubmit, StartBroadcast, OpenRoute,
     MarkBroadcastStarted, SendPczt, Retain
<1>4. ASSUME NEW p \in Proposal, Ledger(p) \/ ShutdownRelease(p) PROVE UNCHANGED stored
  BY <1>4 DEF Ledger, Checkpoint, BroadcastOperation, RecordOutcome, ReclaimAfterBroadcast,
     Acknowledge, ShutdownRelease
<1>5. ASSUME RecoverBeforeBalance \/ RecoverPreviousProcess \/ BeginShutdown \/ Restart
             \/ AdvanceTip \/ SyncTip
      PROVE  UNCHANGED stored
  BY <1>5 DEF RecoverBeforeBalance, RecoverPreviousProcess, BeginShutdown, Restart, AdvanceTip,
     SyncTip
<1>6. ASSUME NEW n \in Note, MigrationLock(n) \/ MigrationUnlock(n) PROVE UNCHANGED stored
  BY <1>6 DEF MigrationLock, MigrationUnlock
<1> QED
  BY <1>1, <1>2, <1>3, <1>4, <1>5, <1>6 DEF Next

\* What a hardware flow stores is the prefix it counted as sent.
LEMMA StoresSentPrefix ==
    ASSUME ReservationInv, Next, NEW p \in Proposal, via[p] # "software", stored'[p] > stored[p]
    PROVE  stored'[p] <= net[p]
<1>0. stored \in [Proposal -> Nat] /\ sent \in [Proposal -> Nat] /\ net \in [Proposal -> Nat]
  BY BoundsAreNat DEF ReservationInv, TypeInv, TypeOK
<1>1. stored'[p] # stored[p]
  BY <1>0
<1>2. PICK q \in Proposal : CreateTransactions(q) \/ StorePczts(q)
  BY <1>1, StoringSteps
<1>3. CASE CreateTransactions(q)
  <2>1. q # p /\ stored' = [stored EXCEPT ![q] = stored'[q]]
    BY <1>0, <1>3 DEF CreateTransactions, StoreTransactions
  <2> QED
    BY <1>0, <1>1, <2>1
<1>4. CASE StorePczts(q)
  <2>1. pc[q] = "store" /\ stored'[q] \in {stored[q], sent[q]}
        /\ \A r \in Proposal : r # q => stored'[r] = stored[r]
    BY <1>0, <1>4 DEF StorePczts, StoreTransactions
  <2>2. q = p /\ stored'[p] = sent[p]
    BY <1>1, <2>1
  <2> QED
    BY <2>1, <2>2 DEF ReservationInv, SendingIsBacked
<1> QED
  BY <1>2, <1>3, <1>4

\* A hardware flow stores only what the network accepted or may have seen
\* (store_broadcast_pczts), whatever was rejected, resubmitted or restarted.
THEOREM StoredWasSent == Spec => StoresOnlyWhatWasSent
<1> DEFINE sentOnly == \A p \in Proposal :
             via[p] # "software" /\ stored'[p] > stored[p] => stored'[p] <= net[p]
<1>1. ReservationInv /\ [Next]_vars => [sentOnly]_vars
  BY StoresSentPrefix
<1> HIDE DEF sentOnly
<1>2. Spec => [][sentOnly]_vars
  BY <1>1, ReservationsConsistent, PTL DEF Spec
<1> QED
  BY <1>2 DEF StoresOnlyWhatWasSent, sentOnly

\* Nothing new happens to a proposal.
Idles(p) ==
    /\ net'[p] = net[p] /\ stored'[p] = stored[p] /\ outbox'[p] = outbox[p]
    /\ \A n \in Note : lock'[n].owner = p => lock[n].owner = p

\* A release or a recovery of whatever reservation takes no lock.
LEMMA ReleaseIdles ==
    ASSUME NEW p \in Proposal, UNCHANGED <<net, stored, outbox>>,
           (\E q \in Proposal : Releases(q)) \/ (\E c \in BOOLEAN : Recovers(c))
    PROVE  Idles(p)
<1>1. \A n \in Note : lock'[n] = lock[n] \/ lock'[n] = NoLock
  BY DEF Releases, Recovers
<1>2. NoLock.owner # p
  BY OwnersDiffer DEF NoLock
<1> QED
  BY <1>1, <1>2 DEF Idles

\* Each step of its own flow is past a check that a cancelled send fails, or
\* changes nothing that counts.
LEMMA CancelledFlowIdles ==
    ASSUME ReservationInv, NEW p \in Proposal, Cancelled(p),
           Review(p) \/ Build(p) \/ Broadcast(p) \/ Ledger(p) \/ ShutdownRelease(p)
    PROVE  Idles(p)
<1> USE DEF Cancelled, Idles, chain, store, facts, attempt
<1>0. /\ TypeInv /\ net \in [Proposal -> Nat] /\ stored \in [Proposal -> Nat]
      /\ outbox \in [Proposal -> {"none", "pending", "ack"}] /\ sent \in [Proposal -> Nat]
  BY BoundsAreNat DEF ReservationInv, TypeInv, TypeOK
<1>1. pc[p] \notin {"none", "send", "store", "record"} /\ p \notin locks
  <2>1. pc[p] = "record" => via[p] = "ledger"
    BY DEF ReservationInv, StepsMatchFlow
  <2>2. pc[p] \in {"send", "store", "record"} => via[p] # "ledger"
    BY DEF ReservationInv, StepsMatchFlow
  <2>3. pc[p] = "send" => via[p] # "software"
    BY <1>0 DEF ReservationInv, StepsMatchFacts
  <2>4. via[p] \in {"software", "keystone", "ledger"}
    BY DEF ReservationInv, TypeInv, TypeOK, Flows
  <2>5. pc[p] # "send"
    BY <2>2, <2>3, <2>4 DEF ReservationInv, SendingIsBacked
  <2>6. pc[p] # "store"
    <3>1. pc[p] = "store" => sent[p] > 0 /\ sent[p] <= net[p]
      BY DEF ReservationInv, TypeInv, SentCountOK, SendingIsBacked
    <3> QED
      BY <1>0, <3>1
  <2> QED
    BY <2>1, <2>2, <2>5, <2>6
<1>2. CASE Review(p)
  <2>1. CASE Propose(p)
    BY <1>1, <2>1 DEF Propose
  <2>2. CASE Consume(p)
    BY <2>2 DEF Consume
  <2>3. CASE Discard(p)
    BY <1>0, <2>3, DiscardEffect, ReleaseIdles DEF Discard
  <2>4. CASE ReleaseAfterFailure(p)
    BY <1>0, <2>4, FailureEffect, ReleaseIdles DEF ReleaseAfterFailure
  <2> QED
    BY <1>2, <2>1, <2>2, <2>3, <2>4 DEF Review
<1>3. CASE Build(p)
  BY <1>1, <1>3 DEF Build, ReadLiveTip, CreateTransactions, CreatePczts, CreateFails, FinishStored,
     MayCreate, MayProceed
<1>4. CASE Broadcast(p)
  <2>1. ~Resubmit(p)
    BY DEF Resubmit
  <2> QED
    BY <1>1, <1>4, <2>1 DEF Broadcast, SendCreated, StartBroadcast, OpenRoute, MarkBroadcastStarted,
       SendPczt, StorePczts, Retain
<1>5. CASE Ledger(p) /\ ~ReclaimAfterBroadcast(p)
  BY <1>1, <1>5 DEF Ledger, Checkpoint, BroadcastOperation, RecordOutcome, Acknowledge,
     MayCheckpoint
<1>6. CASE ReclaimAfterBroadcast(p)
  BY <1>0, <1>6, RecoverEffect, ReleaseIdles DEF ReclaimAfterBroadcast
<1>7. CASE ShutdownRelease(p)
  BY <1>0, <1>7, ShutdownEffect, ReleaseIdles DEF ShutdownRelease
<1> QED
  BY <1>2, <1>3, <1>4, <1>5, <1>6, <1>7

\* Another proposal's flow does not touch it.
LEMMA OtherFlowIdles ==
    ASSUME ReservationInv, NEW p \in Proposal, NEW q \in Proposal, p # q,
           Review(q) \/ Build(q) \/ Broadcast(q) \/ Ledger(q) \/ ShutdownRelease(q)
    PROVE  Idles(p)
<1> USE DEF Idles, chain, store, facts, attempt
<1>0. /\ TypeInv /\ net \in [Proposal -> Nat] /\ stored \in [Proposal -> Nat]
      /\ outbox \in [Proposal -> {"none", "pending", "ack"}]
  BY BoundsAreNat DEF ReservationInv, TypeInv, TypeOK
<1>2. CASE Review(q)
  <2>1. CASE Propose(q)
    BY <2>1 DEF Propose, LockOutputs
  <2>2. CASE Consume(q)
    BY <2>2 DEF Consume
  <2>3. CASE Discard(q)
    BY <1>0, <2>3, DiscardEffect, ReleaseIdles DEF Discard
  <2>4. CASE ReleaseAfterFailure(q)
    BY <1>0, <2>4, FailureEffect, ReleaseIdles DEF ReleaseAfterFailure
  <2> QED
    BY <1>2, <2>1, <2>2, <2>3, <2>4 DEF Review
<1>3. CASE Build(q)
  <2>1. CASE CreateTransactions(q)
    BY <1>0, <2>1, OwnersDiffer DEF CreateTransactions, StoreTransactions, Unlocked, NoLock
  <2>2. CASE CreatePczts(q)
    BY <2>2 DEF CreatePczts, LockOutputs
  <2>3. CASE CreateFails(q)
    BY <2>3 DEF CreateFails, LockOutputs
  <2> QED
    BY <1>3, <2>1, <2>2, <2>3 DEF Build, ReadLiveTip, FinishStored
<1>4. CASE Broadcast(q)
  <2>1. CASE StorePczts(q)
    BY <1>0, <2>1, OwnersDiffer DEF StorePczts, StoreTransactions, Unlocked, NoLock
  <2>2. CASE SendCreated(q) \/ Resubmit(q) \/ SendPczt(q)
    <3>1. net'[p] = net[p]
      BY <2>2, BroadcastsAreNetSteps
    <3> QED
      BY <2>2, <3>1 DEF SendCreated, Resubmit, SendPczt
  <2> QED
    BY <1>4, <2>1, <2>2 DEF Broadcast, StartBroadcast, OpenRoute, MarkBroadcastStarted, Retain
<1>5. CASE Ledger(q) /\ ~ReclaimAfterBroadcast(q)
  BY <1>0, <1>5 DEF Ledger, Checkpoint, BroadcastOperation, RecordOutcome, Acknowledge
<1>6. CASE ReclaimAfterBroadcast(q)
  BY <1>0, <1>6, RecoverEffect, ReleaseIdles DEF ReclaimAfterBroadcast
<1>7. CASE ShutdownRelease(q)
  BY <1>0, <1>7, ShutdownEffect, ReleaseIdles DEF ShutdownRelease
<1> QED
  BY <1>2, <1>3, <1>4, <1>5, <1>6, <1>7

\* Nor does anything else.
LEMMA RestIdles ==
    ASSUME ReservationInv, NEW p \in Proposal,
           \/ RecoverBeforeBalance \/ RecoverPreviousProcess \/ BeginShutdown \/ Restart
           \/ AdvanceTip \/ SyncTip
           \/ \E n \in Note : MigrationLock(n) \/ MigrationUnlock(n)
    PROVE  Idles(p)
<1> USE DEF Idles
<1>0. TypeInv
  BY DEF ReservationInv
<1>1. CASE RecoverBeforeBalance \/ RecoverPreviousProcess
  BY <1>0, <1>1, RecoverEffect, ReleaseIdles DEF RecoverBeforeBalance, RecoverPreviousProcess
<1>2. CASE BeginShutdown \/ Restart \/ AdvanceTip \/ SyncTip
  BY <1>2 DEF BeginShutdown, Restart, AdvanceTip, SyncTip
<1>3. CASE \E n \in Note : MigrationLock(n) \/ MigrationUnlock(n)
  BY <1>3, OwnersDiffer DEF MigrationLock, MigrationUnlock, LockOutputs, Unlocked, NoLock
<1> QED
  BY <1>1, <1>2, <1>3

\* A send that was cancelled while its flow waited for the network or the user
\* stays cancelled: nothing is stored, checkpointed, broadcast or locked again
\* (stored_proposal_lock, checkpoint_owner).
THEOREM CancelIsFinal == Spec => CancelledStaysCancelled
<1> DEFINE stays == \A p \in Proposal : Cancelled(p) =>
             /\ net'[p] = 0 /\ stored'[p] = 0 /\ outbox'[p] = "none"
             /\ \A n \in Note : lock'[n].owner = p => lock[n].owner = p
<1>1. ReservationInv /\ [Next]_vars => [stays]_vars
  <2> SUFFICES ASSUME ReservationInv, Next, NEW p \in Proposal, Cancelled(p) PROVE Idles(p)
    BY DEF Idles, Cancelled
  <2> QED
    BY CancelledFlowIdles, OtherFlowIdles, RestIdles DEF Next
<1> HIDE DEF stays
<1>2. Spec => [][stays]_vars
  BY <1>1, ReservationsConsistent, PTL DEF Spec
<1> QED
  BY <1>2 DEF CancelledStaysCancelled, stays
============================================================================
