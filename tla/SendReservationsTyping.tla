---------------------- MODULE SendReservationsTyping ----------------------
(* Type correctness of SendReservations for every set of proposals and     *)
(* notes, every lock window and every bound.  TypeOK needs SentCountOK: a  *)
(* flow may count a transaction as sent only while there is one left.      *)
EXTENDS SendReservationsInv, TLAPS

\* A removed row has the type of a row.
LEMMA NoRowType == NoRow \in Row
BY DEF NoRow, Row, Phases

\* A cleared lock has the type of a lock.
LEMMA NoLockType == NoLock \in Lock
BY DEF NoLock, Lock, Owners

\* persist writes a row.
LEMMA SessionRowType == ASSUME NEW e \in Nat PROVE SessionRow(e) \in Row
BY DEF SessionRow, Row, Phases

\* Every UPDATE of the side table maps rows to rows.
LEMMA RowUpdateTypes ==
    ASSUME NEW r \in Row
    PROVE  /\ RetainedRow(r) \in Row /\ SignedRow(r) \in Row /\ ReleasedRow(r) \in Row
           /\ [r EXCEPT !.old = TRUE] \in Row
           /\ \A e \in Nat : [r EXCEPT !.expiry = e] \in Row
BY DEF RetainedRow, SignedRow, ReleasedRow, Row, Phases

\* Unlocking maps locks to locks.
LEMMA UnlockedType == ASSUME TypeOK PROVE \A P, S : Unlocked(P, S) \in [Note -> Lock]
BY NoLockType DEF TypeOK, Unlocked

\* lock_outputs maps locks to locks.
LEMMA LockOutputsType ==
    ASSUME TypeOK, NEW o \in Owners, NEW S, NEW e \in Nat, LockOutputs(o, S, e)
    PROVE  lock' \in [Note -> Lock]
BY DEF TypeOK, LockOutputs, Lock

\* What the sections write back to the side table.
LEMMA RowTypes ==
    ASSUME TypeInv, NEW p \in Proposal
    PROVE  /\ [row EXCEPT ![p] = NoRow] \in [Proposal -> Row]
           /\ [row EXCEPT ![p] = RetainedRow(row[p])] \in [Proposal -> Row]
           /\ [row EXCEPT ![p] = SignedRow(row[p])] \in [Proposal -> Row]
           /\ [row EXCEPT ![p] = ReleasedRow(row[p])] \in [Proposal -> Row]
           /\ [row EXCEPT ![p].expiry = expiry[p]] \in [Proposal -> Row]
<1>1. row \in [Proposal -> Row] /\ row[p] \in Row /\ expiry[p] \in Nat
  BY DEF TypeInv, TypeOK
<1>2. /\ RetainedRow(row[p]) \in Row /\ SignedRow(row[p]) \in Row /\ ReleasedRow(row[p]) \in Row
      /\ [row[p] EXCEPT !.expiry = expiry[p]] \in Row
  BY <1>1, RowUpdateTypes
<1> QED
  BY <1>1, <1>2, NoRowType

\* A release, complete or torn, keeps the types of what it touches.
LEMMA UnlockTypes ==
    ASSUME TypeInv, NEW p \in Proposal, UnlockCompletes(p) \/ UnlockTears(p)
    PROVE  lock' \in [Note -> Lock] /\ row' \in [Proposal -> Row] /\ locks' \subseteq Proposal
<1>1. \A P, S : Unlocked(P, S) \in [Note -> Lock]
  BY UnlockedType DEF TypeInv
<1>2. lock' \in [Note -> Lock]
  BY <1>1 DEF UnlockCompletes, UnlockTears
<1>3. row \in [Proposal -> Row] /\ locks \subseteq Proposal
  BY DEF TypeInv, TypeOK
<1> QED
  BY <1>2, <1>3, RowTypes DEF UnlockCompletes, UnlockTears

\* A recovery pass, complete or torn, keeps the types of what it touches.
LEMMA RecoverTypes ==
    ASSUME TypeInv, NEW c \in BOOLEAN, Recover(c)
    PROVE  lock' \in [Note -> Lock] /\ row' \in [Proposal -> Row]
<1>1. \A P, S : Unlocked(P, S) \in [Note -> Lock]
  BY UnlockedType DEF TypeInv
<1>2. lock' \in [Note -> Lock]
  BY <1>1 DEF Recover, RecoverCompletes, RecoverTears
<1>3. row \in [Proposal -> Row]
  BY DEF TypeInv, TypeOK
<1> QED
  BY <1>2, <1>3, NoRowType DEF Recover, RecoverCompletes, RecoverTears

\* A flow that ends resets its own variables.
LEMMA EndFlowTypes ==
    ASSUME TypeInv, NEW p \in Proposal, EndFlow(p)
    PROVE  /\ pc' \in [Proposal -> PCs] /\ sent' \in [Proposal -> 0..MaxParts]
           /\ outcome' \in [Proposal -> Outcomes]
<1>1. pc' \in [Proposal -> PCs] /\ outcome' \in [Proposal -> Outcomes]
  BY DEF TypeInv, TypeOK, EndFlow, PCs, Outcomes
<1> QED
  BY <1>1, BoundsAreNat DEF TypeInv, TypeOK, EndFlow

\* The initial state has the right types.
LEMMA InitTypeInv == Init => TypeInv
<1> SUFFICES ASSUME Init PROVE TypeInv
  OBVIOUS
<1>1. tip \in Nat /\ wtip \in Nat /\ wtip <= tip
  BY DEF Init
<1>2. /\ net \in [Proposal -> 0..MaxParts] /\ stored \in [Proposal -> 0..MaxParts]
      /\ sent \in [Proposal -> 0..MaxParts] /\ parts \in [Proposal -> 1..MaxParts]
      /\ minTarget \in [Proposal -> Nat] /\ expiry \in [Proposal -> Nat]
  BY BoundsAreNat DEF Init
<1>3. lock \in [Note -> Lock] /\ row \in [Proposal -> Row]
  BY NoRowType, NoLockType DEF Init
<1>4. /\ outbox \in [Proposal -> {"none", "pending", "ack"}]
      /\ pc \in [Proposal -> PCs] /\ via \in [Proposal -> Flows]
      /\ outcome \in [Proposal -> Outcomes]
  BY DEF Init, PCs, Flows, Outcomes
<1>5. /\ proposals \subseteq Proposal /\ locks \subseteq Proposal /\ shutting \in BOOLEAN
      /\ inputs \in [Proposal -> SUBSET Note]
  BY DEF Init
<1>6. SentCountOK
  BY DEF Init, SentCountOK
<1> QED
  BY <1>1, <1>2, <1>3, <1>4, <1>5, <1>6 DEF TypeInv, TypeOK

\* Propose keeps the types.
LEMMA TypePropose == ASSUME TypeInv, NEW p \in Proposal, Propose(p) PROVE TypeInv'
BY SessionRowType, LockOutputsType, BoundsAreNat DEF TypeInv, TypeOK, SentCountOK,
     Propose, Target, SendProposalLockExpiry, Owners, PCs, chain, store, facts, attempt

\* Consume keeps the types.
LEMMA TypeConsume == ASSUME TypeInv, NEW p \in Proposal, Consume(p) PROVE TypeInv'
<1>1. pc' \in [Proposal -> PCs] /\ via' \in [Proposal -> Flows]
  BY DEF TypeInv, TypeOK, Consume, PCs
<1>2. pc[p] = "review" => sent[p] = 0
  BY DEF TypeInv, SentCountOK
<1> QED
  BY <1>1, <1>2 DEF TypeInv, TypeOK, SentCountOK, Consume, PCs, chain, store, facts,
       attempt

\* Discard keeps the types.
LEMMA TypeDiscard == ASSUME TypeInv, NEW p \in Proposal, Discard(p) PROVE TypeInv'
<1>1. lock' \in [Note -> Lock] /\ row' \in [Proposal -> Row] /\ locks' \subseteq Proposal
  BY UnlockTypes DEF TypeInv, TypeOK, Discard
<1> QED
  BY <1>1 DEF TypeInv, TypeOK, SentCountOK, Discard, InFlight, PCs, chain, store,
       facts, attempt

\* ReleaseAfterFailure keeps the types.
LEMMA TypeReleaseAfterFailure == ASSUME TypeInv, NEW p \in Proposal,
     ReleaseAfterFailure(p) PROVE TypeInv'
<1>1. lock' \in [Note -> Lock] /\ row' \in [Proposal -> Row] /\ locks' \subseteq Proposal
  BY UnlockTypes DEF TypeInv, TypeOK, ReleaseAfterFailure
<1>2. /\ pc' \in [Proposal -> PCs] /\ sent' \in [Proposal -> 0..MaxParts]
      /\ outcome' \in [Proposal -> Outcomes]
  BY EndFlowTypes DEF ReleaseAfterFailure
<1> QED
  BY <1>1, <1>2 DEF TypeInv, TypeOK, SentCountOK, ReleaseAfterFailure, EndFlow,
       chain, store, facts, attempt

\* ReadLiveTip keeps the types.
LEMMA TypeReadLiveTip == ASSUME TypeInv, NEW p \in Proposal,
     ReadLiveTip(p) PROVE TypeInv'
BY BoundsAreNat DEF TypeInv, TypeOK, SentCountOK, ReadLiveTip, RecentTips, LiveExpiry, PCs,
     chain, store, facts, attempt

\* CreateTransactions keeps the types.
LEMMA TypeCreateTransactions == ASSUME TypeInv, NEW p \in Proposal,
     CreateTransactions(p) PROVE TypeInv'
<1>1. row' \in [Proposal -> Row]
  BY RowTypes DEF TypeInv, TypeOK, CreateTransactions
<1>2. lock' \in [Note -> Lock]
  BY UnlockedType DEF TypeInv, TypeOK, CreateTransactions, StoreTransactions
<1>3. stored' \in [Proposal -> 0..MaxParts]
  BY BoundsAreNat DEF TypeInv, TypeOK, CreateTransactions, StoreTransactions
<1>4. pc' \in [Proposal -> PCs]
  BY DEF TypeInv, TypeOK, CreateTransactions, PCs
<1>5. SentCountOK'
  BY DEF TypeInv, TypeOK, SentCountOK, CreateTransactions, store, facts, attempt
<1> QED
  BY <1>1, <1>2, <1>3, <1>4, <1>5 DEF TypeInv, TypeOK, SentCountOK,
       CreateTransactions, chain, store, facts, attempt

\* CreatePczts keeps the types.
LEMMA TypeCreatePczts == ASSUME TypeInv, NEW p \in Proposal,
     CreatePczts(p) PROVE TypeInv'
BY RowUpdateTypes, LockOutputsType DEF TypeInv, TypeOK, SentCountOK, CreatePczts,
     Owners, PCs, chain, store, facts, attempt

\* CreateFails keeps the types.
LEMMA TypeCreateFails == ASSUME TypeInv, NEW p \in Proposal,
     CreateFails(p) PROVE TypeInv'
<1>1. row' \in [Proposal -> Row]
  BY RowTypes DEF TypeInv, TypeOK, CreateFails
<1>2. lock' \in [Note -> Lock]
  BY LockOutputsType DEF TypeInv, TypeOK, CreateFails, Owners
<1> QED
  BY <1>1, <1>2 DEF TypeInv, TypeOK, SentCountOK, CreateFails, PCs, chain, store,
       facts, attempt

\* FinishStored keeps the types.
LEMMA TypeFinishStored == ASSUME TypeInv, NEW p \in Proposal,
     FinishStored(p) PROVE TypeInv'
BY NoRowType, BoundsAreNat DEF TypeInv, TypeOK, SentCountOK, FinishStored, EndFlow,
     PCs, Outcomes, chain, store, facts, attempt

\* SendCreated keeps the types.
LEMMA TypeSendCreated == ASSUME TypeInv, NEW p \in Proposal,
     SendCreated(p) PROVE TypeInv'
BY BoundsAreNat DEF TypeInv, TypeOK, SentCountOK, SendCreated, Reached, EndFlow, PCs,
     Outcomes, chain, store, facts, attempt

\* Resubmit keeps the types.
LEMMA TypeResubmit == ASSUME TypeInv, NEW p \in Proposal, Resubmit(p) PROVE TypeInv'
BY BoundsAreNat DEF TypeInv, TypeOK, SentCountOK, Resubmit, Reached, chain, store,
     facts, attempt

\* StartBroadcast keeps the types.
LEMMA TypeStartBroadcast == ASSUME TypeInv, NEW p \in Proposal,
     StartBroadcast(p) PROVE TypeInv'
BY DEF TypeInv, TypeOK, SentCountOK, StartBroadcast, PCs, chain, store, facts, attempt

\* OpenRoute keeps the types.
LEMMA TypeOpenRoute == ASSUME TypeInv, NEW p \in Proposal, OpenRoute(p) PROVE TypeInv'
BY BoundsAreNat DEF TypeInv, TypeOK, SentCountOK, OpenRoute, PCs, Outcomes, chain,
     store, facts, attempt

\* MarkBroadcastStarted keeps the types.
LEMMA TypeMarkBroadcastStarted == ASSUME TypeInv, NEW p \in Proposal,
     MarkBroadcastStarted(p) PROVE TypeInv'
<1>1. row \in [Proposal -> Row]
  BY DEF TypeInv, TypeOK
<1>2. row' \in [Proposal -> Row]
  BY <1>1, RowTypes DEF MarkBroadcastStarted
<1> QED
  BY <1>1, <1>2, BoundsAreNat DEF TypeInv, TypeOK, SentCountOK, MarkBroadcastStarted,
       EndFlow, PCs, Outcomes, chain, store, facts, attempt

\* SendPczt keeps the types.
LEMMA TypeSendPczt == ASSUME TypeInv, NEW p \in Proposal, SendPczt(p) PROVE TypeInv'
BY BoundsAreNat DEF TypeInv, TypeOK, SentCountOK, SendPczt, BroadcastStep, Answers,
     Reached, PCs, Outcomes, chain, store, facts, attempt

\* StorePczts keeps the types.
LEMMA TypeStorePczts == ASSUME TypeInv, NEW p \in Proposal, StorePczts(p) PROVE TypeInv'
<1>1. lock' \in [Note -> Lock]
  BY UnlockedType DEF TypeInv, TypeOK, StorePczts, StoreTransactions
<1>2. stored' \in [Proposal -> 0..MaxParts]
  BY BoundsAreNat DEF TypeInv, TypeOK, StorePczts, StoreTransactions
<1>3. pc' \in [Proposal -> PCs] /\ outcome' \in [Proposal -> Outcomes]
  BY DEF TypeInv, TypeOK, StorePczts, PCs, Outcomes
<1>4. SentCountOK'
  BY DEF TypeInv, TypeOK, SentCountOK, StorePczts, store, facts
<1> QED
  BY <1>1, <1>2, <1>3, <1>4 DEF TypeInv, TypeOK, SentCountOK, StorePczts, chain,
       store, facts, attempt

\* Retain keeps the types.
LEMMA TypeRetain == ASSUME TypeInv, NEW p \in Proposal, Retain(p) PROVE TypeInv'
<1>1. row \in [Proposal -> Row]
  BY DEF TypeInv, TypeOK
<1>2. row' \in [Proposal -> Row]
  BY <1>1, RowTypes DEF Retain, RetainUntilExpiry
<1>3. /\ pc' \in [Proposal -> PCs] /\ sent' \in [Proposal -> 0..MaxParts]
      /\ outcome' \in [Proposal -> Outcomes]
  BY EndFlowTypes DEF Retain
<1> QED
  BY <1>1, <1>2, <1>3 DEF TypeInv, TypeOK, SentCountOK, Retain, RetainUntilExpiry,
       EndFlow, chain, store, facts, attempt

\* Checkpoint keeps the types.
LEMMA TypeCheckpoint == ASSUME TypeInv, NEW p \in Proposal, Checkpoint(p) PROVE TypeInv'
<1>1. row \in [Proposal -> Row]
  BY DEF TypeInv, TypeOK
<1>2. row' \in [Proposal -> Row]
  BY <1>1, RowTypes DEF Checkpoint
<1>3. /\ pc' \in [Proposal -> PCs] /\ sent' \in [Proposal -> 0..MaxParts]
      /\ outcome' \in [Proposal -> Outcomes]
  BY EndFlowTypes DEF Checkpoint
<1> QED
  BY <1>1, <1>2, <1>3 DEF TypeInv, TypeOK, SentCountOK, Checkpoint, EndFlow, chain,
       store, facts, attempt

\* BroadcastOperation keeps the types.
LEMMA TypeBroadcastOperation == ASSUME TypeInv, NEW p \in Proposal,
     BroadcastOperation(p) PROVE TypeInv'
BY DEF TypeInv, TypeOK, SentCountOK, BroadcastOperation, PCs, chain, store, facts,
     attempt

\* RecordOutcome keeps the types.
LEMMA TypeRecordOutcome == ASSUME TypeInv, NEW p \in Proposal,
     RecordOutcome(p) PROVE TypeInv'
<1>1. row \in [Proposal -> Row]
  BY DEF TypeInv, TypeOK
<1>2. row' \in [Proposal -> Row]
  BY <1>1, RowTypes DEF RecordOutcome
<1> QED
  BY <1>1, <1>2 DEF TypeInv, TypeOK, SentCountOK, RecordOutcome, PCs, chain, store,
       facts, attempt

\* ReclaimAfterBroadcast keeps the types.
LEMMA TypeReclaimAfterBroadcast == ASSUME TypeInv, NEW p \in Proposal,
     ReclaimAfterBroadcast(p) PROVE TypeInv'
<1>1. lock' \in [Note -> Lock] /\ row' \in [Proposal -> Row]
  BY RecoverTypes DEF ReclaimAfterBroadcast
<1>2. /\ pc' \in [Proposal -> PCs] /\ sent' \in [Proposal -> 0..MaxParts]
      /\ outcome' \in [Proposal -> Outcomes]
  BY EndFlowTypes DEF ReclaimAfterBroadcast
<1> QED
  BY <1>1, <1>2 DEF TypeInv, TypeOK, SentCountOK, ReclaimAfterBroadcast, EndFlow,
       chain, store, facts, attempt

\* Acknowledge keeps the types.
LEMMA TypeAcknowledge == ASSUME TypeInv, NEW p \in Proposal,
     Acknowledge(p) PROVE TypeInv'
BY DEF TypeInv, TypeOK, SentCountOK, Acknowledge, chain, store, facts, attempt

\* ShutdownRelease keeps the types.
LEMMA TypeShutdownRelease == ASSUME TypeInv, NEW p \in Proposal,
     ShutdownRelease(p) PROVE TypeInv'
BY UnlockedType, NoRowType DEF TypeInv, TypeOK, SentCountOK, ShutdownRelease,
     UnlockCompletes, UnlockTears, chain, store, facts, attempt

\* RecoverBeforeBalance keeps the types.
LEMMA TypeRecoverBeforeBalance == ASSUME TypeInv, RecoverBeforeBalance PROVE TypeInv'
<1>1. lock' \in [Note -> Lock] /\ row' \in [Proposal -> Row]
  BY RecoverTypes DEF RecoverBeforeBalance
<1> QED
  BY <1>1 DEF TypeInv, TypeOK, SentCountOK, RecoverBeforeBalance, chain, store,
       facts, attempt

\* RecoverPreviousProcess keeps the types.
LEMMA TypeRecoverPreviousProcess == ASSUME TypeInv,
     RecoverPreviousProcess PROVE TypeInv'
<1>1. lock' \in [Note -> Lock] /\ row' \in [Proposal -> Row]
  BY RecoverTypes DEF RecoverPreviousProcess
<1> QED
  BY <1>1 DEF TypeInv, TypeOK, SentCountOK, RecoverPreviousProcess, chain, store,
       facts, attempt

\* BeginShutdown keeps the types.
LEMMA TypeBeginShutdown == ASSUME TypeInv, BeginShutdown PROVE TypeInv'
BY DEF TypeInv, TypeOK, SentCountOK, BeginShutdown, chain, store, facts, attempt

\* Restart keeps the types.
LEMMA TypeRestart == ASSUME TypeInv, Restart PROVE TypeInv'
<1>1. row' \in [Proposal -> Row]
  BY RowUpdateTypes DEF TypeInv, TypeOK, Restart
<1>2. pc' \in [Proposal -> PCs] /\ outcome' \in [Proposal -> Outcomes]
  BY DEF TypeInv, TypeOK, Restart, PCs, Outcomes
<1>3. sent' \in [Proposal -> 0..MaxParts]
  BY BoundsAreNat DEF Restart
<1>4. SentCountOK'
  BY DEF TypeInv, TypeOK, SentCountOK, Restart, facts
<1> QED
  BY <1>1, <1>2, <1>3, <1>4 DEF TypeInv, TypeOK, SentCountOK, Restart, chain, store,
       facts, attempt

\* AdvanceTip keeps the types.
LEMMA TypeAdvanceTip == ASSUME TypeInv, AdvanceTip PROVE TypeInv'
BY DEF TypeInv, TypeOK, SentCountOK, AdvanceTip, chain, store, facts, attempt

\* SyncTip keeps the types.
LEMMA TypeSyncTip == ASSUME TypeInv, SyncTip PROVE TypeInv'
BY DEF TypeInv, TypeOK, SentCountOK, SyncTip, chain, store, facts, attempt

\* MigrationLock keeps the types.
LEMMA TypeMigrationLock == ASSUME TypeInv, NEW n \in Note,
     MigrationLock(n) PROVE TypeInv'
<1>1. TypeOK /\ MigrationLockExpiry \in Nat /\ Migration \in Owners
  BY BoundsAreNat DEF TypeInv, TypeOK, MigrationLockExpiry, Owners
<1>2. lock' \in [Note -> Lock]
  BY <1>1, LockOutputsType DEF MigrationLock
<1> QED
  BY <1>1, <1>2 DEF TypeInv, TypeOK, SentCountOK, MigrationLock, chain, store, facts,
       attempt

\* MigrationUnlock keeps the types.
LEMMA TypeMigrationUnlock == ASSUME TypeInv, NEW n \in Note,
     MigrationUnlock(n) PROVE TypeInv'
BY UnlockedType DEF TypeInv, TypeOK, SentCountOK, MigrationUnlock, chain, store,
     facts, attempt

\* Every step of the system keeps the types.
LEMMA TypeStep == ASSUME TypeInv, [Next]_vars PROVE TypeInv'
<1>1. CASE Next
  BY <1>1, TypePropose, TypeConsume, TypeDiscard, TypeReleaseAfterFailure,
       TypeReadLiveTip, TypeCreateTransactions, TypeCreatePczts, TypeCreateFails,
            TypeFinishStored, TypeSendCreated, TypeResubmit, TypeStartBroadcast,
                 TypeOpenRoute, TypeMarkBroadcastStarted, TypeSendPczt,
                      TypeStorePczts, TypeRetain, TypeCheckpoint,
                           TypeBroadcastOperation, TypeRecordOutcome,
                                TypeReclaimAfterBroadcast, TypeAcknowledge,
                                     TypeShutdownRelease, TypeRecoverBeforeBalance,
                                          TypeRecoverPreviousProcess,
                                               TypeBeginShutdown, TypeRestart,
                                                    TypeAdvanceTip, TypeSyncTip,
                                                         TypeMigrationLock,
                                                              TypeMigrationUnlock DEF Next, Review, Build, Broadcast, Ledger
<1>2. CASE UNCHANGED vars
  BY <1>2 DEF TypeInv, TypeOK, SentCountOK, vars
<1> QED
  BY <1>1, <1>2

\* The store, the side table, the outbox and the flows always hold values of
\* their types, and the wallet's chain tip is never ahead of the chain.
THEOREM TypeCorrect == Spec => []TypeOK
<1>1. Init => TypeInv
  BY InitTypeInv
<1>2. TypeInv /\ [Next]_vars => TypeInv'
  BY TypeStep
<1>3. TypeInv => TypeOK
  BY DEF TypeInv
<1> QED
  BY <1>1, <1>2, <1>3, PTL DEF Spec
============================================================================
