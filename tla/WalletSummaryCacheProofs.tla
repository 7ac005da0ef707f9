--------------------- MODULE WalletSummaryCacheProofs ---------------------
(* Proofs about WalletSummaryCache, for every set of readers, writers and  *)
(* slots and every bound.                                                  *)
EXTENDS WalletSummaryCacheInv, TLAPS

\* Each step of the epoch changes its parity (db.rs: WriteEpochGuard).
LEMMA Parity == \A n \in Nat : Quiet(n + 1) <=> ~Quiet(n)
  BY DEF Quiet

\* The empty slot slot_for creates is an entry.
LEMMA EmptyIsEntry == Empty \in Entry /\ ~Empty.full
  BY DEF Empty, Entry

\* What get_or_load_with_epoch leaves in the slot after a load.
LEMMA PublishedIsEntry ==
    \A b \in Nat, a \in Nat, v \in Nat :
        /\ Published(b, a, v) \in Entry
        /\ Published(b, a, v).full => b = a /\ Quiet(b)
        /\ Published(b, a, v).full =>
              Published(b, a, v).epoch = b /\ Published(b, a, v).value = v
  BY DEF Published, Entry, Empty

----------------------------------------------------------------------------
(* Write sections.                                                         *)

\* Opening a section makes every stamp and every load under way stale.
LEMMA BeginWriteKeeps ==
    ASSUME CacheInv, NEW w \in Writer, BeginWrite(w)
    PROVE  CacheInv'
  <1> USE DEF BeginWrite, local
  <1>0. epoch \in Nat /\ Quiet(epoch) /\ ~Quiet(epoch + 1) /\ w # Nobody
    BY Parity, NamesDiffer DEF CacheInv, TypeOK
  <1>1. TypeOK'
    BY <1>0 DEF CacheInv, TypeOK
  <1>2. BusyHoldsSlot'
    BY DEF CacheInv, BusyHoldsSlot, Busy
  <1>3. StampsAreHonest'
    BY <1>0 DEF CacheInv, TypeOK, StampsAreHonest, Entry
  <1>4. LoadsAreHonest'
    BY <1>0 DEF CacheInv, TypeOK, LoadsAreHonest
  <1>5. EvictionIsFinal' /\ ReadsAreFresh' /\ DeletedIsNotServed'
    BY DEF CacheInv, EvictionIsFinal, Clean, ReadsAreFresh, DeletedIsNotServed
  <1> QED BY <1>1, <1>2, <1>3, <1>4, <1>5 DEF CacheInv

\* A commit happens while the epoch is odd, so no stamp equals it.
LEMMA CommitKeeps ==
    ASSUME CacheInv, NEW w \in Writer, Commit(w)
    PROVE  CacheInv'
  <1> USE DEF Commit, local
  <1>0. epoch \in Nat /\ ~Quiet(epoch) /\ version \in Nat
    BY NamesDiffer DEF CacheInv, TypeOK
  <1>1. TypeOK'
    BY <1>0 DEF CacheInv, TypeOK
  <1>2. BusyHoldsSlot'
    BY DEF CacheInv, BusyHoldsSlot, Busy
  <1>3. StampsAreHonest'
    BY <1>0 DEF CacheInv, StampsAreHonest
  <1>4. LoadsAreHonest'
    BY <1>0 DEF CacheInv, TypeOK, LoadsAreHonest
  <1>5. EvictionIsFinal' /\ ReadsAreFresh' /\ DeletedIsNotServed'
    BY DEF CacheInv, EvictionIsFinal, Clean, ReadsAreFresh, DeletedIsNotServed
  <1> QED BY <1>1, <1>2, <1>3, <1>4, <1>5 DEF CacheInv

\* Closing a section gives an epoch no stamp and no load has seen.
LEMMA EndWriteKeeps ==
    ASSUME CacheInv, NEW w \in Writer, EndWrite(w)
    PROVE  CacheInv'
  <1> USE DEF EndWrite, EpochDropped, local
  <1>0. epoch \in Nat /\ ~Quiet(epoch) /\ Quiet(epoch + 1)
    BY Parity, NamesDiffer DEF CacheInv, TypeOK
  <1>1. TypeOK'
    BY <1>0 DEF CacheInv, TypeOK
  <1>2. BusyHoldsSlot'
    BY DEF CacheInv, BusyHoldsSlot, Busy
  <1>3. StampsAreHonest'
    BY <1>0 DEF CacheInv, TypeOK, StampsAreHonest, Entry
  <1>4. LoadsAreHonest'
    BY <1>0 DEF CacheInv, TypeOK, LoadsAreHonest
  <1>5. EvictionIsFinal' /\ ReadsAreFresh' /\ DeletedIsNotServed'
    BY DEF CacheInv, EvictionIsFinal, Clean, ReadsAreFresh, DeletedIsNotServed
  <1> QED BY <1>1, <1>2, <1>3, <1>4, <1>5 DEF CacheInv

----------------------------------------------------------------------------
(* Deletion.                                                               *)

\* Removing or recreating the file and evicting touch no slot; eviction leaves
\* no slot to be found (wallet_summary_cache.rs: evict_db).
LEMMA DeletionKeeps ==
    ASSUME CacheInv, DeleteDb \/ RecreateFile \/ Evict
    PROVE  CacheInv'
  <1> USE DEF DeleteDb, RecreateFile, Evict, database, local
  <1>1. TypeOK'
    BY DEF CacheInv, TypeOK
  <1>2. BusyHoldsSlot'
    BY DEF CacheInv, BusyHoldsSlot, Busy
  <1>3. StampsAreHonest'
    BY DEF CacheInv, StampsAreHonest
  <1>4. LoadsAreHonest'
    BY DEF CacheInv, LoadsAreHonest
  <1>5. EvictionIsFinal'
    BY DEF CacheInv, TypeOK, EvictionIsFinal, Clean
  <1>6. ReadsAreFresh' /\ DeletedIsNotServed'
    BY DEF CacheInv, ReadsAreFresh, DeletedIsNotServed
  <1> QED BY <1>1, <1>2, <1>3, <1>4, <1>5, <1>6 DEF CacheInv

----------------------------------------------------------------------------
(* Readers.                                                                *)

\* The slot's mutex is held by one reader (get_or_load_with_epoch).
LEMMA OneHolder ==
    ASSUME CacheInv, NEW r \in Reader, NEW q \in Reader, Busy(r), Busy(q), q # r
    PROVE  slot[q] # slot[r]
  BY DEF CacheInv, BusyHoldsSlot

\* A reader that works on a slot refers to one.
LEMMA BusyHasSlot ==
    ASSUME CacheInv, NEW r \in Reader, pc[r] # "idle"
    PROVE  slot[r] \in Slot
  BY DEF CacheInv, TypeOK

\* slot_for: the slot of the map, or an empty one nobody holds.
LEMMA CallKeeps ==
    ASSUME CacheInv, NEW r \in Reader, Call(r)
    PROVE  CacheInv'
  <1> USE DEF Call, database
  <1>1. TypeOK'
    BY EmptyIsEntry DEF CacheInv, TypeOK, Unused, PCs
  <1>2. BusyHoldsSlot'
    BY DEF CacheInv, TypeOK, BusyHoldsSlot, Busy, PCs
  <1>3. StampsAreHonest'
    BY EmptyIsEntry DEF CacheInv, TypeOK, StampsAreHonest
  <1>4. LoadsAreHonest'
    BY EmptyIsEntry DEF CacheInv, TypeOK, LoadsAreHonest, Unused, PCs
  <1>5. EvictionIsFinal'
    BY EmptyIsEntry DEF CacheInv, TypeOK, EvictionIsFinal, Clean, Unused, PCs
  <1>6. ReadsAreFresh' /\ DeletedIsNotServed'
    BY DEF CacheInv, TypeOK, ReadsAreFresh, DeletedIsNotServed
  <1> QED BY <1>1, <1>2, <1>3, <1>4, <1>5, <1>6 DEF CacheInv

\* Taking the slot's mutex.
LEMMA EnterKeeps ==
    ASSUME CacheInv, NEW r \in Reader, Enter(r)
    PROVE  CacheInv'
  <1> USE DEF Enter, database, local
  <1>0. slot[r] \in Slot
    BY BusyHasSlot
  <1>1. TypeOK'
    BY <1>0 DEF CacheInv, TypeOK, PCs
  <1>2. BusyHoldsSlot'
    BY <1>0, NamesDiffer DEF CacheInv, TypeOK, BusyHoldsSlot, Busy
  <1>3. StampsAreHonest' /\ LoadsAreHonest'
    BY DEF CacheInv, TypeOK, StampsAreHonest, LoadsAreHonest
  <1>4. EvictionIsFinal'
    BY DEF CacheInv, TypeOK, EvictionIsFinal, Clean
  <1>5. ReadsAreFresh' /\ DeletedIsNotServed'
    BY DEF CacheInv, TypeOK, ReadsAreFresh, DeletedIsNotServed
  <1> QED BY <1>1, <1>2, <1>3, <1>4, <1>5 DEF CacheInv

\* A matching stamp: the cached summary reflects every commit so far.
LEMMA CheckEpochKeeps ==
    ASSUME CacheInv, NEW r \in Reader, CheckEpoch(r)
    PROVE  CacheInv'
  <1> USE DEF CheckEpoch, database, local
  <1>0. slot[r] \in Slot
    BY BusyHasSlot
  <1>1. TypeOK'
    BY DEF CacheInv, TypeOK, PCs
  <1>2. BusyHoldsSlot'
    BY DEF CacheInv, TypeOK, BusyHoldsSlot, Busy
  <1>3. StampsAreHonest'
    BY DEF CacheInv, StampsAreHonest
  <1>4. LoadsAreHonest'
    BY <1>0 DEF CacheInv, TypeOK, StampsAreHonest, LoadsAreHonest, Hit
  <1>5. EvictionIsFinal'
    BY DEF CacheInv, TypeOK, EvictionIsFinal, Clean
  <1>6. ReadsAreFresh' /\ DeletedIsNotServed'
    BY DEF CacheInv, TypeOK, ReadsAreFresh, DeletedIsNotServed
  <1> QED BY <1>1, <1>2, <1>3, <1>4, <1>5, <1>6 DEF CacheInv

\* The cached summary is returned; nobody replaced it since the epoch was
\* compared, and a slot found after the eviction has none.
LEMMA ServeCachedKeeps ==
    ASSUME CacheInv, NEW r \in Reader, ServeCached(r)
    PROVE  CacheInv'
  <1> USE DEF ServeCached, Leave, database
  <1>0. slot[r] \in Slot /\ Busy(r)
    BY BusyHasSlot DEF Busy
  <1>1. TypeOK'
    BY <1>0 DEF CacheInv, TypeOK, PCs, Entry
  <1>2. BusyHoldsSlot'
    BY <1>0, OneHolder DEF CacheInv, TypeOK, BusyHoldsSlot, Busy
  <1>3. StampsAreHonest'
    BY DEF CacheInv, StampsAreHonest
  <1>4. LoadsAreHonest'
    BY DEF CacheInv, TypeOK, LoadsAreHonest
  <1>5. EvictionIsFinal'
    BY DEF CacheInv, TypeOK, EvictionIsFinal, Clean
  <1>6. ReadsAreFresh'
    BY <1>0 DEF CacheInv, TypeOK, ReadsAreFresh, LoadsAreHonest, Entry
  <1>7. DeletedIsNotServed'
    BY DEF CacheInv, TypeOK, DeletedIsNotServed, EvictionIsFinal, Clean, LoadsAreHonest
  <1> QED BY <1>1, <1>2, <1>3, <1>4, <1>5, <1>6, <1>7 DEF CacheInv

\* A stale or missing summary is cleared.
LEMMA MissKeeps ==
    ASSUME CacheInv, NEW r \in Reader, Miss(r)
    PROVE  CacheInv'
  <1> USE DEF Miss, database, local
  <1>0. slot[r] \in Slot /\ Busy(r)
    BY BusyHasSlot DEF Busy
  <1>1. TypeOK'
    BY EmptyIsEntry DEF CacheInv, TypeOK, PCs
  <1>2. BusyHoldsSlot'
    BY DEF CacheInv, TypeOK, BusyHoldsSlot, Busy
  <1>3. StampsAreHonest'
    BY EmptyIsEntry DEF CacheInv, TypeOK, StampsAreHonest
  <1>4. LoadsAreHonest'
    BY <1>0, OneHolder DEF CacheInv, TypeOK, LoadsAreHonest, Busy
  <1>5. EvictionIsFinal'
    BY <1>0, EmptyIsEntry DEF CacheInv, TypeOK, EvictionIsFinal, Clean
  <1>6. ReadsAreFresh' /\ DeletedIsNotServed'
    BY DEF CacheInv, TypeOK, ReadsAreFresh, DeletedIsNotServed
  <1> QED BY <1>1, <1>2, <1>3, <1>4, <1>5, <1>6 DEF CacheInv

\* The epoch before the load, and the load itself.
LEMMA LoadKeeps ==
    ASSUME CacheInv, NEW r \in Reader, ReadEpoch(r) \/ Load(r)
    PROVE  CacheInv'
  <1> USE DEF ReadEpoch, Load, database
  <1>1. TypeOK'
    BY DEF CacheInv, TypeOK, PCs
  <1>2. BusyHoldsSlot'
    BY DEF CacheInv, TypeOK, BusyHoldsSlot, Busy
  <1>3. StampsAreHonest'
    BY DEF CacheInv, StampsAreHonest
  <1>4. LoadsAreHonest'
    BY DEF CacheInv, TypeOK, LoadsAreHonest
  <1>5. EvictionIsFinal'
    BY DEF CacheInv, TypeOK, EvictionIsFinal, Clean
  <1>6. ReadsAreFresh' /\ DeletedIsNotServed'
    BY DEF CacheInv, TypeOK, ReadsAreFresh, DeletedIsNotServed
  <1> QED BY <1>1, <1>2, <1>3, <1>4, <1>5, <1>6 DEF CacheInv

\* An error leaves the slot empty and free.
LEMMA LoadFailsKeeps ==
    ASSUME CacheInv, NEW r \in Reader, LoadFails(r)
    PROVE  CacheInv'
  <1> USE DEF LoadFails, Leave, database, local
  <1>0. slot[r] \in Slot /\ Busy(r)
    BY BusyHasSlot DEF Busy
  <1>1. TypeOK'
    BY <1>0, EmptyIsEntry DEF CacheInv, TypeOK, PCs
  <1>2. BusyHoldsSlot'
    BY <1>0, OneHolder DEF CacheInv, TypeOK, BusyHoldsSlot, Busy
  <1>3. StampsAreHonest'
    BY EmptyIsEntry DEF CacheInv, TypeOK, StampsAreHonest
  <1>4. LoadsAreHonest'
    BY <1>0, OneHolder DEF CacheInv, TypeOK, LoadsAreHonest, Busy
  <1>5. EvictionIsFinal'
    BY <1>0, EmptyIsEntry DEF CacheInv, TypeOK, EvictionIsFinal, Clean
  <1>6. ReadsAreFresh' /\ DeletedIsNotServed'
    BY DEF CacheInv, TypeOK, ReadsAreFresh, DeletedIsNotServed
  <1> QED BY <1>1, <1>2, <1>3, <1>4, <1>5, <1>6 DEF CacheInv

\* A summary is published with the epoch under which it was loaded, and only
\* into a slot that no call after the eviction finds.
LEMMA PublishKeeps ==
    ASSUME CacheInv, NEW r \in Reader, Publish(r)
    PROVE  CacheInv'
  <1> USE DEF Publish, Leave, database, local
  <1> DEFINE new == Published(before[r], epoch, loaded[r])
  <1>0. slot[r] \in Slot /\ Busy(r)
    BY BusyHasSlot DEF Busy
  <1>a. before[r] \in Nat /\ epoch \in Nat /\ loaded[r] \in Nat
    BY DEF CacheInv, TypeOK
  <1>b. /\ new \in Entry
        /\ new.full => before[r] = epoch /\ Quiet(before[r])
        /\ new.full => new.epoch = before[r] /\ new.value = loaded[r]
    BY <1>a, PublishedIsEntry
  <1> HIDE DEF new
  <1>c. cached' = [cached EXCEPT ![slot[r]] = new]
    BY DEF new
  <1>1. TypeOK'
    BY <1>0, <1>b, <1>c DEF CacheInv, TypeOK, PCs
  <1>2. BusyHoldsSlot'
    BY <1>0, OneHolder DEF CacheInv, TypeOK, BusyHoldsSlot, Busy
  <1>3. StampsAreHonest'
    BY <1>0, <1>a, <1>b, <1>c DEF CacheInv, TypeOK, StampsAreHonest, LoadsAreHonest
  <1>4. LoadsAreHonest'
    BY <1>0, <1>c, OneHolder DEF CacheInv, TypeOK, LoadsAreHonest, Busy
  <1>5. EvictionIsFinal'
    BY <1>0, <1>c DEF CacheInv, TypeOK, EvictionIsFinal, Clean
  <1>6. ReadsAreFresh'
    BY DEF CacheInv, TypeOK, ReadsAreFresh, LoadsAreHonest
  <1>7. DeletedIsNotServed'
    BY DEF CacheInv, TypeOK, DeletedIsNotServed, EvictionIsFinal, Clean
  <1> QED BY <1>1, <1>2, <1>3, <1>4, <1>5, <1>6, <1>7 DEF CacheInv

\* The summary reaches the caller.
LEMMA ReturnKeeps ==
    ASSUME CacheInv, NEW r \in Reader, Return(r)
    PROVE  CacheInv'
  <1> USE DEF Return, database, local
  <1>1. TypeOK' /\ BusyHoldsSlot'
    BY DEF CacheInv, TypeOK, PCs, BusyHoldsSlot, Busy
  <1>2. StampsAreHonest' /\ LoadsAreHonest'
    BY DEF CacheInv, TypeOK, StampsAreHonest, LoadsAreHonest
  <1>3. EvictionIsFinal'
    BY DEF CacheInv, TypeOK, EvictionIsFinal, Clean
  <1>4. ReadsAreFresh' /\ DeletedIsNotServed'
    BY DEF CacheInv, TypeOK, ReadsAreFresh, DeletedIsNotServed
  <1> QED BY <1>1, <1>2, <1>3, <1>4 DEF CacheInv

----------------------------------------------------------------------------
(* The theorems.                                                           *)

\* The program starts with an empty cache and an even epoch.
LEMMA InitHolds == Init => CacheInv
  <1> SUFFICES ASSUME Init PROVE CacheInv
    OBVIOUS
  <1>0. Quiet(0)
    BY DEF Quiet
  <1>1. TypeOK
    BY <1>0, EmptyIsEntry DEF Init, TypeOK, PCs
  <1>2. BusyHoldsSlot /\ StampsAreHonest /\ LoadsAreHonest
    BY EmptyIsEntry DEF Init, BusyHoldsSlot, Busy, StampsAreHonest, LoadsAreHonest
  <1>3. EvictionIsFinal /\ ReadsAreFresh /\ DeletedIsNotServed
    BY DEF Init, EvictionIsFinal, ReadsAreFresh, DeletedIsNotServed
  <1> QED BY <1>1, <1>2, <1>3 DEF CacheInv

\* Every step of a writer, a reader or a reset preserves the invariant.
LEMMA StepKeeps == CacheInv /\ [Next]_vars => CacheInv'
  <1> SUFFICES ASSUME CacheInv, [Next]_vars PROVE CacheInv'
    OBVIOUS
  <1>1. ASSUME NEW w \in Writer, Write(w) PROVE CacheInv'
    BY <1>1, BeginWriteKeeps, CommitKeeps, EndWriteKeeps DEF Write
  <1>2. ASSUME NEW r \in Reader, Read(r) PROVE CacheInv'
    BY <1>2, CallKeeps, EnterKeeps, CheckEpochKeeps, ServeCachedKeeps, MissKeeps,
       LoadKeeps, LoadFailsKeeps, PublishKeeps, ReturnKeeps DEF Read
  <1>3. ASSUME DeleteDb \/ RecreateFile \/ Evict PROVE CacheInv'
    BY <1>3, DeletionKeeps
  <1>4. CASE UNCHANGED vars
    <2>1. TypeOK' /\ BusyHoldsSlot' /\ StampsAreHonest' /\ LoadsAreHonest'
      BY <1>4 DEF vars, CacheInv, TypeOK, BusyHoldsSlot, Busy, StampsAreHonest,
                  LoadsAreHonest
    <2>2. EvictionIsFinal' /\ ReadsAreFresh' /\ DeletedIsNotServed'
      BY <1>4 DEF vars, CacheInv, EvictionIsFinal, Clean, ReadsAreFresh,
                  DeletedIsNotServed
    <2> QED BY <2>1, <2>2 DEF CacheInv
  <1> QED BY <1>1, <1>2, <1>3, <1>4 DEF Next

\* The invariant holds in every reachable state: a stamp equal to the live, even
\* epoch means that no commit is missing (wallet_summary_cache.rs:117-144).
THEOREM CacheStaysHonest == Spec => []CacheInv
  BY InitHolds, StepKeeps, PTL DEF Spec

\* The slots, stamps, mutex holders and reader steps keep their types.
THEOREM CacheTypeCorrect == Spec => []TypeOK
  <1>1. CacheInv => TypeOK
    BY DEF CacheInv
  <1> QED BY <1>1, CacheStaysHonest, PTL

\* get_wallet_summary_cached never returns a summary that misses a commit made
\* before the call.
THEOREM ReadsStayFresh == Spec => []ReadsAreFresh
  <1>1. CacheInv => ReadsAreFresh
    BY DEF CacheInv
  <1> QED BY <1>1, CacheStaysHonest, PTL

\* After evict_db, no call returns a summary of the deleted wallet.
THEOREM DeletedStaysUnserved == Spec => []DeletedIsNotServed
  <1>1. CacheInv => DeletedIsNotServed
    BY DEF CacheInv
  <1> QED BY <1>1, CacheStaysHonest, PTL
============================================================================
