------------------------ MODULE WalletSummaryCache ------------------------
(***************************************************************************)
(* The wallet-summary cache (rust/src/wallet/wallet_summary_cache.rs) and  *)
(* the write epoch it reads through (rust/src/wallet/db.rs).               *)
(*                                                                         *)
(* Sections that write the wallet database run under one mutex and make    *)
(* the epoch odd while they last.  A reader takes the mutex of the cache   *)
(* slot of its database, serves the cached summary if its stamp is the     *)
(* live, even epoch, and otherwise loads a summary and publishes it if no  *)
(* section overlapped the load.  Deleting an account or the whole wallet   *)
(* drops the slot from the map while readers may still hold it.            *)
(*                                                                         *)
(* One database and one network: the keys share nothing but the epoch.  A  *)
(* summary is abstracted to the number of commits it reflects.             *)
(***************************************************************************)
EXTENDS Integers

CONSTANTS
    Reader,       \* callers of get_wallet_summary_cached
    Writer,       \* callers of with_wallet_db_write_lock
    Slot,         \* Arc<Mutex<EntrySlot>> identities
    Nobody,       \* "mutex not held"
    NoSlot,       \* "no map entry"
    MaxCommits,   \* bound on commits
    MaxSections   \* bound on write sections

ASSUME NamesDiffer == Nobody \notin Reader \cup Writer /\ NoSlot \notin Slot

ASSUME LimitsAreNat == MaxCommits \in Nat /\ MaxSections \in Nat

VARIABLES
    epoch,     \* WALLET_DB_WRITE_EPOCH
    holder,    \* who holds WALLET_DB_WRITE_LOCK
    version,   \* commits the database reflects
    deleted,   \* the wallet was reset: its database is gone for good
    exists,    \* a file exists at the database's path
    evicted,   \* the cache was evicted after the deletion
    map,       \* the slot entry_map() holds for the key
    cached,    \* EntrySlot.cached
    guard,     \* who holds a slot's mutex
    pc,        \* where a reader is
    slot,      \* the slot a reader got from slot_for
    before,    \* epoch_before
    loaded,    \* the summary a reader loaded or was served
    since,     \* commits before the reader's call began
    gone       \* evicted when the reader's call began

database == <<epoch, holder, version, deleted, evicted>>
local == <<slot, before, loaded, since, gone>>
vars == <<epoch, holder, version, deleted, exists, evicted, map, cached, guard, pc,
          slot, before, loaded, since, gone>>

PCs == {"idle", "wait", "check", "exists", "before", "load", "after", "done"}

Entry == [full : BOOLEAN, epoch : Nat, value : Nat]

Empty == [full |-> FALSE, epoch |-> 0, value |-> 0]

\* Even values mean no write is in progress.
Quiet(e) == e % 2 = 0

----------------------------------------------------------------------------
(* Writers.                                                                *)

\* Wrong variant: the section leaves without its guard.
EpochLeaked(e) == e

\* WriteEpochGuard::drop, on every exit, unwinding included.
EpochDropped(e) == e + 1

\* with_wallet_db_write_lock and _until, once the mutex is acquired (a poisoned
\* one too); a section that gave up at its deadline changed nothing.
BeginWrite(w) ==
    /\ holder = Nobody /\ epoch < 2 * MaxSections
    /\ holder' = w
    /\ epoch' = epoch + 1
    /\ UNCHANGED <<version, deleted, exists, evicted, map, cached, guard, pc, local>>

\* A commit inside the section; readers see it at once.  What is written after
\* the reset goes to a file nobody reads a summary from.
Commit(w) ==
    /\ holder = w /\ ~deleted /\ version < MaxCommits
    /\ version' = version + 1
    /\ UNCHANGED <<epoch, holder, deleted, exists, evicted, map, cached, guard, pc, local>>

EndWrite(w) ==
    /\ holder = w
    /\ holder' = Nobody
    /\ epoch' = EpochDropped(epoch)
    /\ UNCHANGED <<version, deleted, exists, evicted, map, cached, guard, pc, local>>

----------------------------------------------------------------------------
(* Deletion.  resetWallet deletes the file and then evicts; delete_account *)
(* evicts inside its write section.                                        *)

DeleteDb ==
    /\ ~deleted
    /\ deleted' = TRUE /\ exists' = FALSE
    /\ UNCHANGED <<epoch, holder, version, evicted, map, cached, guard, pc, local>>

\* Connection::open creates the file it does not find.
RecreateFile ==
    /\ ~exists /\ exists' = TRUE
    /\ UNCHANGED <<database, map, cached, guard, pc, local>>

\* Wrong variant: the cached summary is cleared, the slot stays in the map.
EvictInPlace ==
    /\ evicted' = deleted
    /\ cached' = [s \in Slot |-> IF s = map THEN Empty ELSE cached[s]]
    /\ UNCHANGED <<epoch, holder, version, deleted, exists, map, guard, pc, local>>

\* evict_db: readers that hold the slot keep it, nobody else will find it.
Evict ==
    /\ evicted' = deleted
    /\ map' = NoSlot
    /\ UNCHANGED <<epoch, holder, version, deleted, exists, cached, guard, pc, local>>

----------------------------------------------------------------------------
(* Readers: get_or_load_with_epoch.                                        *)

\* Slots no reader refers to; a new slot is one of them.
Unused == {s \in Slot : \A q \in Reader : pc[q] = "idle" \/ slot[q] # s}

\* slot_for
Call(r) ==
    /\ pc[r] = "idle"
    /\ \/ map # NoSlot /\ slot' = [slot EXCEPT ![r] = map] /\ UNCHANGED <<map, cached>>
       \/ /\ map = NoSlot
          /\ \E s \in Unused :
                /\ map' = s
                /\ slot' = [slot EXCEPT ![r] = s]
                /\ cached' = [cached EXCEPT ![s] = Empty]
    /\ pc' = [pc EXCEPT ![r] = "wait"]
    /\ since' = [since EXCEPT ![r] = version]
    /\ gone' = [gone EXCEPT ![r] = evicted]
    /\ UNCHANGED <<database, exists, guard, before, loaded>>

\* slot.lock(), poisoned or not
Enter(r) ==
    /\ pc[r] = "wait" /\ guard[slot[r]] = Nobody
    /\ guard' = [guard EXCEPT ![slot[r]] = r]
    /\ pc' = [pc EXCEPT ![r] = "check"]
    /\ UNCHANGED <<database, exists, map, cached, local>>

Leave(r, where) ==
    /\ guard' = [guard EXCEPT ![slot[r]] = Nobody]
    /\ pc' = [pc EXCEPT ![r] = where]

\* Wrong variant: any summary of an even epoch is served.
HitIgnoresEpoch(c) == c.full /\ Quiet(epoch)

\* The stamp is the live epoch, and no write is in progress.
Hit(c) == c.full /\ c.epoch = epoch /\ Quiet(epoch)

\* The epoch is compared first; whether the file exists is asked later.
CheckEpoch(r) ==
    /\ pc[r] = "check" /\ Hit(cached[slot[r]])
    /\ pc' = [pc EXCEPT ![r] = "exists"]
    /\ UNCHANGED <<database, exists, map, cached, guard, local>>

ServeCached(r) ==
    /\ pc[r] = "exists" /\ exists
    /\ loaded' = [loaded EXCEPT ![r] = cached[slot[r]].value]
    /\ Leave(r, "done")
    /\ UNCHANGED <<database, exists, map, cached, slot, before, since, gone>>

Miss(r) ==
    /\ \/ pc[r] = "check" /\ ~Hit(cached[slot[r]])
       \/ pc[r] = "exists" /\ ~exists
    /\ cached' = [cached EXCEPT ![slot[r]] = Empty]
    /\ pc' = [pc EXCEPT ![r] = "before"]
    /\ UNCHANGED <<database, exists, map, guard, local>>

ReadEpoch(r) ==
    /\ pc[r] = "before"
    /\ before' = [before EXCEPT ![r] = epoch]
    /\ pc' = [pc EXCEPT ![r] = "load"]
    /\ UNCHANGED <<database, exists, map, cached, guard, slot, loaded, since, gone>>

\* loader(): one SQLite read transaction, between the two epoch reads.
Load(r) ==
    /\ pc[r] = "load" /\ ~deleted
    /\ loaded' = [loaded EXCEPT ![r] = version]
    /\ pc' = [pc EXCEPT ![r] = "after"]
    /\ UNCHANGED <<database, exists, map, cached, guard, slot, before, since, gone>>

\* An error, or a panic, leaves nothing cached.
LoadFails(r) ==
    /\ pc[r] = "load"
    /\ exists' \in {exists, TRUE}
    /\ cached' = [cached EXCEPT ![slot[r]] = Empty]
    /\ Leave(r, "idle")
    /\ UNCHANGED <<database, map, local>>

\* Wrong variant: the summary is stamped with the epoch read after the load.
PublishedLate(b, a, v) ==
    IF Quiet(a) THEN [full |-> TRUE, epoch |-> a, value |-> v] ELSE Empty

Published(b, a, v) ==
    IF b = a /\ Quiet(b) THEN [full |-> TRUE, epoch |-> b, value |-> v] ELSE Empty

Publish(r) ==
    /\ pc[r] = "after"
    /\ cached' = [cached EXCEPT ![slot[r]] = Published(before[r], epoch, loaded[r])]
    /\ Leave(r, "done")
    /\ UNCHANGED <<database, exists, map, local>>

Return(r) ==
    /\ pc[r] = "done"
    /\ pc' = [pc EXCEPT ![r] = "idle"]
    /\ UNCHANGED <<database, exists, map, cached, guard, local>>

----------------------------------------------------------------------------

Init ==
    /\ epoch = 0 /\ holder = Nobody /\ version = 0
    /\ deleted = FALSE /\ exists = TRUE /\ evicted = FALSE
    /\ map = NoSlot
    /\ cached = [s \in Slot |-> Empty] /\ guard = [s \in Slot |-> Nobody]
    /\ pc = [r \in Reader |-> "idle"] /\ slot = [r \in Reader |-> NoSlot]
    /\ before = [r \in Reader |-> 0] /\ loaded = [r \in Reader |-> 0]
    /\ since = [r \in Reader |-> 0] /\ gone = [r \in Reader |-> FALSE]

Write(w) == BeginWrite(w) \/ Commit(w) \/ EndWrite(w)

Read(r) ==
    \/ Call(r) \/ Enter(r) \/ CheckEpoch(r) \/ ServeCached(r) \/ Miss(r) \/ ReadEpoch(r)
    \/ Load(r) \/ LoadFails(r) \/ Publish(r) \/ Return(r)

Next ==
    \/ \E w \in Writer : Write(w)
    \/ \E r \in Reader : Read(r)
    \/ DeleteDb \/ RecreateFile \/ Evict

Spec == Init /\ [][Next]_vars

----------------------------------------------------------------------------
(* Properties.                                                             *)

\* Types; the epoch is odd exactly while a write section runs, and a reader past
\* its call refers to a slot.
TypeOK ==
    /\ epoch \in Nat /\ holder \in Writer \cup {Nobody} /\ version \in Nat
    /\ (holder = Nobody <=> Quiet(epoch))
    /\ deleted \in BOOLEAN /\ exists \in BOOLEAN /\ evicted \in BOOLEAN
    /\ map \in Slot \cup {NoSlot}
    /\ cached \in [Slot -> Entry] /\ guard \in [Slot -> Reader \cup {Nobody}]
    /\ pc \in [Reader -> PCs] /\ slot \in [Reader -> Slot \cup {NoSlot}]
    /\ before \in [Reader -> Nat] /\ loaded \in [Reader -> Nat]
    /\ since \in [Reader -> Nat] /\ gone \in [Reader -> BOOLEAN]
    /\ \A r \in Reader : pc[r] # "idle" => slot[r] \in Slot

\* A summary that is returned reflects every commit made before the call: no
\* screen shows a balance from before a send, a scan or a deletion it follows.
ReadsAreFresh == \A r \in Reader : pc[r] = "done" => loaded[r] >= since[r]

\* Once a deleted wallet was evicted, no later call returns its balances, not
\* even those a reader loaded earlier and publishes later, and not after some
\* open recreated the file.
DeletedIsNotServed == \A r \in Reader : pc[r] = "done" => ~gone[r]
============================================================================
