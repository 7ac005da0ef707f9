---------------------- MODULE WalletSummaryCacheInv ----------------------
(* The inductive invariant of WalletSummaryCache.                          *)
EXTENDS WalletSummaryCache

Busy(r) == pc[r] \in {"check", "exists", "before", "load", "after"}

\* A reader in its critical section holds the mutex of its slot.
BusyHoldsSlot == \A r \in Reader : Busy(r) => guard[slot[r]] = r

\* What a stamp says: no section began since a summary with the live epoch was
\* loaded, so it reflects every commit.
StampsAreHonest ==
    \A s \in Slot : cached[s].full =>
        /\ Quiet(cached[s].epoch) /\ cached[s].epoch <= epoch
        /\ cached[s].epoch = epoch => cached[s].value = version

\* The same for a summary on its way from the load to the cache; one a reader is
\* about to serve is not taken away from it.
LoadsAreHonest ==
    \A r \in Reader :
        /\ since[r] <= version
        /\ pc[r] = "exists" =>
              cached[slot[r]].full /\ since[r] <= cached[slot[r]].value
        /\ pc[r] \in {"load", "after"} => before[r] <= epoch
        /\ pc[r] = "after" =>
              /\ since[r] <= loaded[r]
              /\ before[r] = epoch /\ Quiet(epoch) => loaded[r] = version

\* A slot that holds no summary of the deleted wallet and gets none.
Clean(s) == ~cached[s].full /\ \A q \in Reader : pc[q] = "after" => slot[q] # s

\* Slots found after the eviction are clean.
EvictionIsFinal ==
    /\ evicted => deleted
    /\ evicted /\ map # NoSlot => Clean(map)
    /\ \A r \in Reader : gone[r] => evicted
    /\ \A r \in Reader : gone[r] /\ pc[r] # "idle" => Clean(slot[r])

\* What TLAPS proves inductive: a summary in the cache or on its way there is
\* what its stamp says, and evicted slots stay unreachable.
CacheInv ==
    /\ TypeOK /\ BusyHoldsSlot /\ StampsAreHonest /\ LoadsAreHonest
    /\ EvictionIsFinal /\ ReadsAreFresh /\ DeletedIsNotServed
============================================================================
