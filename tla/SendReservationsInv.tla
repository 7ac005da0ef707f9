----------------------- MODULE SendReservationsInv -----------------------
(* The inductive invariant behind the safety properties of                 *)
(* SendReservations.  The properties by themselves say nothing about the   *)
(* steps before a broadcast, so they are not inductive: the parts below    *)
(* follow a reservation from the moment its locks are taken.               *)
EXTENDS SendReservations

\* Nothing of the proposal is durable yet, and nothing was sent.
Early(p) ==
    \/ pc[p] \in {"review", "tip", "create", "sign"}
    \/ pc[p] \in {"route", "mark"} /\ via[p] = "keystone"

\* The transactions are built, their inputs locked up to their expiry.
Built(p) == Early(p) /\ pc[p] \in {"sign", "route", "mark"}

\* The transactions were sent, or can be sent without another check of the store.
Claims(p) ==
    \/ net[p] > 0
    \/ outbox[p] = "pending"
    \/ via[p] # "software" /\ pc[p] \in {"send", "store", "retain"}

\* The flow can still get past its next check of the store.
Going(p) == MayProceed(p) /\ (pc[p] = "review" => p \in proposals)

\* A flow has sent nothing before its broadcast starts, and while it is
\* sending there is a transaction left to send.  Only a proposal under review
\* can be consumed, and only the hardware flows store after sending.
SentCountOK ==
    \A p \in Proposal :
        /\ pc[p] = "send" => sent[p] < parts[p]
        /\ pc[p] = "store" => sent[p] > 0 /\ via[p] # "software"
        /\ p \in proposals => pc[p] = "review"
        /\ pc[p] \in {"none", "review", "tip", "create", "sign", "route", "mark", "idle"}
              => sent[p] = 0
        /\ pc[p] = "finish" /\ via[p] = "software" => sent[p] = 0

TypeInv == TypeOK /\ SentCountOK

\* Which steps belong to which flow, and what the Ledger outbox holds then.
StepsMatchFlow ==
    \A p \in Proposal :
        /\ pc[p] \in {"sign", "route"} => via[p] # "software"
        /\ pc[p] \in {"mark", "retain"} => via[p] = "keystone"
        /\ pc[p] \in {"record", "reclaim"} => via[p] = "ledger"
        /\ pc[p] = "finish" => via[p] # "ledger"
        /\ outbox[p] = "pending" => /\ via[p] = "ledger"
                                    /\ pc[p] \in {"idle", "route", "send", "store", "record", "reclaim"}
        /\ via[p] = "ledger" /\ pc[p] \in {"route", "send", "store", "record"}
              => outbox[p] = "pending"

\* What a flow knows at each step of what it stored, sent and was told.
StepsMatchFacts ==
    \A p \in Proposal :
        /\ pc[p] = "none" => row[p].phase = "none" /\ p \notin locks
        /\ pc[p] \in {"none", "release"} \/ Early(p)
              => net[p] = 0 /\ stored[p] = 0 /\ outbox[p] = "none"
        /\ pc[p] = "finish" => stored[p] > 0
        /\ pc[p] = "send" /\ via[p] = "software" => stored[p] > 0
        /\ pc[p] = "send" /\ via[p] = "keystone" => stored[p] = 0 /\ outbox[p] = "none"
        /\ pc[p] = "store" => outcome[p] \notin {"expired", "rejected"}
        /\ pc[p] = "record" /\ outcome[p] = "expired" => tip >= expiry[p]
        /\ pc[p] = "record" /\ outcome[p] = "rejected" => net[p] = 0 \/ stored[p] > 0
        /\ pc[p] = "record" /\ outcome[p] = "broadcasted" => stored[p] > 0

\* The capability and the row of an early proposal come and go together, and a
\* durable row is a retained one.
RowMatchesStore ==
    \A p \in Proposal :
        /\ Early(p) /\ p \in locks => row[p].phase = "session" /\ ~row[p].old
        /\ Early(p) /\ p \notin locks => row[p].phase = "none"
        /\ IsDurable(row[p]) => row[p].retain
        /\ Built(p) /\ p \in locks => row[p].expiry = expiry[p]

\* A finished proposal has no lock left.
FinishedHoldsNoLock ==
    \A p \in Proposal : pc[p] = "finish" => \A n \in Note : lock[n].owner # p

\* The hardware flows reach their critical section inside the lock window.
CreatesInTime ==
    \A p \in Proposal :
        pc[p] = "create" /\ via[p] # "software"
            => Target < SendProposalLockExpiry(minTarget[p])

\* A proposal on its way, before and after its transactions are built.
InWindow(p) ==
    /\ Going(p) /\ pc[p] \in {"review", "tip", "create"}
    /\ Target < SendProposalLockExpiry(minTarget[p])
ReadyToSend(p) == Going(p) /\ Built(p) /\ Live(p)

HoldsWindow(p) ==
    \A n \in inputs[p] : lock[n] = [owner |-> p, expiry |-> SendProposalLockExpiry(minTarget[p])]

\* It holds its inputs, first for the proposal's window and then up to the
\* expiry of its transactions.
GoingHoldsInputs ==
    \A p \in Proposal :
        (InWindow(p) => HoldsWindow(p)) /\ (ReadyToSend(p) => HoldsInputs(p))

UnstoredClaim(p) == Claims(p) /\ Live(p) /\ stored[p] = 0

\* A live claim that is not stored holds its inputs, under a row that outlives
\* this process and the next.
ClaimHoldsInputs ==
    \A p \in Proposal : UnstoredClaim(p) =>
        HoldsInputs(p) /\ IsDurable(row[p]) /\ row[p].expiry = expiry[p]

\* Stored live transactions keep their notes to themselves.
StoredIsExclusive ==
    /\ \A p \in Proposal : stored[p] > 0 /\ Live(p) => \A n \in inputs[p] : ~LockActive(n)
    /\ \A p, q \in Proposal :
          p # q /\ stored[p] > 0 /\ stored[q] > 0 /\ Live(p) /\ Live(q)
              => inputs[p] \cap inputs[q] = {}

\* A hardware attempt counts no transaction as sent that the network cannot
\* know, and while the Keystone flow sends, its row is one of this session
\* that no release and no recovery of this process takes.
SendingIsBacked ==
    \A p \in Proposal :
        /\ via[p] # "software" /\ pc[p] \in {"send", "store"} => sent[p] <= net[p]
        /\ via[p] = "keystone" /\ pc[p] = "send" => row[p].phase = "broadcast" /\ ~row[p].old

\* The conjunction TLAPS proves inductive: every reachable state keeps rows,
\* locks, outbox and flow steps consistent with each other.
ReservationInv ==
    /\ TypeInv /\ StepsMatchFlow /\ StepsMatchFacts /\ RowMatchesStore
    /\ LocksAreRecoverable /\ FinishedHoldsNoLock /\ CreatesInTime
    /\ GoingHoldsInputs /\ ClaimHoldsInputs /\ StoredIsExclusive /\ SendingIsBacked
----------------------------------------------------------------------------
(* The send flows implement SpendOnce: a payment is known once the network *)
(* may know a transaction of it.                                           *)

MaybeKnown == {p \in Proposal : net[p] > 0}

Network == INSTANCE SpendOnce WITH Payment <- Proposal, height <- tip, deadline <- expiry,
                                   known <- MaybeKnown

\* Seen from the network, every flow with its cancellations, crashes, retries
\* and recoveries behaves like SpendOnce: what a node may know is never
\* composed anew, and nothing is sent while a live rival may be known.
SendsSpendOnce == Network!Spec
============================================================================
