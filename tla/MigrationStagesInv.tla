------------------------- MODULE MigrationStagesInv -------------------------
(***************************************************************************)
(* The inductive invariant of MigrationStages.                             *)
(*                                                                         *)
(* What a thread holds over a commit or an await may be out of date.  The  *)
(* invariant says what of it can still be relied on, and who is on the way *)
(* to repair the rest.                                                     *)
(***************************************************************************)
EXTENDS MigrationStages

RecSteps == {"idle", "read", "children", "stages", "phase", "end", "confirm"}
Recs == [pc : RecSteps, affected : SUBSET Stage, invalid : SUBSET Stage,
         found : [Stage -> Block], tip : 0 .. MaxHeight]

PassSteps == {"idle", "reconcile", "recover", "adopt", "record", "expiry", "retire", "live", "attempt", "submit", "answer",
              "mark", "prove", "promote", "finish"}
PendingRow == [s : Stage, proof : SUBSET Block, notBefore : 0 .. MaxHeight + MaxDelay]
Passes == [pc : PassSteps, await : {"no", "yes", "some", "proved"}, rest : SUBSET Stage,
           found : Block, pending : SUBSET PendingRow, tip : 0 .. MaxHeight, outcome : {"none", "accepted", "rejected", "ambiguous"}]

ThreadType == rec \in [Thread -> Recs] /\ pass \in Passes

\* Where a pass works with one row.
Chosen == {"adopt", "record", "attempt", "submit", "answer", "mark", "promote"}

\* Where a pass may find stages that were reset and are mined, and where it
\* looks for them.
BeforeRecovery == {"idle", "reconcile", "finish"}
Recovering == {"recover", "adopt", "record"}

Holding == {"children", "stages"}

PassShape ==
    /\ pass.pc \in Chosen => pass.pending # {}
    /\ pass.pc \in {"adopt", "record"} => pass.found # NoBlock
    /\ rec["foreground"].pc # "idle" => pass.pc \in {"reconcile", "finish"}

\* The network knows no transaction whose attempt is not on disk, and a
\* rejected transaction is unknown until its attempt is cleared.
AttemptInv ==
    /\ \A s \in Stage : Known(s) => stage[s].tried
    /\ pass.pc = "submit" => stage[tx.s].tried
    /\ pass.pc = "answer" /\ pass.outcome = "rejected" => ~Known(tx.s)

\* What a reconciliation holds.  That of the sync thread is up to date: the
\* wallet is not scanned again before it ends.
HoldInv ==
    /\ \A t \in Thread : rec[t].invalid \subseteq rec[t].affected
    /\ \A t \in Thread : rec[t].pc = "confirm" => \A s \in Stage : rec[t].found[s] # NoBlock
    /\ rec["sync"].pc \in Holding \cup {"confirm"} =>
          \A s \in Stage : rec["sync"].found[s] \in {NoBlock, seen[s]}
    /\ rec["sync"].pc \in Holding => \A s \in rec["sync"].invalid : seen[s] = NoBlock

\* A stage that is on the scanned chain is recorded as confirmed, unless the
\* sync thread is about to record it, or the foreground thread has reset it
\* and will look again before it proves anything, or it is recording it.
SeenInv ==
    rec["sync"].pc # "read" =>
        \A s \in Stage : seen[s] # NoBlock =>
            \/ stage[s].status = "confirmed"
            \/ stage[s].status = "awaiting_inputs" /\ pass.pc \in BeforeRecovery
            \/ stage[s].status = "awaiting_inputs" /\ pass.pc \in Recovering /\ s \in pass.rest
            \/ pass.pc = "record" /\ s = tx.s
            \/ rec["sync"].pc \in Holding /\ rec["sync"].found[s] = seen[s]

\* Of the stages a confirmation has read, one that is no longer on the scanned
\* chain was reset, so that it is refused, or is about to be.
ConfirmInv ==
    rec["foreground"].pc = "confirm" =>
        \A s \in Stage : seen[s] = NoBlock =>
            \/ stage[s].status = "awaiting_inputs"
            \/ rec["sync"].pc = "read" /\ stage[s].status = "confirmed"
            \/ rec["sync"].pc \in Holding /\ s \in rec["sync"].invalid

\* A thread that will make the run wait again.
WillWait(t) == rec[t].pc \in {"children", "stages", "phase"} /\ rec[t].affected # {}

\* A run that is ready has all its stages, or a thread is on its way to make
\* it wait again.
ReadyInv ==
    phase = "ready_to_migrate" =>
        \A s \in Stage :
            \/ stage[s].status = "confirmed" /\ seen[s] # NoBlock
            \/ \E t \in Thread : WillWait(t)
            \/ rec["sync"].pc = "read" /\ s \in Moved

\* Without a restart, and while the run is not retired, the threads together
\* keep the table after the scanned chain.
ThreadsInv == SeenInv /\ ConfirmInv /\ ReadyInv

StageInv ==
    /\ TypeOK /\ ThreadType /\ PassShape /\ AttemptInv /\ HoldInv
    /\ crashes = 0 /\ phase \notin Terminal => ThreadsInv
============================================================================
