-------------------------- MODULE MigrationStages --------------------------
(***************************************************************************)
(* The preparation stages of an Ironwood migration                         *)
(* (rust/src/wallet/sync/migration/stages.rs, the reconciliation in        *)
(* migration.rs, and advance_staged_denomination_run).                     *)
(*                                                                         *)
(* A stage is a signed transaction that splits notes.  A root spends notes *)
(* the wallet has; another stage spends outputs of its parents and is      *)
(* proved once they are scanned.  Its transaction id is fixed when it is   *)
(* signed, its proof is not: when a reorganization moves a parent, the     *)
(* dependents that are not mined themselves are proved again.              *)
(*                                                                         *)
(* reconcile_denomination_stage_chain_state reads the table and the        *)
(* scanned chain and then commits three times.  It runs at the end of      *)
(* every scan and inside the foreground pass, so two may overlap.  The     *)
(* transfers that spend prepared notes are in MigrationTransfers; here the *)
(* run has none yet.                                                       *)
(***************************************************************************)
EXTENDS Integers, FiniteSets

CONSTANTS
    Stage,      \* the stages of the run
    Parent,     \* the stages whose outputs a stage spends
    Final,      \* the stages with prepared notes
    Expiry,     \* expiry height of each stage
    Depth,      \* denomination_confirmations_required
    MaxDelay,   \* bound on a redrawn delay
    MaxHeight,  \* bound on the chain
    MaxForks,   \* bound on reorganizations
    MaxCrashes  \* bound on restarts

ASSUME StageConstants ==
    /\ Parent \in [Stage -> SUBSET Stage] /\ Final \subseteq Stage
    /\ Expiry \in [Stage -> Nat]
    /\ Depth \in Nat \ {0} /\ MaxDelay \in Nat /\ MaxHeight \in Nat \ {0} /\ MaxForks \in Nat /\ MaxCrashes \in Nat

VARIABLES
    phase,     \* phase of the run
    stage,     \* the stages table
    tip,       \* height of the chain
    mined,     \* the chain: where each stage is included
    scanned,   \* height the wallet has scanned
    seen,      \* the wallet: where each stage is included
    mempool,   \* stages whose transaction waits to be mined, with its proof
    rec,       \* the reconciliation of each thread
    pass,      \* the foreground pass
    forks,     \* reorganizations so far
    crashes    \* restarts so far

vars == <<phase, stage, tip, mined, mempool, scanned, seen, rec, pass, forks, crashes>>

faults == <<forks, crashes>>
network == <<tip, mined, mempool>>
wallet == <<scanned, seen>>

Thread == {"foreground", "sync"}
Terminal == {"failed_terminal"}

\* A block on one of the forks; NoBlock when there is none.
Block == [at : 0 .. MaxHeight, fork : 0 .. MaxForks]
NoBlock == [at |-> 0, fork |-> 0]

Row == [status : {"awaiting_inputs", "pending", "broadcasted", "confirmed"},
        tried : BOOLEAN, ident : Block, proof : SUBSET Block,
        notBefore : 0 .. MaxHeight + MaxDelay]

NoRec == [pc |-> "idle", affected |-> {}, invalid |-> {}, found |-> [s \in Stage |-> NoBlock],
          tip |-> 0]

\* What a pass holds over its awaits and commits: whether stages awaited their
\* inputs, those it has not looked up yet and the inclusion it found, and the
\* pending rows it read (one row once it has chosen).
NoPass == [pc |-> "idle", await |-> "no", rest |-> {}, found |-> NoBlock, pending |-> {},
           tip |-> 0, outcome |-> "none"]

TypeOK ==
    /\ phase \in {"waiting_denom_confirmations", "ready_to_migrate"} \cup Terminal
    /\ stage \in [Stage -> Row]
    /\ tip \in 1 .. MaxHeight /\ scanned \in 0 .. tip
    /\ mined \in [Stage -> Block] /\ seen \in [Stage -> Block]
    /\ mempool \subseteq Stage \X SUBSET Block
    /\ forks \in 0 .. MaxForks /\ crashes \in 0 .. MaxCrashes
    /\ \A s \in Stage : stage[s].status = "confirmed" <=> stage[s].ident # NoBlock

\* Roots are proved when the run is created, the others wait for their inputs.
Init ==
    /\ phase = "waiting_denom_confirmations"
    /\ stage = [s \in Stage |->
          [status |-> IF Parent[s] = {} THEN "pending" ELSE "awaiting_inputs", tried |-> FALSE,
           ident |-> NoBlock, proof |-> {}, notBefore |-> 0]]
    /\ tip = 1 /\ scanned = 1
    /\ mined = [s \in Stage |-> NoBlock] /\ seen = mined
    /\ mempool = {}
    /\ rec = [t \in Thread |-> NoRec] /\ pass = NoPass /\ forks = 0 /\ crashes = 0
----------------------------------------------------------------------------
(* reconcile_denomination_stage_chain_state                                *)

\* Stages that were confirmed and are not where they were.
Moved == {s \in Stage : stage[s].status = "confirmed" /\ stage[s].ident # seen[s]}

\* The moved stages and everything that spends from them.
Affected ==
    {s \in Stage : \A a \in SUBSET Stage :
        /\ Moved \subseteq a
        /\ \A d \in Stage : Parent[d] \cap a # {} => d \in a
        => s \in a}

\* A reconciliation that has nothing to do ends at once.
ReadChain(t) ==
    /\ rec[t].pc = "read"
    /\ LET found == [s \in Stage |-> IF stage[s].ident # seen[s] THEN seen[s] ELSE NoBlock]
           recovered == {s \in Stage : stage[s].status = "pending" /\ seen[s] # NoBlock}
       IN  \E h \in IF recovered = {} THEN {0} ELSE scanned .. tip :
             rec' = [rec EXCEPT ![t] =
                [pc |-> IF Affected # {} THEN "children"
                        ELSE IF \E s \in Stage : found[s] # NoBlock THEN "stages" ELSE "end",
                 affected |-> Affected, invalid |-> {s \in Affected : seen[s] = NoBlock},
                 found |-> found, tip |-> h]]
    /\ UNCHANGED <<phase, stage, network, wallet, pass, faults>>

\* reset_migration_children_for_reorged_denominations: the prepared notes of
\* an affected stage lose their nullifiers and the run waits again.
ResetChildren(t) ==
    /\ rec[t].pc = "children"
    /\ phase' = IF phase \notin Terminal /\ rec[t].affected \cap Final # {}
                THEN "waiting_denom_confirmations" ELSE phase
    /\ rec' = [rec EXCEPT ![t].pc = "stages"]
    /\ UNCHANGED <<stage, network, wallet, pass, faults>>

\* rerandomize_remaining_preparation_broadcast_heights
Redrawn(rows, h, d) ==
    [s \in Stage |->
        IF rows[s].status \in {"awaiting_inputs", "pending"} /\ h + d > rows[s].notBefore
        THEN [rows[s] EXCEPT !.notBefore = h + d] ELSE rows[s]]

\* Mutant: a reset keeps the inclusion.
KeepsInclusion(t, s) ==
    IF s \in rec[t].invalid THEN [stage[s] EXCEPT !.status = "awaiting_inputs", !.proof = {}]
    ELSE IF rec[t].found[s] # NoBlock
    THEN [stage[s] EXCEPT !.status = "confirmed", !.ident = rec[t].found[s]]
    ELSE stage[s]

\* Mutant: a reset forgets the broadcast attempt.
ForgetsAttempt(t, s) ==
    IF s \in rec[t].invalid
    THEN [stage[s] EXCEPT !.status = "awaiting_inputs", !.ident = NoBlock, !.proof = {},
                          !.tried = FALSE]
    ELSE IF rec[t].found[s] # NoBlock
    THEN [stage[s] EXCEPT !.status = "confirmed", !.ident = rec[t].found[s]]
    ELSE stage[s]

\* reset_denomination_stage_exact and
\* replace_denomination_stage_confirmation_identity
ReconciledStage(t, s) ==
    IF s \in rec[t].invalid
    THEN [stage[s] EXCEPT !.status = "awaiting_inputs", !.ident = NoBlock, !.proof = {}]
    ELSE IF rec[t].found[s] # NoBlock
    THEN [stage[s] EXCEPT !.status = "confirmed", !.ident = rec[t].found[s]]
    ELSE stage[s]

\* The second commit.  The broadcast of a pending stage found on the chain
\* was not recorded: the delays of the others start again.
ReconcileStages(t) ==
    /\ rec[t].pc = "stages"
    /\ IF phase \in Terminal
       THEN UNCHANGED stage /\ rec' = [rec EXCEPT ![t].pc = "end"]
       ELSE LET rows == [s \in Stage |-> ReconciledStage(t, s)]
                recovered == {s \in Stage : rec[t].found[s] # NoBlock /\ stage[s].status = "pending"}
            IN  /\ IF rec[t].tip = 0 \/ recovered = {} THEN stage' = rows
                   ELSE \E d \in 0 .. MaxDelay : stage' = Redrawn(rows, rec[t].tip, d)
                /\ rec' = [rec EXCEPT ![t].pc = IF rec[t].affected # {} THEN "phase" ELSE "end"]
    /\ UNCHANGED <<phase, network, wallet, pass, faults>>

\* The third commit.
WaitAgain(t) ==
    /\ rec[t].pc = "phase"
    /\ phase' = IF phase \in Terminal THEN phase ELSE "waiting_denom_confirmations"
    /\ rec' = [rec EXCEPT ![t].pc = "end"]
    /\ UNCHANGED <<stage, network, wallet, pass, faults>>

Reconcile(t) == ReadChain(t) \/ ResetChildren(t) \/ ReconcileStages(t) \/ WaitAgain(t)
----------------------------------------------------------------------------
(* reconcile_denomination_confirmations                                    *)

Deep(s) == seen[s] # NoBlock /\ scanned - seen[s].at + 1 >= Depth

AllDeep == \A s \in Stage : Deep(s)

\* Every planned stage has its inclusion read,
ReadDepth(t) ==
    /\ rec[t].pc = "end"
    /\ t = "foreground" => pass.pc = "finish"
    /\ IF phase = "waiting_denom_confirmations" /\ AllDeep
       THEN /\ rec' = [rec EXCEPT ![t] = [NoRec EXCEPT !.pc = "confirm", !.found = seen]]
            /\ UNCHANGED pass
       ELSE /\ rec' = [rec EXCEPT ![t] = NoRec]
            /\ pass' = IF t = "foreground" THEN NoPass ELSE pass
    /\ UNCHANGED <<phase, stage, network, wallet, faults>>

\* Mutant: a stage that was reset meanwhile is marked too.
MarksReset(t, s) == stage[s].status = "confirmed" /\ stage[s].ident # rec[t].found[s]

\* mark_denomination_stage_confirmed_at refuses a stage that was reset or
\* recorded elsewhere ...
Refused(t, s) ==
    \/ stage[s].status = "awaiting_inputs"
    \/ stage[s].status = "confirmed" /\ stage[s].ident # rec[t].found[s]

\* ... and the run then stays waiting.
ConfirmStages(t) ==
    /\ rec[t].pc = "confirm"
    /\ LET found == rec[t].found
           refused == {s \in Stage : Refused(t, s)}
       IN  \E marked \in IF refused = {} THEN {Stage} ELSE SUBSET (Stage \ refused) :
             /\ stage' = [s \in Stage |->
                   IF s \in marked
                   THEN [stage[s] EXCEPT !.status = "confirmed", !.ident = found[s]] ELSE stage[s]]
             /\ phase' = IF refused = {} /\ phase = "waiting_denom_confirmations"
                         THEN "ready_to_migrate" ELSE phase
    /\ rec' = [rec EXCEPT ![t] = NoRec]
    /\ pass' = IF t = "foreground" THEN NoPass ELSE pass
    /\ UNCHANGED <<network, wallet, faults>>

Confirm(t) == ReadDepth(t) \/ ConfirmStages(t)

\* The scanner catches up (external), then reconcile_wallet_locks_after_sync
\* runs for the active run.
Scan ==
    /\ rec["sync"].pc = "idle" /\ <<scanned, seen>> # <<tip, mined>>
    /\ scanned' = tip /\ seen' = mined
    /\ rec' = IF phase \in Terminal THEN rec ELSE [rec EXCEPT !["sync"].pc = "read"]
    /\ UNCHANGED <<phase, stage, network, pass, faults>>
----------------------------------------------------------------------------
(* advance_staged_denomination_run                                         *)

Goto(pc) == pass' = [pass EXCEPT !.pc = pc]
Return == pass' = NoPass

\* The row the pass is sending or proving.
tx == CHOOSE p \in pass.pending : TRUE

Unconfirmed == {s \in Stage : stage[s].status # "confirmed"}

\* Mutant: a stage that was sent is never counted.
ExpiredUnsent(h) == {s \in Unconfirmed : Expiry[s] <= h /\ stage[s].status # "broadcasted"}

\* expired_denomination_stage_count
Expired(h) == {s \in Unconfirmed : Expiry[s] <= h}

\* denomination_stage_broadcast_readiness
Due(pending, h) == {p \in pending : p.notBefore <= h /\ Expiry[p.s] > h}

Advance ==
    /\ pass.pc = "idle" /\ phase \notin Terminal
    /\ Goto("reconcile")
    /\ rec' = [rec EXCEPT !["foreground"].pc = "read"]
    /\ UNCHANGED <<phase, stage, network, wallet, faults>>

Awaiting == {s \in Stage : stage[s].status = "awaiting_inputs"}

\* reconcile_mined_denomination_stages reads the table again: what still awaits
\* its inputs may have been mined, now or before it was reset.
ReadStages ==
    /\ pass.pc = "reconcile" /\ rec["foreground"].pc = "end"
    /\ rec' = [rec EXCEPT !["foreground"] = NoRec]
    /\ pass' = [pass EXCEPT !.pc = "recover", !.rest = Awaiting,
                            !.await = IF Awaiting = {} THEN "no" ELSE "yes"]
    /\ UNCHANGED <<phase, stage, network, wallet, faults>>

\* The next one is not mined, or is, and the wallet has its bytes or not.
LookUp ==
    /\ pass.pc = "recover"
    /\ \E s \in pass.rest :
          \/ seen[s] = NoBlock /\ pass' = [pass EXCEPT !.rest = @ \ {s}]
          \/ /\ seen[s] # NoBlock
             /\ pass' = [pass EXCEPT !.pc = "adopt", !.found = seen[s], !.pending =
                   {[s |-> s, proof |-> {seen[p] : p \in Parent[s]}, notBefore |-> 0]}]
          \/ seen[s] # NoBlock /\ Return
    /\ UNCHANGED <<phase, stage, network, wallet, rec, faults>>

\* promote_awaiting_denomination_stage, with the bytes of the wallet
Adopt ==
    /\ pass.pc = "adopt"
    /\ IF stage[tx.s].status = "awaiting_inputs"
       THEN /\ stage' = [stage EXCEPT ![tx.s].status = "pending", ![tx.s].proof = tx.proof]
            /\ Goto("record")
       ELSE Return /\ UNCHANGED stage
    /\ UNCHANGED <<phase, network, wallet, rec, faults>>

\* replace_denomination_stage_confirmation_identity, which takes any status
RecordMined ==
    /\ pass.pc = "record"
    /\ stage' = [stage EXCEPT ![tx.s].status = "confirmed", ![tx.s].ident = pass.found]
    /\ pass' = [NoPass EXCEPT !.pc = "recover", !.await = "some", !.rest = pass.rest \ {tx.s}]
    /\ UNCHANGED <<phase, network, wallet, rec, faults>>

\* The table is read once more if a stage was recorded.
StagesLookedUp ==
    /\ pass.pc = "recover" /\ pass.rest = {}
    /\ pass' = [NoPass EXCEPT !.pc = "expiry", !.await =
          IF pass.await # "some" THEN pass.await ELSE IF Awaiting = {} THEN "no" ELSE "yes"]
    /\ UNCHANGED <<phase, stage, network, wallet, rec, faults>>

\* Where broadcast_pending_denomination_stages returns None.
NothingToSend ==
    CASE pass.await = "yes" -> pass' = [pass EXCEPT !.pc = "prove"]
      [] pass.await = "proved" -> Return
      [] OTHER -> Goto("finish")

\* The wallet's heights decide whether the run is retired, waits for the scan
\* to reach an expiry, or has something to send.
CheckExpiry ==
    /\ pass.pc = "expiry"
    /\ \E known \in scanned .. tip :
         LET pending == {[s |-> s, proof |-> stage[s].proof, notBefore |-> stage[s].notBefore] :
                           s \in {s \in Stage : stage[s].status = "pending"}}
         IN  CASE Expired(scanned) # {} -> Goto("retire")
               [] Expired(scanned) = {} /\ Expired(known) # {} -> Return
               [] Expired(known) = {} /\ Due(pending, known) = {} -> NothingToSend
               [] Expired(known) = {} /\ Due(pending, known) # {} ->
                    pass' = [pass EXCEPT !.pc = "live", !.pending = pending, !.tip = known]
    /\ rec' = IF pass'.pc = "finish" THEN [rec EXCEPT !["foreground"].pc = "read"] ELSE rec
    /\ UNCHANGED <<phase, stage, network, wallet, faults>>

\* retire_run_for_rebuild takes no condition.
Retire ==
    /\ pass.pc = "retire"
    /\ phase' = "failed_terminal"
    /\ Return
    /\ UNCHANGED <<stage, network, wallet, rec, faults>>

\* The server's tip; the first of the rows read before is sent.
ReadTip ==
    /\ pass.pc = "live"
    /\ \/ Return
       \/ /\ Expired(tip) = {}
          /\ \E p \in Due(pass.pending, tip) :
               /\ \A q \in Due(pass.pending, tip) : p.notBefore <= q.notBefore
               /\ pass' = [pass EXCEPT !.pc = "attempt", !.pending = {p}, !.tip = tip]
    /\ UNCHANGED <<phase, stage, network, wallet, rec, faults>>

\* mark_denomination_broadcast_attempted
Attempt ==
    /\ pass.pc = "attempt"
    /\ IF stage[tx.s].status = "pending"
       THEN stage' = [stage EXCEPT ![tx.s].tried = TRUE] /\ Goto("submit")
       ELSE Return /\ UNCHANGED stage
    /\ UNCHANGED <<phase, network, wallet, rec, faults>>

\* The network takes a transaction whose parents are where its proof says.
Acceptable(s, proof) ==
    /\ Expiry[s] > tip
    /\ \A p \in Parent[s] : mined[p] # NoBlock
    /\ proof = {mined[p] : p \in Parent[s]}

Known(s) == mined[s] # NoBlock \/ \E m \in mempool : m[1] = s

\* The transaction reaches the server, or is lost, and so may the answer be.
Submit ==
    /\ pass.pc = "submit"
    /\ \/ /\ Known(tx.s) \/ Acceptable(tx.s, tx.proof)
          /\ mempool' = IF Known(tx.s) THEN mempool ELSE mempool \cup {<<tx.s, tx.proof>>}
          /\ \E o \in {"accepted", "ambiguous"} :
                pass' = [pass EXCEPT !.pc = "answer", !.outcome = o]
       \/ /\ ~Known(tx.s)
          /\ \E o \in {"rejected", "ambiguous"} :
                pass' = [pass EXCEPT !.pc = "answer", !.outcome = o]
          /\ UNCHANGED mempool
    /\ UNCHANGED <<phase, stage, tip, mined, wallet, rec, faults>>

\* A rejection clears the attempt; an accepted transaction that cannot be
\* stored stays pending.
Answer ==
    /\ pass.pc = "answer"
    /\ \/ /\ pass.outcome = "rejected"
          /\ stage' = IF stage[tx.s].status = "pending"
                      THEN [stage EXCEPT ![tx.s].tried = FALSE] ELSE stage
          /\ Return
       \/ pass.outcome # "rejected" /\ Return /\ UNCHANGED stage
       \/ pass.outcome = "accepted" /\ Goto("mark") /\ UNCHANGED stage
    /\ UNCHANGED <<phase, network, wallet, rec, faults>>

\* mark_denomination_stage_broadcasted: refused after a reset.  When the stage
\* was late, the others are drawn again.
MarkBroadcasted ==
    /\ pass.pc = "mark"
    /\ LET rows == IF stage[tx.s].status = "pending"
                   THEN [stage EXCEPT ![tx.s].status = "broadcasted"] ELSE stage
       IN  IF stage[tx.s].status = "awaiting_inputs" THEN UNCHANGED stage
           ELSE IF tx.notBefore < pass.tip
           THEN \E d \in 0 .. MaxDelay : stage' = Redrawn(rows, pass.tip, d)
           ELSE stage' = rows
    /\ Return
    /\ UNCHANGED <<phase, network, wallet, rec, faults>>

\* finalize_ready_denomination_stages: a stage whose inputs are scanned is
\* proved on them ...
Prove ==
    /\ pass.pc = "prove"
    /\ \/ \E s \in Stage :
            /\ stage[s].status = "awaiting_inputs"
            /\ \A p \in Parent[s] : seen[p] # NoBlock
            /\ pass' = [pass EXCEPT !.pc = "promote", !.pending =
                  {[s |-> s, proof |-> {seen[p] : p \in Parent[s]}, notBefore |-> 0]}]
       \/ /\ pass.await = "some"
          /\ pass' = [NoPass EXCEPT !.pc = "expiry", !.await = "proved"]
       \/ Return
    /\ UNCHANGED <<phase, stage, network, wallet, rec, faults>>

\* ... and promote_awaiting_denomination_stage keeps the proof, whatever the
\* reconciliation of the other thread did in between.
Promote ==
    /\ pass.pc = "promote"
    /\ IF stage[tx.s].status = "awaiting_inputs"
       THEN /\ stage' = [stage EXCEPT ![tx.s].status = "pending", ![tx.s].proof = tx.proof]
            /\ pass' = [NoPass EXCEPT !.pc = "prove", !.await = "some"]
       ELSE Return /\ UNCHANGED stage
    /\ UNCHANGED <<phase, network, wallet, rec, faults>>

PassStep ==
    \/ ReadStages \/ LookUp \/ Adopt \/ RecordMined \/ StagesLookedUp
    \/ CheckExpiry \/ Retire \/ ReadTip \/ Attempt \/ Submit \/ Answer
    \/ MarkBroadcasted \/ Prove \/ Promote
----------------------------------------------------------------------------
(* The chain                                                               *)

\* A block, with some of the transactions that wait.
Mine ==
    /\ tip < MaxHeight
    /\ tip' = tip + 1
    /\ \E ms \in SUBSET {m \in mempool : mined[m[1]] = NoBlock /\ Acceptable(m[1], m[2])} :
         /\ mined' = [s \in Stage |->
               IF \E m \in ms : m[1] = s THEN [at |-> tip + 1, fork |-> forks] ELSE mined[s]]
         /\ mempool' = mempool \ ms
    /\ UNCHANGED <<phase, stage, wallet, rec, pass, faults>>

\* A longer fork replaces the blocks from h on.  What it drops is included
\* again in one of its blocks, waits again, or is gone.
Reorg(h) ==
    /\ forks < MaxForks /\ tip < MaxHeight /\ h <= tip
    /\ forks' = forks + 1 /\ tip' = tip + 1
    /\ LET gone == {s \in Stage : mined[s].at >= h}
       IN  \E back \in SUBSET gone, at \in h .. tip + 1 :
             /\ mined' = [s \in Stage |->
                   IF s \notin gone THEN mined[s]
                   ELSE IF s \in back THEN [at |-> at, fork |-> forks + 1] ELSE NoBlock]
             /\ \A s \in back : at <= Expiry[s] /\ \A p \in Parent[s] : mined'[p] # NoBlock
             /\ mempool' = mempool \cup
                  {<<s, {mined[p] : p \in Parent[s]}>> : s \in gone \ back}
    /\ UNCHANGED <<phase, stage, wallet, rec, pass, crashes>>

\* The process stops and starts again.
Crash ==
    /\ crashes < MaxCrashes
    /\ crashes' = crashes + 1
    /\ rec' = [t \in Thread |-> NoRec] /\ pass' = NoPass
    /\ UNCHANGED <<phase, stage, network, wallet, forks>>

Foreground == Advance \/ Reconcile("foreground") \/ Confirm("foreground") \/ PassStep
Sync == Scan \/ Reconcile("sync") \/ Confirm("sync")

Next ==
    \/ Foreground \/ Sync \/ Mine
    \/ \E h \in 2 .. MaxHeight : Reorg(h)
    \/ Crash

Spec == Init /\ [][Next]_vars

\* The application keeps advancing and scanning, and the chain grows.
FairSpec == Spec /\ WF_vars(Foreground) /\ WF_vars(Sync) /\ WF_vars(Mine)
----------------------------------------------------------------------------
(* Properties                                                              *)

Settled == pass.pc = "idle" /\ \A t \in Thread : rec[t].pc = "idle"

\* Without a restart, once no thread is at work a run that is ready has every
\* stage recorded as confirmed and on the scanned chain, however the scans,
\* forks and two reconciliations interleave: a confirmation that reads the
\* inclusions before the other thread's reset and writes after it does not
\* leave the run ready (reconcile_denomination_confirmations, WaitAgain last).
ReadyHasEveryStage ==
    crashes = 0 /\ Settled /\ phase = "ready_to_migrate" =>
        \A s \in Stage : stage[s].status = "confirmed" /\ seen[s] # NoBlock

\* A pending stage the network knows is marked as attempted: a reset, a lost
\* answer, a crash or a failed store do not let a stop treat it as unsent
\* (mark_denomination_broadcast_attempted).
KnownStageWasAttempted ==
    \A s \in Stage : stage[s].status = "pending" /\ Known(s) => stage[s].tried

\* Preparation ends, whatever the forks, crashes, lost answers and overlapping
\* reconciliations: the run is retired, or it is ready and every stage, the
\* change-only ones too, is recorded where the chain has it.
PreparationEnds ==
    <>[](\/ phase = "failed_terminal"
         \/ /\ phase = "ready_to_migrate"
            /\ \A s \in Stage : stage[s].status = "confirmed" /\ stage[s].ident = mined[s])

\* expired_broadcasted_denomination_stage_count: "Counts broadcasted stages
\* that were not mined before their expiry height."  A run is retired only
\* when the scanned chain lacks one of its stages.
RetiredStageWasNotMined ==
    [][phase' = "failed_terminal" /\ phase # phase' => \E s \in Stage : seen[s] = NoBlock]_vars
============================================================================
