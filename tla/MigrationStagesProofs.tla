----------------------- MODULE MigrationStagesProofs -----------------------
(***************************************************************************)
(* The safety properties of MigrationStages, for every graph of stages,    *)
(* every depth and any number of blocks, forks and restarts.               *)
(***************************************************************************)
EXTENDS MigrationStagesInv, TLAPS

----------------------------------------------------------------------------
(* Constants and records                                                   *)

\* The bounds, one by one.
LEMMA Bounds ==
    /\ MaxDelay \in Nat /\ MaxHeight \in Nat /\ MaxHeight >= 1 /\ MaxForks \in Nat
    /\ MaxCrashes \in Nat
BY StageConstants

\* No block, no reconciliation and no pass.
LEMMA NothingOK ==
    /\ NoBlock \in Block /\ NoRec \in Recs /\ NoPass \in Passes
    /\ NoRec.pc = "idle" /\ NoRec.affected = {} /\ NoRec.invalid = {} /\ NoPass.pc = "idle"
<1>1. NoBlock \in Block
  BY Bounds DEF NoBlock, Block
<1>2. 0 \in 0 .. MaxHeight
  BY Bounds
<1>3. [s \in Stage |-> NoBlock] \in [Stage -> Block]
  BY <1>1
<1> QED
  BY <1>1, <1>2, <1>3 DEF NoRec, NoPass, Recs, RecSteps, Passes, PassSteps

\* The two threads.
LEMMA Threads ==
    "foreground" \in Thread /\ "sync" \in Thread /\ \A t \in Thread : t \in {"foreground", "sync"}
BY DEF Thread

\* A row that is well formed.
RowOK(r) == r \in Row /\ (r.status = "confirmed" <=> r.ident # NoBlock)

\* The table, row by row.
LEMMA RowsOK == TypeOK <=>
    /\ phase \in {"waiting_denom_confirmations", "ready_to_migrate", "failed_terminal"}
    /\ stage \in [Stage -> Row] /\ \A s \in Stage : RowOK(stage[s])
    /\ tip \in 1 .. MaxHeight /\ scanned \in 0 .. tip
    /\ mined \in [Stage -> Block] /\ seen \in [Stage -> Block]
    /\ mempool \subseteq Stage \X SUBSET Block
    /\ forks \in 0 .. MaxForks /\ crashes \in 0 .. MaxCrashes
BY DEF TypeOK, RowOK, Terminal

\* The row a pass has chosen.
LEMMA TxOK ==
    ASSUME ThreadType, PassShape, pass.pc \in Chosen
    PROVE  /\ tx \in pass.pending /\ tx \in PendingRow
           /\ tx.s \in Stage /\ tx.proof \subseteq Block /\ tx.notBefore \in 0 .. MaxHeight + MaxDelay
<1>1. tx \in pass.pending
  BY DEF PassShape, tx
<1>2. tx \in PendingRow
  BY <1>1 DEF ThreadType, Passes
<1> QED
  BY <1>1, <1>2 DEF PendingRow

\* rerandomize_remaining_preparation_broadcast_heights touches only heights.
LEMMA RedrawnOK ==
    ASSUME NEW rows \in [Stage -> Row], NEW h \in 0 .. MaxHeight, NEW d \in 0 .. MaxDelay
    PROVE  /\ Redrawn(rows, h, d) \in [Stage -> Row]
           /\ \A s \in Stage : /\ Redrawn(rows, h, d)[s].status = rows[s].status
                               /\ Redrawn(rows, h, d)[s].ident = rows[s].ident
                               /\ Redrawn(rows, h, d)[s].tried = rows[s].tried
<1>1. h + d \in 0 .. MaxHeight + MaxDelay
  BY Bounds
<1>2. ASSUME NEW s \in Stage
      PROVE  /\ Redrawn(rows, h, d)[s] \in Row
             /\ Redrawn(rows, h, d)[s].status = rows[s].status
             /\ Redrawn(rows, h, d)[s].ident = rows[s].ident
             /\ Redrawn(rows, h, d)[s].tried = rows[s].tried
  <2>1. rows[s] \in Row
    OBVIOUS
  <2>2. Redrawn(rows, h, d)[s] \in {rows[s], [rows[s] EXCEPT !.notBefore = h + d]}
    BY DEF Redrawn
  <2> QED
    BY <1>1, <2>1, <2>2 DEF Row
<1> QED
  BY <1>2 DEF Redrawn

\* A thread's reconciliation is replaced.
LEMMA RecSet ==
    ASSUME ThreadType, NEW t \in Thread, NEW r \in Recs, rec' = [rec EXCEPT ![t] = r]
    PROVE  /\ rec' \in [Thread -> Recs] /\ rec'[t] = r
           /\ \A u \in Thread : u # t => rec'[u] = rec[u]
BY DEF ThreadType

\* A thread's reconciliation goes on.
LEMMA RecGoto ==
    ASSUME ThreadType, NEW t \in Thread, NEW step \in RecSteps, rec' = [rec EXCEPT ![t].pc = step]
    PROVE  /\ rec' \in [Thread -> Recs] /\ rec'[t].pc = step
           /\ rec'[t].affected = rec[t].affected /\ rec'[t].invalid = rec[t].invalid
           /\ rec'[t].found = rec[t].found
           /\ \A u \in Thread : u # t => rec'[u] = rec[u]
<1>1. rec[t] \in Recs
  BY DEF ThreadType
<1>2. [rec[t] EXCEPT !.pc = step] \in Recs
  BY <1>1 DEF Recs
<1>3. rec' = [rec EXCEPT ![t] = [rec[t] EXCEPT !.pc = step]]
  BY DEF ThreadType
<1>4. /\ [rec[t] EXCEPT !.pc = step].pc = step
      /\ [rec[t] EXCEPT !.pc = step].affected = rec[t].affected
      /\ [rec[t] EXCEPT !.pc = step].invalid = rec[t].invalid
      /\ [rec[t] EXCEPT !.pc = step].found = rec[t].found
  BY <1>1 DEF Recs
<1> QED
  BY <1>2, <1>3, <1>4, RecSet

----------------------------------------------------------------------------
(* Steps of the pass between its reconciliations                           *)

\* The foreground thread holds no reconciliation there, so that only the sync
\* thread can be on its way to anything; and no confirmation is taken back.
LEMMA PassKeeps ==
    ASSUME StageInv, TypeOK', ThreadType', pass.pc \notin BeforeRecovery \cup Recovering,
           pass'.pc \notin Recovering,
           rec'["sync"] = rec["sync"],
           rec'["foreground"].invalid = rec["foreground"].invalid,
           rec'["foreground"].affected = rec["foreground"].affected,
           \/ rec'["foreground"].pc = "idle"
           \/ rec'["foreground"].pc = "read" /\ pass'.pc = "finish",
           UNCHANGED <<scanned, seen, crashes>>, phase' = phase \/ phase' \in Terminal,
           \A s \in Stage : stage[s].status = "confirmed" =>
               stage'[s].status = "confirmed" /\ stage'[s].ident = stage[s].ident,
           pass'.pc \in Chosen => pass'.pending # {},
           AttemptInv'
    PROVE  StageInv'
<1>1. rec["foreground"].pc = "idle"
  BY DEF StageInv, PassShape, BeforeRecovery
<1>2. PassShape'
  BY DEF PassShape, Recovering
<1>3. HoldInv'
  <2>1. \A t \in Thread : rec'[t].invalid \subseteq rec'[t].affected
    BY Threads DEF StageInv, HoldInv
  <2>2. \A t \in Thread : rec'[t].pc = "confirm" => rec'[t] = rec[t]
    BY Threads
  <2> QED
    BY <2>1, <2>2 DEF StageInv, HoldInv
<1>4. ASSUME crashes' = 0, phase' \notin Terminal PROVE ThreadsInv'
  <2>1. SeenInv /\ ReadyInv /\ phase' = phase
    BY <1>4 DEF StageInv, ThreadsInv
  <2>2. SeenInv'
    BY <2>1 DEF SeenInv, Recovering
  <2>3. ConfirmInv'
    BY DEF ConfirmInv
  <2>4. \A t \in Thread : WillWait(t) => WillWait(t)'
    BY <1>1, Threads DEF WillWait
  <2>5. Moved \subseteq Moved'
    BY DEF Moved
  <2>6. ReadyInv'
    BY <2>1, <2>4, <2>5 DEF ReadyInv
  <2> QED
    BY <2>2, <2>3, <2>6 DEF ThreadsInv
<1> QED
  BY <1>2, <1>3, <1>4 DEF StageInv

\* What the network knows does not change, and no attempt is forgotten.
LEMMA AttemptStays ==
    ASSUME AttemptInv, UNCHANGED <<mined, mempool>>,
           \A s \in Stage : stage[s].tried => stage'[s].tried,
           pass'.pc \notin {"submit", "answer"}
    PROVE  AttemptInv'
BY DEF AttemptInv, Known

\* The pass goes on with a row it holds, or returns.
LEMMA PassGoto ==
    ASSUME ThreadType, NEW step \in PassSteps, Goto(step)
    PROVE  /\ pass' \in Passes /\ pass'.pc = step /\ pass'.pending = pass.pending
           /\ pass'.outcome = pass.outcome /\ pass'.rest = pass.rest /\ pass'.found = pass.found
BY DEF ThreadType, Goto, Passes

\* The run is retired.
LEMMA RetireKeeps == ASSUME StageInv, Retire PROVE StageInv'
<1>1. /\ pass.pc = "retire" /\ phase' = "failed_terminal" /\ pass' = NoPass
      /\ UNCHANGED <<stage, tip, mined, mempool, scanned, seen, rec, forks, crashes>>
  BY DEF Retire, Return, network, wallet, faults
<1>2. TypeOK'
  BY <1>1 DEF StageInv, TypeOK, Terminal
<1>3. ThreadType' /\ pass'.pc = "idle"
  BY <1>1, NothingOK DEF StageInv, ThreadType
<1>4. AttemptInv'
  BY <1>1, <1>3, AttemptStays DEF StageInv
<1> QED
  BY <1>1, <1>2, <1>3, <1>4, PassKeeps DEF StageInv, PassShape, BeforeRecovery, Recovering, Chosen, Terminal

\* The server's tip is read and a row is chosen.
LEMMA ReadTipKeeps == ASSUME StageInv, ReadTip PROVE StageInv'
<1>1. /\ pass.pc = "live"
      /\ UNCHANGED <<phase, stage, tip, mined, mempool, scanned, seen, rec, forks, crashes>>
  BY DEF ReadTip, network, wallet, faults
<1>2. TypeOK'
  BY <1>1 DEF StageInv, TypeOK
<1>3. /\ pass' \in Passes /\ pass'.pc \in {"idle", "attempt"}
      /\ pass'.pc = "attempt" => pass'.pending # {}
  <2>1. CASE Return
    BY <2>1, NothingOK DEF Return
  <2>2. CASE \E p \in Due(pass.pending, tip) :
                pass' = [pass EXCEPT !.pc = "attempt", !.pending = {p}, !.tip = tip]
    <3>1. PICK p \in Due(pass.pending, tip) :
                pass' = [pass EXCEPT !.pc = "attempt", !.pending = {p}, !.tip = tip]
      BY <2>2
    <3>2. p \in PendingRow /\ pass \in Passes
      BY DEF Due, StageInv, ThreadType, Passes
    <3>3. tip \in 0 .. MaxHeight
      BY Bounds DEF StageInv, TypeOK
    <3> QED
      BY <3>1, <3>2, <3>3 DEF Passes, PassSteps
  <2> QED
    BY <2>1, <2>2 DEF ReadTip
<1>4. AttemptInv'
  BY <1>1, <1>3, AttemptStays DEF StageInv
<1>5. ThreadType' /\ rec'["foreground"].pc = "idle"
  BY <1>1, <1>3 DEF StageInv, ThreadType, PassShape
<1> QED
  BY <1>1, <1>2, <1>3, <1>4, <1>5, PassKeeps DEF BeforeRecovery, Recovering, Chosen

\* The attempt is recorded.
LEMMA AttemptKeeps == ASSUME StageInv, Attempt PROVE StageInv'
<1>1. /\ pass.pc = "attempt"
      /\ UNCHANGED <<phase, tip, mined, mempool, scanned, seen, rec, forks, crashes>>
  BY DEF Attempt, network, wallet, faults
<1>2. tx.s \in Stage /\ pass.pending # {}
  BY <1>1, TxOK DEF StageInv, Chosen, PassShape
<1>3. rec'["foreground"].pc = "idle"
  BY <1>1 DEF StageInv, PassShape
<1>4. CASE stage' = [stage EXCEPT ![tx.s].tried = TRUE] /\ Goto("submit")
  <2>a. stage \in [Stage -> Row] /\ stage[tx.s] \in Row
    BY <1>2 DEF StageInv, TypeOK
  <2>b. [stage[tx.s] EXCEPT !.tried = TRUE] \in Row
    BY <2>a DEF Row
  <2>1. stage' \in [Stage -> Row]
    BY <1>2, <1>4, <2>a, <2>b
  <2>2. ASSUME NEW s \in Stage
        PROVE  /\ stage'[s].status = stage[s].status /\ stage'[s].ident = stage[s].ident
               /\ stage[s].tried => stage'[s].tried
    BY <1>2, <1>4, <2>a DEF Row
  <2>3. TypeOK'
    BY <1>1, <2>1, <2>2 DEF StageInv, TypeOK
  <2>4. pass' \in Passes /\ pass'.pc = "submit" /\ pass'.pending = pass.pending
    BY <1>4, PassGoto DEF StageInv, PassSteps
  <2>5. ThreadType'
    BY <1>1, <2>4 DEF StageInv, ThreadType
  <2>6. stage'[tx.s].tried /\ tx' = tx
    BY <1>2, <1>4, <2>4 DEF StageInv, TypeOK, Row, tx
  <2>7. AttemptInv'
    BY <1>1, <2>2, <2>4, <2>6 DEF StageInv, AttemptInv, Known
  <2> QED
    BY <1>1, <1>2, <1>3, <2>2, <2>3, <2>4, <2>5, <2>7, PassKeeps DEF BeforeRecovery, Recovering
<1>5. CASE Return /\ UNCHANGED stage
  <2>1. ThreadType' /\ pass'.pc = "idle"
    BY <1>1, <1>5, NothingOK DEF StageInv, ThreadType, Return
  <2>2. TypeOK'
    BY <1>1, <1>5 DEF StageInv, TypeOK
  <2>3. AttemptInv'
    BY <1>1, <1>5, <2>1, AttemptStays DEF StageInv
  <2> QED
    BY <1>1, <1>3, <1>5, <2>1, <2>2, <2>3, PassKeeps DEF BeforeRecovery, Recovering, Chosen
<1> QED
  BY <1>4, <1>5 DEF Attempt

\* The transaction is sent: the network gets to know it here.
LEMMA SubmitKeeps == ASSUME StageInv, Submit PROVE StageInv'
<1>1. /\ pass.pc = "submit"
      /\ UNCHANGED <<phase, stage, tip, mined, scanned, seen, rec, forks, crashes>>
  BY DEF Submit, wallet, faults
<1>2. tx.s \in Stage /\ tx.proof \subseteq Block /\ pass.pending # {} /\ stage[tx.s].tried
  BY <1>1, TxOK DEF StageInv, Chosen, PassShape, AttemptInv
<1>3. rec'["foreground"].pc = "idle"
  BY <1>1 DEF StageInv, PassShape
<1>4. PICK o \in {"accepted", "ambiguous", "rejected"} :
          /\ pass' = [pass EXCEPT !.pc = "answer", !.outcome = o]
          /\ mempool' \subseteq mempool \cup {<<tx.s, tx.proof>>}
          /\ o = "rejected" => mempool' = mempool /\ ~Known(tx.s)
  BY DEF Submit
<1>5. pass' \in Passes /\ pass'.pc = "answer" /\ pass'.pending = pass.pending /\ pass'.outcome = o
  BY <1>4 DEF StageInv, ThreadType, Passes, PassSteps
<1>6. ThreadType' /\ tx' = tx
  BY <1>1, <1>5 DEF StageInv, ThreadType, tx
<1>7. TypeOK'
  BY <1>1, <1>2, <1>4 DEF StageInv, TypeOK
<1>8. ASSUME NEW s \in Stage, Known(s)' PROVE Known(s) \/ s = tx.s
  BY <1>1, <1>4, <1>8 DEF Known
<1>9. AttemptInv'
  <2>1. \A s \in Stage : Known(s)' => stage'[s].tried
    BY <1>1, <1>2, <1>8 DEF StageInv, AttemptInv
  <2>2. pass'.outcome = "rejected" => ~Known(tx.s)'
    BY <1>1, <1>4, <1>5, <1>6 DEF Known
  <2> QED
    BY <1>5, <1>6, <2>1, <2>2 DEF AttemptInv
<1> QED
  BY <1>1, <1>2, <1>3, <1>5, <1>6, <1>7, <1>9, PassKeeps DEF BeforeRecovery, Recovering

\* The answer: an attempt is cleared only if the network does not know it.
LEMMA AnswerKeeps == ASSUME StageInv, Answer PROVE StageInv'
<1>1. /\ pass.pc = "answer"
      /\ UNCHANGED <<phase, tip, mined, mempool, scanned, seen, rec, forks, crashes>>
  BY DEF Answer, network, wallet, faults
<1>2. tx.s \in Stage /\ pass.pending # {}
  BY <1>1, TxOK DEF StageInv, Chosen, PassShape
<1>3. rec'["foreground"].pc = "idle"
  BY <1>1 DEF StageInv, PassShape
<1>4. /\ pass' \in Passes /\ pass'.pc \in {"idle", "mark"}
      /\ pass'.pc = "mark" => pass'.pending = pass.pending
  BY NothingOK, PassGoto DEF Answer, Return, StageInv, PassSteps
<1>5. ThreadType'
  BY <1>1, <1>4 DEF StageInv, ThreadType
<1>6. CASE pass.outcome = "rejected" /\ stage' = [stage EXCEPT ![tx.s].tried = FALSE]
  <2>1. stage' \in [Stage -> Row]
    BY <1>2, <1>6 DEF StageInv, TypeOK, Row
  <2>2. ASSUME NEW s \in Stage
        PROVE  /\ stage'[s].status = stage[s].status /\ stage'[s].ident = stage[s].ident
               /\ s # tx.s => stage'[s].tried = stage[s].tried
    BY <1>2, <1>6 DEF StageInv, TypeOK, Row
  <2>3. TypeOK'
    BY <1>1, <2>1, <2>2 DEF StageInv, TypeOK
  <2>4. ~Known(tx.s)
    BY <1>1, <1>6 DEF StageInv, AttemptInv
  <2>5. AttemptInv'
    BY <1>1, <1>4, <2>2, <2>4 DEF StageInv, AttemptInv, Known
  <2> QED
    BY <1>1, <1>2, <1>3, <1>4, <1>5, <2>2, <2>3, <2>5, PassKeeps DEF BeforeRecovery, Recovering, Chosen
<1>7. CASE UNCHANGED stage
  <2>1. TypeOK'
    BY <1>1, <1>7 DEF StageInv, TypeOK
  <2>2. AttemptInv'
    BY <1>1, <1>4, <1>7, AttemptStays DEF StageInv
  <2> QED
    BY <1>1, <1>2, <1>3, <1>4, <1>5, <1>7, <2>1, <2>2, PassKeeps DEF BeforeRecovery, Recovering, Chosen
<1> QED
  BY <1>6, <1>7 DEF Answer

\* The broadcast is recorded and the others may be drawn again.
LEMMA MarkKeeps == ASSUME StageInv, MarkBroadcasted PROVE StageInv'
<1> DEFINE rows == IF stage[tx.s].status = "pending"
                   THEN [stage EXCEPT ![tx.s].status = "broadcasted"] ELSE stage
<1>1. /\ pass.pc = "mark" /\ pass' = NoPass
      /\ UNCHANGED <<phase, tip, mined, mempool, scanned, seen, rec, forks, crashes>>
  BY DEF MarkBroadcasted, Return, network, wallet, faults
<1>2. tx.s \in Stage /\ stage \in [Stage -> Row]
  BY <1>1, TxOK DEF StageInv, Chosen, TypeOK
<1>3. rec'["foreground"].pc = "idle"
  BY <1>1 DEF StageInv, PassShape
<1>4. ThreadType' /\ pass'.pc = "idle"
  BY <1>1, NothingOK DEF StageInv, ThreadType
<1>5. rows \in [Stage -> Row]
  BY <1>2 DEF Row
<1>6. ASSUME NEW s \in Stage
      PROVE  /\ rows[s].ident = stage[s].ident /\ rows[s].tried = stage[s].tried
             /\ rows[s].status = "confirmed" <=> stage[s].status = "confirmed"
  BY <1>2 DEF Row
<1> HIDE DEF rows
<1>7. pass.tip \in 0 .. MaxHeight
  BY DEF StageInv, ThreadType, Passes
<1>8. /\ stage' \in [Stage -> Row]
      /\ \A s \in Stage : /\ stage'[s].ident = stage[s].ident /\ stage'[s].tried = stage[s].tried
                          /\ stage'[s].status = "confirmed" <=> stage[s].status = "confirmed"
  <2>1. CASE stage' = stage
    BY <1>2, <2>1
  <2>2. CASE stage' = rows
    BY <1>5, <1>6, <2>2
  <2>3. CASE \E d \in 0 .. MaxDelay : stage' = Redrawn(rows, pass.tip, d)
    BY <1>5, <1>6, <1>7, <2>3, RedrawnOK
  <2> QED
    BY <2>1, <2>2, <2>3 DEF MarkBroadcasted, rows
<1>9. TypeOK'
  BY <1>1, <1>8 DEF StageInv, TypeOK
<1>10. AttemptInv'
  BY <1>1, <1>4, <1>8, AttemptStays DEF StageInv
<1> QED
  BY <1>1, <1>3, <1>4, <1>8, <1>9, <1>10, PassKeeps DEF BeforeRecovery, Recovering, Chosen

\* A stage is proved.
LEMMA ProveKeeps == ASSUME StageInv, Prove PROVE StageInv'
<1>1. /\ pass.pc = "prove"
      /\ UNCHANGED <<phase, stage, tip, mined, mempool, scanned, seen, rec, forks, crashes>>
  BY DEF Prove, network, wallet, faults
<1>2. TypeOK'
  BY <1>1 DEF StageInv, TypeOK
<1>3. /\ pass' \in Passes /\ pass'.pc \in {"idle", "expiry", "promote"}
      /\ pass'.pc = "promote" => pass'.pending # {}
  <2>1. CASE Return
    BY <2>1, NothingOK DEF Return
  <2>2. CASE pass' = [NoPass EXCEPT !.pc = "expiry", !.await = "proved"]
    BY <2>2, NothingOK DEF Passes, PassSteps
  <2>3. CASE \E s \in Stage : pass' = [pass EXCEPT !.pc = "promote", !.pending =
                  {[s |-> s, proof |-> {seen[p] : p \in Parent[s]}, notBefore |-> 0]}]
    <3>1. PICK s \in Stage : pass' = [pass EXCEPT !.pc = "promote", !.pending =
                  {[s |-> s, proof |-> {seen[p] : p \in Parent[s]}, notBefore |-> 0]}]
      BY <2>3
    <3>2. {seen[p] : p \in Parent[s]} \subseteq Block
      BY StageConstants DEF StageInv, TypeOK
    <3>3. 0 \in 0 .. MaxHeight + MaxDelay
      BY Bounds
    <3>4. [s |-> s, proof |-> {seen[p] : p \in Parent[s]}, notBefore |-> 0] \in PendingRow
      BY <3>2, <3>3 DEF PendingRow
    <3> QED
      BY <3>1, <3>4 DEF StageInv, ThreadType, Passes, PassSteps
  <2> QED
    BY <2>1, <2>2, <2>3 DEF Prove
<1>4. AttemptInv'
  BY <1>1, <1>3, AttemptStays DEF StageInv
<1>5. ThreadType' /\ rec'["foreground"].pc = "idle"
  BY <1>1, <1>3 DEF StageInv, ThreadType, PassShape
<1> QED
  BY <1>1, <1>2, <1>3, <1>4, <1>5, PassKeeps DEF BeforeRecovery, Recovering, Chosen

\* Its proof is kept.
LEMMA PromoteKeeps == ASSUME StageInv, Promote PROVE StageInv'
<1>1. /\ pass.pc = "promote"
      /\ UNCHANGED <<phase, tip, mined, mempool, scanned, seen, rec, forks, crashes>>
  BY DEF Promote, network, wallet, faults
<1>2. tx.s \in Stage /\ tx.proof \subseteq Block
  BY <1>1, TxOK DEF StageInv, Chosen
<1>3. pass' \in Passes /\ pass'.pc \in {"idle", "prove"}
  BY NothingOK DEF Promote, Return, Passes, PassSteps
<1>4. ThreadType' /\ rec'["foreground"].pc = "idle"
  BY <1>1, <1>3 DEF StageInv, ThreadType, PassShape
<1>5. /\ stage' \in [Stage -> Row]
      /\ \A s \in Stage : /\ stage'[s].ident = stage[s].ident /\ stage'[s].tried = stage[s].tried
                          /\ stage'[s].status = "confirmed" <=> stage[s].status = "confirmed"
  <2>1. CASE UNCHANGED stage
    BY <2>1 DEF StageInv, TypeOK
  <2>2. CASE /\ stage[tx.s].status = "awaiting_inputs"
             /\ stage' = [stage EXCEPT ![tx.s].status = "pending", ![tx.s].proof = tx.proof]
    BY <1>2, <2>2 DEF StageInv, TypeOK, Row
  <2> QED
    BY <2>1, <2>2 DEF Promote
<1>6. TypeOK'
  BY <1>1, <1>5 DEF StageInv, TypeOK
<1>7. AttemptInv'
  BY <1>1, <1>3, <1>5, AttemptStays DEF StageInv
<1> QED
  BY <1>1, <1>3, <1>4, <1>5, <1>6, <1>7, PassKeeps DEF BeforeRecovery, Recovering, Chosen

\* The heights decide how the pass goes on; it may begin its second
\* reconciliation.
LEMMA CheckExpiryKeeps == ASSUME StageInv, CheckExpiry PROVE StageInv'
<1>1. /\ pass.pc = "expiry"
      /\ rec' = IF pass'.pc = "finish" THEN [rec EXCEPT !["foreground"].pc = "read"] ELSE rec
      /\ UNCHANGED <<phase, stage, tip, mined, mempool, scanned, seen, forks, crashes>>
  BY DEF CheckExpiry, network, wallet, faults
<1> DEFINE pending == {[s |-> s, proof |-> stage[s].proof, notBefore |-> stage[s].notBefore] :
                           s \in {s \in Stage : stage[s].status = "pending"}}
<1>2. PICK known \in scanned .. tip :
         CASE Expired(scanned) # {} -> Goto("retire")
           [] Expired(scanned) = {} /\ Expired(known) # {} -> Return
           [] Expired(known) = {} /\ Due(pending, known) = {} -> NothingToSend
           [] Expired(known) = {} /\ Due(pending, known) # {} ->
                pass' = [pass EXCEPT !.pc = "live", !.pending = pending, !.tip = known]
  BY DEF CheckExpiry
<1>3. known \in 0 .. MaxHeight
  BY <1>2, Bounds DEF StageInv, TypeOK
<1>4. pending \subseteq PendingRow
  BY DEF StageInv, TypeOK, Row, PendingRow
<1> HIDE DEF pending
<1>5. \/ Goto("retire") \/ Return \/ NothingToSend
      \/ pass' = [pass EXCEPT !.pc = "live", !.pending = pending, !.tip = known]
  <2>0. Expired(scanned) \subseteq Expired(known)
    <3>1. scanned \in Nat /\ known \in Nat /\ scanned <= known
      BY <1>2, <1>3, Bounds DEF StageInv, TypeOK
    <3>2. \A s \in Stage : Expiry[s] \in Nat
      BY StageConstants
    <3> QED
      BY <3>1, <3>2 DEF Expired, Unconfirmed
  <2>1. Expired(scanned) # {} => Goto("retire")
    BY <1>2, <2>0
  <2>2. Expired(scanned) = {} /\ Expired(known) # {} => Return
    BY <1>2
  <2>3. Expired(scanned) = {} /\ Expired(known) = {} /\ Due(pending, known) = {} => NothingToSend
    BY <1>2
  <2>4. Expired(scanned) = {} /\ Expired(known) = {} /\ Due(pending, known) # {} =>
           pass' = [pass EXCEPT !.pc = "live", !.pending = pending, !.tip = known]
    BY <1>2
  <2> QED
    BY <2>1, <2>2, <2>3, <2>4
<1>6. pass' \in Passes /\ pass'.pc \in {"retire", "idle", "live", "prove", "finish"}
  <2>1. CASE Goto("retire")
    BY <2>1, PassGoto DEF StageInv, PassSteps
  <2>2. CASE Return
    BY <2>2, NothingOK DEF Return
  <2>3. CASE NothingToSend
    <3>1. \/ pass' = [pass EXCEPT !.pc = "prove"] \/ Return \/ Goto("finish")
      BY <2>3 DEF NothingToSend
    <3> QED
      BY <2>2, <3>1, PassGoto DEF StageInv, PassSteps, Goto
  <2>4. CASE pass' = [pass EXCEPT !.pc = "live", !.pending = pending, !.tip = known]
    BY <1>3, <1>4, <2>4 DEF StageInv, ThreadType, Passes, PassSteps
  <2> QED
    BY <1>5, <2>1, <2>2, <2>3, <2>4
<1>7. rec["foreground"].pc = "idle"
  BY <1>1 DEF StageInv, PassShape
<1>8. /\ rec' \in [Thread -> Recs] /\ rec'["sync"] = rec["sync"]
      /\ rec'["foreground"].invalid = rec["foreground"].invalid
      /\ rec'["foreground"].affected = rec["foreground"].affected
      /\ \/ rec'["foreground"].pc = "idle"
         \/ rec'["foreground"].pc = "read" /\ pass'.pc = "finish"
  <2>1. CASE pass'.pc = "finish"
    <3>1. ThreadType /\ "read" \in RecSteps /\ "sync" # "foreground"
      BY DEF StageInv, RecSteps
    <3>2. rec' = [rec EXCEPT !["foreground"].pc = "read"]
      BY <1>1, <2>1
    <3> QED
      BY <2>1, <3>1, <3>2, RecGoto, Threads
  <2>2. CASE pass'.pc # "finish"
    BY <1>1, <1>7, <2>2 DEF StageInv, ThreadType
  <2> QED
    BY <2>1, <2>2
<1>9. TypeOK'
  BY <1>1 DEF StageInv, TypeOK
<1>10. AttemptInv'
  BY <1>1, <1>6, AttemptStays DEF StageInv
<1>11. ThreadType'
  BY <1>6, <1>8 DEF ThreadType
<1> QED
  BY <1>1, <1>6, <1>8, <1>9, <1>10, <1>11, PassKeeps DEF BeforeRecovery, Recovering, Chosen

\* A pass begins.
LEMMA AdvanceKeeps == ASSUME StageInv, Advance PROVE StageInv'
<1>1. /\ pass.pc = "idle" /\ Goto("reconcile") /\ rec' = [rec EXCEPT !["foreground"].pc = "read"]
      /\ UNCHANGED <<phase, stage, tip, mined, mempool, scanned, seen, forks, crashes>>
  BY DEF Advance, network, wallet, faults
<1>2. rec["foreground"].pc = "idle"
  BY <1>1 DEF StageInv, PassShape
<1>3. pass' \in Passes /\ pass'.pc = "reconcile"
  BY <1>1, PassGoto DEF StageInv, PassSteps
<1>4. /\ rec' \in [Thread -> Recs] /\ rec'["sync"] = rec["sync"]
      /\ rec'["foreground"].pc = "read"
      /\ rec'["foreground"].invalid = rec["foreground"].invalid
      /\ rec'["foreground"].affected = rec["foreground"].affected
  <2>1. ThreadType /\ "read" \in RecSteps /\ "sync" # "foreground"
    BY DEF StageInv, RecSteps
  <2> QED
    BY <1>1, <2>1, RecGoto, Threads
<1>5. TypeOK' /\ ThreadType'
  BY <1>1, <1>3, <1>4 DEF StageInv, TypeOK, ThreadType
<1>6. AttemptInv' /\ PassShape'
  BY <1>1, <1>3, AttemptStays DEF StageInv, PassShape, Chosen
<1>7. HoldInv'
  <2>1. \A t \in Thread : rec'[t].invalid \subseteq rec'[t].affected
    BY <1>4, Threads DEF StageInv, HoldInv
  <2>2. \A t \in Thread : rec'[t].pc = "confirm" => rec'[t] = rec[t]
    BY <1>4, Threads
  <2> QED
    BY <1>1, <1>4, <2>1, <2>2 DEF StageInv, HoldInv
<1>8. ASSUME ThreadsInv PROVE ThreadsInv'
  <2>1. SeenInv' /\ ConfirmInv'
    BY <1>1, <1>3, <1>4, <1>8 DEF ThreadsInv, SeenInv, tx, ConfirmInv, BeforeRecovery
  <2>2. \A t \in Thread : WillWait(t) => WillWait(t)'
    BY <1>2, <1>4, Threads DEF WillWait
  <2>3. ReadyInv'
    BY <1>1, <1>4, <1>8, <2>2 DEF ThreadsInv, ReadyInv, Moved
  <2> QED
    BY <2>1, <2>3 DEF ThreadsInv
<1> QED
  BY <1>1, <1>5, <1>6, <1>7, <1>8 DEF StageInv

----------------------------------------------------------------------------
(* reconcile_mined_denomination_stages                                     *)

\* The table is read: what was reset and is mined will be looked up before
\* anything is proved.
LEMMA ReadStagesKeeps == ASSUME StageInv, ReadStages PROVE StageInv'
<1>1. /\ pass.pc = "reconcile" /\ rec["foreground"].pc = "end"
      /\ rec' = [rec EXCEPT !["foreground"] = NoRec]
      /\ UNCHANGED <<phase, stage, tip, mined, mempool, scanned, seen, forks, crashes>>
  BY DEF ReadStages, network, wallet, faults
<1>2. rec' \in [Thread -> Recs] /\ rec'["foreground"] = NoRec /\ rec'["sync"] = rec["sync"]
  BY <1>1, RecSet, NothingOK, Threads DEF StageInv
<1>3. pass' \in Passes /\ pass'.pc = "recover" /\ pass'.rest = Awaiting
  <2>1. PICK a \in {"no", "yes"} : pass' = [pass EXCEPT !.pc = "recover", !.rest = Awaiting, !.await = a]
    BY DEF ReadStages
  <2>2. Awaiting \subseteq Stage
    BY DEF Awaiting
  <2> QED
    BY <2>1, <2>2 DEF StageInv, ThreadType, Passes, PassSteps
<1>4. TypeOK' /\ ThreadType' /\ PassShape'
  BY <1>1, <1>2, <1>3, NothingOK DEF StageInv, TypeOK, ThreadType, PassShape, Chosen
<1>5. AttemptInv'
  BY <1>1, <1>3, AttemptStays DEF StageInv
<1>6. HoldInv'
  <2>1. \A t \in Thread : rec'[t].invalid \subseteq rec'[t].affected
    BY <1>2, NothingOK, Threads DEF StageInv, HoldInv
  <2>2. \A t \in Thread : rec'[t].pc = "confirm" => rec'[t] = rec[t]
    BY <1>2, NothingOK, Threads
  <2> QED
    BY <1>1, <1>2, <2>1, <2>2 DEF StageInv, HoldInv
<1>7. ASSUME ThreadsInv PROVE ThreadsInv'
  <2>1. SeenInv'
    BY <1>1, <1>2, <1>3, <1>7 DEF ThreadsInv, SeenInv, Awaiting, Recovering
  <2>2. ConfirmInv'
    BY <1>2, NothingOK DEF ConfirmInv
  <2>3. \A t \in Thread : WillWait(t) => WillWait(t)'
    BY <1>1, <1>2, Threads DEF WillWait
  <2>4. ReadyInv'
    BY <1>1, <1>2, <1>7, <2>3 DEF ThreadsInv, ReadyInv, Moved
  <2> QED
    BY <2>1, <2>2, <2>4 DEF ThreadsInv
<1> QED
  BY <1>1, <1>4, <1>5, <1>6, <1>7 DEF StageInv

\* A step of the look-up.  The foreground thread holds no reconciliation, and
\* a confirmation may be recorded anew, but only on a block.
LEMMA LookUpStep ==
    ASSUME StageInv, TypeOK', pass' \in Passes, pass.pc \in Recovering,
           UNCHANGED <<phase, mined, mempool, scanned, seen, rec, crashes>>,
           pass'.pc \in {"idle", "expiry", "recover", "adopt", "record"},
           pass'.pc \in {"adopt", "record"} => pass'.pending # {} /\ pass'.found # NoBlock,
           \A s \in Stage : stage[s].tried => stage'[s].tried,
           \A s \in Stage : stage[s].status = "confirmed" =>
               /\ stage'[s].status = "confirmed"
               /\ stage'[s].ident = stage[s].ident \/ stage'[s].ident # seen[s] \/ seen[s] # NoBlock,
           SeenInv => SeenInv'
    PROVE  StageInv'
<1>1. rec["foreground"].pc = "idle"
  BY DEF StageInv, PassShape, Recovering
<1>2. ThreadType' /\ PassShape'
  BY <1>1 DEF StageInv, ThreadType, PassShape, Chosen
<1>3. AttemptInv'
  BY AttemptStays DEF StageInv
<1>4. HoldInv'
  BY DEF StageInv, HoldInv
<1>5. ASSUME ThreadsInv PROVE ThreadsInv'
  <2>1. SeenInv'
    BY <1>5 DEF ThreadsInv
  <2>2. ConfirmInv'
    BY <1>1 DEF ConfirmInv
  <2>3. \A t \in Thread : WillWait(t) => WillWait(t)'
    BY DEF WillWait
  <2>4. \A s \in Moved : s \in Moved' \/ (stage'[s].status = "confirmed" /\ seen'[s] # NoBlock)
    BY DEF Moved
  <2>5. ReadyInv'
    BY <1>5, <2>3, <2>4 DEF ThreadsInv, ReadyInv
  <2> QED
    BY <2>1, <2>2, <2>5 DEF ThreadsInv
<1> QED
  BY <1>2, <1>3, <1>4, <1>5 DEF StageInv

\* The next stage is not on the scanned chain, is to be recorded, or its bytes
\* are missing and the pass ends.
LEMMA LookUpKeeps == ASSUME StageInv, LookUp PROVE StageInv'
<1>1. /\ pass.pc = "recover"
      /\ UNCHANGED <<phase, stage, tip, mined, mempool, scanned, seen, rec, forks, crashes>>
  BY DEF LookUp, network, wallet, faults
<1>2. TypeOK' /\ pass.pc \in Recovering
  BY <1>1 DEF StageInv, TypeOK, Recovering
<1>3. PICK s \in pass.rest :
          \/ seen[s] = NoBlock /\ pass' = [pass EXCEPT !.rest = @ \ {s}]
          \/ /\ seen[s] # NoBlock
             /\ pass' = [pass EXCEPT !.pc = "adopt", !.found = seen[s], !.pending =
                   {[s |-> s, proof |-> {seen[p] : p \in Parent[s]}, notBefore |-> 0]}]
          \/ seen[s] # NoBlock /\ Return
  BY DEF LookUp
<1>4. s \in Stage /\ pass \in Passes
  BY DEF StageInv, ThreadType, Passes
<1>5. CASE seen[s] = NoBlock /\ pass' = [pass EXCEPT !.rest = @ \ {s}]
  <2>1. pass' \in Passes /\ pass'.pc = "recover" /\ pass'.rest = pass.rest \ {s}
    BY <1>1, <1>4, <1>5 DEF Passes
  <2>2. SeenInv => SeenInv'
    BY <1>1, <1>5, <2>1 DEF SeenInv, Recovering, BeforeRecovery
  <2> QED
    BY <1>1, <1>2, <2>1, <2>2, LookUpStep
<1>6. CASE /\ seen[s] # NoBlock
           /\ pass' = [pass EXCEPT !.pc = "adopt", !.found = seen[s], !.pending =
                 {[s |-> s, proof |-> {seen[p] : p \in Parent[s]}, notBefore |-> 0]}]
  <2>1. {seen[p] : p \in Parent[s]} \subseteq Block /\ seen[s] \in Block
    BY <1>4, StageConstants DEF StageInv, TypeOK
  <2>2. 0 \in 0 .. MaxHeight + MaxDelay
    BY Bounds
  <2>3. [s |-> s, proof |-> {seen[p] : p \in Parent[s]}, notBefore |-> 0] \in PendingRow
    BY <1>4, <2>1, <2>2 DEF PendingRow
  <2>4. /\ pass' \in Passes /\ pass'.pc = "adopt" /\ pass'.rest = pass.rest /\ pass'.found = seen[s]
        /\ pass'.pending # {}
    BY <1>4, <1>6, <2>1, <2>3 DEF Passes, PassSteps
  <2>5. SeenInv => SeenInv'
    BY <1>1, <2>4 DEF SeenInv, Recovering, BeforeRecovery
  <2> QED
    BY <1>1, <1>2, <1>6, <2>4, <2>5, LookUpStep
<1>7. CASE Return
  <2>1. pass' \in Passes /\ pass'.pc = "idle"
    BY <1>7, NothingOK DEF Return
  <2>2. SeenInv => SeenInv'
    BY <1>1, <2>1 DEF SeenInv, Recovering, BeforeRecovery
  <2> QED
    BY <1>1, <1>2, <2>1, <2>2, LookUpStep
<1> QED
  BY <1>3, <1>5, <1>6, <1>7

\* The stage takes the bytes of the wallet: it is no longer awaiting, but the
\* pass is about to record it.
LEMMA AdoptKeeps == ASSUME StageInv, Adopt PROVE StageInv'
<1>1. /\ pass.pc = "adopt"
      /\ UNCHANGED <<phase, tip, mined, mempool, scanned, seen, rec, forks, crashes>>
  BY DEF Adopt, network, wallet, faults
<1>2. tx.s \in Stage /\ tx.proof \subseteq Block /\ pass.pending # {} /\ pass.found # NoBlock
  BY <1>1, TxOK DEF StageInv, Chosen, PassShape
<1>3. pass.pc \in Recovering
  BY <1>1 DEF Recovering
<1>4. CASE /\ stage[tx.s].status = "awaiting_inputs"
           /\ stage' = [stage EXCEPT ![tx.s].status = "pending", ![tx.s].proof = tx.proof]
           /\ Goto("record")
  <2>1. /\ pass' \in Passes /\ pass'.pc = "record" /\ pass'.pending = pass.pending
        /\ pass'.found = pass.found /\ pass'.rest = pass.rest
    BY <1>4, PassGoto DEF StageInv, PassSteps
  <2>2. stage' \in [Stage -> Row]
    BY <1>2, <1>4 DEF StageInv, TypeOK, Row
  <2>3. ASSUME NEW s \in Stage
        PROVE  /\ stage'[s].ident = stage[s].ident /\ stage'[s].tried = stage[s].tried
               /\ stage'[s].status = "confirmed" <=> stage[s].status = "confirmed"
               /\ s # tx.s => stage'[s] = stage[s]
    BY <1>2, <1>4 DEF StageInv, TypeOK, Row
  <2>4. TypeOK'
    BY <1>1, <2>2, <2>3 DEF StageInv, TypeOK
  <2>5. tx' = tx
    BY <2>1 DEF tx
  <2>6. SeenInv => SeenInv'
    BY <1>1, <2>1, <2>3, <2>5 DEF SeenInv, Recovering, BeforeRecovery
  <2> QED
    BY <1>1, <1>2, <1>3, <2>1, <2>3, <2>4, <2>6, LookUpStep
<1>5. CASE Return /\ UNCHANGED stage
  <2>1. pass' \in Passes /\ pass'.pc = "idle"
    BY <1>5, NothingOK DEF Return
  <2>2. SeenInv => SeenInv'
    BY <1>1, <1>5, <2>1 DEF SeenInv, Recovering, BeforeRecovery
  <2>3. TypeOK'
    BY <1>1, <1>5 DEF StageInv, TypeOK
  <2> QED
    BY <1>1, <1>3, <1>5, <2>1, <2>2, <2>3, LookUpStep
<1> QED
  BY <1>4, <1>5 DEF Adopt

\* The stage is recorded where it was found, whatever its status is by now.
LEMMA RecordMinedKeeps == ASSUME StageInv, RecordMined PROVE StageInv'
<1>1. /\ pass.pc = "record"
      /\ stage' = [stage EXCEPT ![tx.s].status = "confirmed", ![tx.s].ident = pass.found]
      /\ UNCHANGED <<phase, tip, mined, mempool, scanned, seen, rec, forks, crashes>>
  BY DEF RecordMined, network, wallet, faults
<1>2. tx.s \in Stage /\ pass.found \in Block /\ pass.found # NoBlock /\ pass.pc \in Recovering
  BY <1>1, TxOK DEF StageInv, Chosen, PassShape, ThreadType, Passes, Recovering
<1>3. pass' \in Passes /\ pass'.pc = "recover" /\ pass'.rest = pass.rest \ {tx.s}
  <2>1. pass' = [NoPass EXCEPT !.pc = "recover", !.await = "some", !.rest = pass.rest \ {tx.s}]
    BY DEF RecordMined
  <2>2. pass.rest \ {tx.s} \subseteq Stage
    BY DEF StageInv, ThreadType, Passes
  <2> QED
    BY <2>1, <2>2, NothingOK DEF Passes, PassSteps
<1>4. stage \in [Stage -> Row] /\ stage' \in [Stage -> Row]
  BY <1>1, <1>2 DEF StageInv, TypeOK, Row
<1>5. ASSUME NEW s \in Stage
      PROVE  /\ stage'[s].tried = stage[s].tried
             /\ s # tx.s => stage'[s] = stage[s]
             /\ s = tx.s => stage'[s].status = "confirmed" /\ stage'[s].ident = pass.found
  BY <1>1, <1>2, <1>4 DEF Row
<1>6. TypeOK'
  BY <1>1, <1>2, <1>4, <1>5 DEF StageInv, TypeOK
<1>7. SeenInv => SeenInv'
  BY <1>1, <1>3, <1>5 DEF SeenInv, Recovering, BeforeRecovery
<1>8. \A s \in Stage : stage[s].status = "confirmed" =>
          /\ stage'[s].status = "confirmed"
          /\ stage'[s].ident = stage[s].ident \/ stage'[s].ident # seen[s] \/ seen[s] # NoBlock
  BY <1>2, <1>5
<1> QED
  BY <1>1, <1>2, <1>3, <1>5, <1>6, <1>7, <1>8, LookUpStep

\* None is left that awaited its inputs.
LEMMA StagesLookedUpKeeps == ASSUME StageInv, StagesLookedUp PROVE StageInv'
<1>1. /\ pass.pc = "recover" /\ pass.rest = {}
      /\ UNCHANGED <<phase, stage, tip, mined, mempool, scanned, seen, rec, forks, crashes>>
  BY DEF StagesLookedUp, network, wallet, faults
<1>2. TypeOK' /\ pass.pc \in Recovering
  BY <1>1 DEF StageInv, TypeOK, Recovering
<1>3. pass' \in Passes /\ pass'.pc = "expiry"
  <2>1. PICK a \in {"no", "yes", "some", "proved"} : pass' = [NoPass EXCEPT !.pc = "expiry", !.await = a]
    <3>1. pass.await \in {"no", "yes", "some", "proved"}
      BY DEF StageInv, ThreadType, Passes
    <3> QED
      BY <3>1 DEF StagesLookedUp
  <2> QED
    BY <2>1, NothingOK DEF Passes, PassSteps
<1>4. SeenInv => SeenInv'
  BY <1>1, <1>3 DEF SeenInv, Recovering, BeforeRecovery
<1> QED
  BY <1>1, <1>2, <1>3, <1>4, LookUpStep

----------------------------------------------------------------------------
(* The chain, the scan and restarts                                        *)

\* A step of the chain by which the network learns of no transaction.
LEMMA ChainStep ==
    ASSUME StageInv, TypeOK', UNCHANGED <<phase, stage, scanned, seen, rec, pass, crashes>>,
           \A s \in Stage : Known(s)' => Known(s)
    PROVE  StageInv'
<1>1. ThreadType' /\ PassShape' /\ HoldInv'
  BY DEF StageInv, ThreadType, PassShape, HoldInv
<1>2. AttemptInv'
  <2>1. tx' = tx
    BY DEF tx
  <2>2. pass.pc = "answer" => tx.s \in Stage
    BY TxOK DEF StageInv, Chosen
  <2> QED
    BY <2>1, <2>2 DEF StageInv, AttemptInv
<1>3. ThreadsInv => ThreadsInv'
  BY DEF ThreadsInv, SeenInv, tx, ConfirmInv, ReadyInv, WillWait, Moved
<1> QED
  BY <1>1, <1>2, <1>3 DEF StageInv

\* A block is mined.
LEMMA MineKeeps == ASSUME StageInv, Mine PROVE StageInv'
<1>1. /\ tip < MaxHeight /\ tip' = tip + 1
      /\ UNCHANGED <<phase, stage, scanned, seen, rec, pass, forks, crashes>>
  BY DEF Mine, wallet, faults
<1>2. PICK ms \in SUBSET mempool :
         /\ mined' = [s \in Stage |->
               IF \E m \in ms : m[1] = s THEN [at |-> tip + 1, fork |-> forks] ELSE mined[s]]
         /\ mempool' = mempool \ ms
  BY DEF Mine
<1>3. [at |-> tip + 1, fork |-> forks] \in Block /\ tip' \in 1 .. MaxHeight /\ scanned' \in 0 .. tip'
  BY <1>1, Bounds DEF StageInv, TypeOK, Block
<1>4. mined' \in [Stage -> Block]
  BY <1>2, <1>3 DEF StageInv, TypeOK
<1>5. TypeOK'
  BY <1>1, <1>2, <1>3, <1>4 DEF StageInv, TypeOK
<1>6. ASSUME NEW s \in Stage, Known(s)' PROVE Known(s)
  <2>1. CASE \E m \in ms : m[1] = s
    BY <2>1 DEF Known
  <2>2. CASE ~ \E m \in ms : m[1] = s
    <3>1. mined'[s] = mined[s]
      BY <1>2, <2>2
    <3> QED
      BY <1>2, <1>6, <3>1 DEF Known
  <2> QED
    BY <2>1, <2>2
<1> QED
  BY <1>1, <1>5, <1>6, ChainStep

\* A fork replaces blocks.
LEMMA ReorgKeeps == ASSUME StageInv, NEW h \in 2 .. MaxHeight, Reorg(h) PROVE StageInv'
<1> DEFINE gone == {s \in Stage : mined[s].at >= h}
<1>1. /\ forks < MaxForks /\ tip < MaxHeight /\ h <= tip /\ forks' = forks + 1 /\ tip' = tip + 1
      /\ UNCHANGED <<phase, stage, scanned, seen, rec, pass, crashes>>
  BY DEF Reorg, wallet
<1>2. PICK back \in SUBSET gone, at \in h .. tip + 1 :
         /\ mined' = [s \in Stage |->
               IF s \notin gone THEN mined[s]
               ELSE IF s \in back THEN [at |-> at, fork |-> forks + 1] ELSE NoBlock]
         /\ mempool' = mempool \cup {<<s, {mined[p] : p \in Parent[s]}>> : s \in gone \ back}
  BY DEF Reorg
<1>3. h \in Nat /\ h >= 2 /\ tip \in Nat /\ forks \in Nat /\ scanned \in Nat /\ scanned <= tip
  BY Bounds DEF StageInv, TypeOK
<1>4. [at |-> at, fork |-> forks + 1] \in Block
  BY <1>1, <1>2, <1>3, Bounds DEF Block
<1>5. forks' \in 0 .. MaxForks /\ tip' \in 1 .. MaxHeight /\ scanned' \in 0 .. tip'
  BY <1>1, <1>3, Bounds
<1>6. ASSUME NEW s \in Stage PROVE mined'[s] \in Block
  <2>1. mined'[s] \in {mined[s], [at |-> at, fork |-> forks + 1], NoBlock}
    BY <1>2
  <2> QED
    BY <1>4, <2>1, NothingOK DEF StageInv, TypeOK
<1>7. mined' \in [Stage -> Block]
  BY <1>2, <1>6
<1>8. mempool' \subseteq Stage \X SUBSET Block
  <2>1. \A s \in Stage : {mined[p] : p \in Parent[s]} \in SUBSET Block
    BY StageConstants DEF StageInv, TypeOK
  <2>2. \A s \in gone : <<s, {mined[p] : p \in Parent[s]}>> \in Stage \X SUBSET Block
    BY <2>1
  <2> QED
    BY <1>2, <2>2 DEF StageInv, TypeOK
<1>9. TypeOK'
  BY <1>1, <1>5, <1>7, <1>8 DEF StageInv, TypeOK
<1>10. ASSUME NEW s \in gone PROVE Known(s)
  <2>1. mined[s].at >= h /\ NoBlock.at = 0
    BY DEF NoBlock
  <2>2. mined[s] # NoBlock
    BY <1>3, <2>1
  <2> QED
    BY <2>2 DEF Known
<1>11. ASSUME NEW s \in Stage, Known(s)' PROVE Known(s)
  <2>1. CASE s \in gone
    BY <1>10, <2>1
  <2>2. CASE s \notin gone
    <3>1. mined'[s] = mined[s]
      BY <1>2, <2>2
    <3>2. (\E m \in mempool' : m[1] = s) => \E m \in mempool : m[1] = s
      BY <1>2, <2>2
    <3> QED
      BY <1>11, <3>1, <3>2 DEF Known
  <2> QED
    BY <2>1, <2>2
<1> QED
  BY <1>1, <1>9, <1>11, ChainStep

\* The wallet is scanned: whatever disappeared was confirmed, so that the
\* reconciliation that begins here will notice, or was reset already.
LEMMA ScanKeeps == ASSUME StageInv, Scan PROVE StageInv'
<1>1. /\ rec["sync"].pc = "idle" /\ scanned' = tip /\ seen' = mined
      /\ rec' = IF phase \in Terminal THEN rec ELSE [rec EXCEPT !["sync"].pc = "read"]
      /\ UNCHANGED <<phase, stage, tip, mined, mempool, pass, forks, crashes>>
  BY DEF Scan, network, faults
<1>2. /\ rec' \in [Thread -> Recs] /\ rec'["foreground"] = rec["foreground"]
      /\ rec'["sync"].invalid = rec["sync"].invalid /\ rec'["sync"].affected = rec["sync"].affected
      /\ rec'["sync"].pc \in {"idle", "read"} /\ (phase \notin Terminal => rec'["sync"].pc = "read")
  <2>1. CASE phase \in Terminal
    BY <1>1, <2>1 DEF StageInv, ThreadType
  <2>2. CASE phase \notin Terminal
    BY <1>1, <2>2, RecGoto, Threads DEF StageInv, RecSteps
  <2> QED
    BY <2>1, <2>2
<1>3. TypeOK' /\ ThreadType' /\ PassShape'
  <2>1. scanned' \in 0 .. tip'
    BY <1>1, Bounds DEF StageInv, TypeOK
  <2> QED
    BY <1>1, <1>2, <2>1 DEF StageInv, TypeOK, ThreadType, PassShape
<1>4. AttemptInv'
  BY <1>1 DEF StageInv, AttemptInv, Known, tx
<1>5. HoldInv'
  <2>1. \A t \in Thread : rec'[t].invalid \subseteq rec'[t].affected
    BY <1>2, Threads DEF StageInv, HoldInv
  <2>2. \A t \in Thread : rec'[t].pc = "confirm" => rec'[t] = rec[t]
    BY <1>2, Threads
  <2> QED
    BY <1>1, <1>2, <2>1, <2>2 DEF StageInv, HoldInv, Holding
<1>6. ASSUME ThreadsInv, phase \notin Terminal PROVE ThreadsInv'
  <2>1. SeenInv'
    BY <1>2, <1>6 DEF SeenInv
  <2>2. ConfirmInv'
    <3>1. ASSUME NEW s \in Stage, rec["foreground"].pc = "confirm"
          PROVE  stage[s].status \in {"awaiting_inputs", "confirmed"}
      <4>1. CASE seen[s] = NoBlock
        BY <1>1, <1>6, <3>1, <4>1 DEF ThreadsInv, ConfirmInv, Holding
      <4>2. CASE seen[s] # NoBlock
        <5>1. pass.pc # "record"
          BY <3>1 DEF StageInv, PassShape
        <5> QED
          BY <1>1, <1>6, <4>2, <5>1 DEF ThreadsInv, SeenInv, Holding
      <4> QED
        BY <4>1, <4>2
    <3> QED
      BY <1>1, <1>2, <1>6, <3>1 DEF ConfirmInv
  <2>3. ReadyInv'
    <3>1. \A t \in Thread : WillWait(t) => WillWait(t)'
      BY <1>1, <1>2, Threads DEF WillWait
    <3>2. \A s \in Stage : stage[s].status = "confirmed" => stage[s].ident # NoBlock
      BY DEF StageInv, TypeOK
    <3> QED
      BY <1>1, <1>2, <1>6, <3>1, <3>2 DEF ThreadsInv, ReadyInv, Moved
  <2> QED
    BY <2>1, <2>2, <2>3 DEF ThreadsInv
<1> QED
  BY <1>1, <1>3, <1>4, <1>5, <1>6 DEF StageInv

\* The process stops; nothing is said of the threads after a restart.
LEMMA CrashKeeps == ASSUME StageInv, Crash PROVE StageInv'
<1>1. /\ rec' = [t \in Thread |-> NoRec] /\ pass' = NoPass /\ crashes' = crashes + 1
      /\ crashes < MaxCrashes
      /\ UNCHANGED <<phase, stage, tip, mined, mempool, scanned, seen, forks>>
  BY DEF Crash, network, wallet
<1>2. crashes' \in 0 .. MaxCrashes /\ crashes' # 0
  BY <1>1, Bounds DEF StageInv, TypeOK
<1>3. TypeOK'
  BY <1>1, <1>2 DEF StageInv, TypeOK
<1>4. ThreadType' /\ PassShape'
  BY <1>1, NothingOK, Threads DEF ThreadType, PassShape, Chosen
<1>5. AttemptInv'
  BY <1>1, NothingOK, AttemptStays DEF StageInv
<1>6. HoldInv'
  BY <1>1, NothingOK, Threads DEF HoldInv, Holding
<1> QED
  BY <1>2, <1>3, <1>4, <1>5, <1>6 DEF StageInv


----------------------------------------------------------------------------
(* The two reconciliations                                                 *)

\* A step of a reconciliation that keeps the rows well formed.
LEMMA RecStep ==
    ASSUME StageInv, NEW t \in Thread, rec' \in [Thread -> Recs], rec[t].pc # "idle",
           \A u \in Thread : u # t => rec'[u] = rec[u],
           UNCHANGED <<tip, mined, mempool, scanned, seen, pass, forks, crashes>>,
           phase' \in {phase, "waiting_denom_confirmations"},
           stage' \in [Stage -> Row],
           \A s \in Stage : RowOK(stage'[s]) /\ stage'[s].tried = stage[s].tried
    PROVE  TypeOK' /\ ThreadType' /\ PassShape' /\ AttemptInv'
<1>1. TypeOK'
  BY DEF StageInv, TypeOK, RowOK
<1>2. ThreadType' /\ PassShape'
  BY Threads DEF StageInv, ThreadType, PassShape
<1>3. AttemptInv'
  <2>1. tx' = tx
    BY DEF tx
  <2>2. pass.pc = "submit" => tx.s \in Stage
    BY TxOK DEF StageInv, Chosen
  <2> QED
    BY <2>1, <2>2 DEF StageInv, AttemptInv, Known
<1> QED
  BY <1>1, <1>2, <1>3

\* The rows of the table, one by one.
LEMMA RowFacts ==
    ASSUME StageInv
    PROVE  /\ stage \in [Stage -> Row]
           /\ \A s \in Stage : RowOK(stage[s])
BY DEF StageInv, TypeOK, RowOK

\* What moved is affected.
LEMMA MovedAffected == Moved \subseteq Affected /\ Affected \subseteq Stage
BY DEF Moved, Affected

\* The chain is read.  The sync thread now holds every difference between the
\* table and the scanned chain.
LEMMA ReadChainKeeps == ASSUME StageInv, NEW t \in Thread, ReadChain(t) PROVE StageInv'
<1> DEFINE found == [s \in Stage |-> IF stage[s].ident # seen[s] THEN seen[s] ELSE NoBlock]
           step == IF Affected # {} THEN "children"
                   ELSE IF \E s \in Stage : found[s] # NoBlock THEN "stages" ELSE "end"
           invalid == {s \in Affected : seen[s] = NoBlock}
<1>1. /\ rec[t].pc = "read"
      /\ UNCHANGED <<phase, stage, tip, mined, mempool, scanned, seen, pass, forks, crashes>>
  BY DEF ReadChain, network, wallet, faults
<1>2. PICK h \in 0 .. MaxHeight :
         rec' = [rec EXCEPT ![t] = [pc |-> step, affected |-> Affected, invalid |-> invalid,
                                    found |-> found, tip |-> h]]
  <2>1. 0 \in 0 .. MaxHeight /\ \A h \in scanned .. tip : h \in 0 .. MaxHeight
    BY Bounds DEF StageInv, TypeOK
  <2> QED
    BY <2>1 DEF ReadChain
<1>3. found \in [Stage -> Block]
  BY NothingOK DEF StageInv, TypeOK
<1>4. \A s \in Stage : found[s] \in {NoBlock, seen[s]} /\ (stage[s].ident # seen[s] => found[s] = seen[s])
  OBVIOUS
<1>5. /\ step \in RecSteps /\ step \in {"children", "stages", "end"}
      /\ Affected # {} => step = "children"
      /\ (\E s \in Stage : found[s] # NoBlock) => step \in Holding
  BY DEF RecSteps, Holding
<1> HIDE DEF found, step
<1>6. /\ rec' \in [Thread -> Recs]
      /\ rec'[t] = [pc |-> step, affected |-> Affected, invalid |-> invalid, found |-> found, tip |-> h]
      /\ \A u \in Thread : u # t => rec'[u] = rec[u]
  <2>1. [pc |-> step, affected |-> Affected, invalid |-> invalid, found |-> found, tip |-> h] \in Recs
    BY <1>3, <1>5, MovedAffected DEF Recs
  <2> QED
    BY <1>2, <2>1, RecSet DEF StageInv
<1>7. /\ rec'[t].pc = step /\ rec'[t].affected = Affected /\ rec'[t].invalid = invalid
      /\ rec'[t].found = found
  BY <1>6
<1>8. TypeOK' /\ ThreadType' /\ PassShape' /\ AttemptInv'
  BY <1>1, <1>6, RecStep, RowFacts
<1>9. HoldInv'
  <2>1. \A u \in Thread : rec'[u].invalid \subseteq rec'[u].affected
    BY <1>6, <1>7 DEF StageInv, HoldInv
  <2>2. \A u \in Thread : rec'[u].pc = "confirm" => rec'[u] = rec[u]
    BY <1>5, <1>6, <1>7
  <2>3. CASE t = "sync"
    BY <1>1, <1>4, <1>5, <1>7, <2>1, <2>2, <2>3 DEF StageInv, HoldInv
  <2>4. CASE t = "foreground"
    BY <1>1, <1>6, <2>1, <2>2, <2>4, Threads DEF StageInv, HoldInv
  <2> QED
    BY <2>3, <2>4, Threads
<1>10. ASSUME ThreadsInv PROVE ThreadsInv'
  <2>1. CASE t = "sync"
    <3>0. rec'["foreground"] = rec["foreground"] /\ rec["sync"].pc = "read"
      BY <1>1, <1>6, <2>1, Threads
    <3>1. SeenInv'
      <4>1. ASSUME NEW s \in Stage, seen[s] # NoBlock
            PROVE  stage[s].status = "confirmed" \/ (step \in Holding /\ found[s] = seen[s])
        BY <1>4, <1>5, <4>1, RowFacts DEF RowOK
      <4> QED
        BY <1>1, <1>7, <2>1, <4>1 DEF SeenInv
    <3>2. ConfirmInv'
      <4>1. ASSUME NEW s \in Stage, seen[s] = NoBlock, stage[s].status = "confirmed"
            PROVE  s \in invalid /\ step \in Holding
        <5>1. s \in Moved
          BY <4>1, RowFacts DEF Moved, RowOK
        <5> QED
          BY <1>5, <4>1, <5>1, MovedAffected DEF Holding
      <4> QED
        BY <1>1, <1>7, <1>10, <2>1, <3>0, <4>1 DEF ThreadsInv, ConfirmInv, Holding
    <3>3. ReadyInv'
      <4>1. WillWait("foreground") => WillWait("foreground")'
        BY <3>0 DEF WillWait
      <4>2. ~WillWait("sync")
        BY <3>0 DEF WillWait
      <4>3. Moved # {} => WillWait("sync")'
        BY <1>5, <1>7, <2>1, MovedAffected DEF WillWait
      <4> QED
        BY <1>1, <1>10, <4>1, <4>2, <4>3, Threads DEF ThreadsInv, ReadyInv
    <3> QED
      BY <3>1, <3>2, <3>3 DEF ThreadsInv
  <2>2. CASE t = "foreground"
    <3>0. rec'["sync"] = rec["sync"] /\ rec["foreground"].pc = "read" /\ rec'["foreground"].pc # "confirm"
      BY <1>1, <1>5, <1>6, <1>7, <2>2, Threads
    <3>1. SeenInv' /\ ConfirmInv'
      BY <1>1, <1>10, <3>0 DEF ThreadsInv, SeenInv, tx, ConfirmInv
    <3>2. \A u \in Thread : WillWait(u) => WillWait(u)'
      BY <3>0, Threads DEF WillWait
    <3>3. ReadyInv'
      BY <1>1, <1>10, <3>0, <3>2 DEF ThreadsInv, ReadyInv, Moved
    <3> QED
      BY <3>1, <3>3 DEF ThreadsInv
  <2> QED
    BY <2>1, <2>2, Threads
<1> QED
  BY <1>1, <1>8, <1>9, <1>10 DEF StageInv

\* What a reconciliation holds, while it goes on and the table is not read again.
LEMMA HoldGoto ==
    ASSUME StageInv, NEW t \in Thread, NEW step \in RecSteps \ {"children", "confirm"},
           rec' = [rec EXCEPT ![t].pc = step], seen' = seen,
           step = "stages" => rec[t].pc \in Holding
    PROVE  HoldInv'
<1>0. ThreadType /\ step \in RecSteps
  BY DEF StageInv
<1>1. /\ rec'[t].pc = step
      /\ rec'[t].affected = rec[t].affected /\ rec'[t].invalid = rec[t].invalid
      /\ rec'[t].found = rec[t].found
      /\ \A u \in Thread : u # t => rec'[u] = rec[u]
  BY <1>0, RecGoto
<1>2. \A u \in Thread : rec'[u].invalid \subseteq rec'[u].affected
  BY <1>1 DEF StageInv, HoldInv
<1>3. \A u \in Thread : rec'[u].pc = "confirm" => rec'[u] = rec[u]
  BY <1>1
<1>4. CASE t = "sync"
  BY <1>1, <1>2, <1>3, <1>4 DEF StageInv, HoldInv, Holding
<1>5. CASE t = "foreground"
  BY <1>1, <1>2, <1>3, <1>5, Threads DEF StageInv, HoldInv
<1> QED
  BY <1>4, <1>5, Threads

\* The prepared notes of the affected stages are reset.
LEMMA ResetChildrenKeeps == ASSUME StageInv, NEW t \in Thread, ResetChildren(t) PROVE StageInv'
<1>1. /\ rec[t].pc = "children" /\ rec' = [rec EXCEPT ![t].pc = "stages"]
      /\ phase' = phase \/ (phase' = "waiting_denom_confirmations" /\ phase \notin Terminal)
      /\ UNCHANGED <<stage, tip, mined, mempool, scanned, seen, pass, forks, crashes>>
  BY DEF ResetChildren, network, wallet, faults
<1>2. ThreadType /\ "stages" \in RecSteps \ {"children", "confirm"} /\ "stages" \in RecSteps
  BY DEF StageInv, RecSteps
<1>3. /\ rec' \in [Thread -> Recs] /\ rec'[t].pc = "stages"
      /\ rec'[t].affected = rec[t].affected /\ rec'[t].invalid = rec[t].invalid
      /\ rec'[t].found = rec[t].found
      /\ \A u \in Thread : u # t => rec'[u] = rec[u]
  BY <1>1, <1>2, RecGoto
<1>4. TypeOK' /\ ThreadType' /\ PassShape' /\ AttemptInv'
  BY <1>1, <1>3, RecStep, RowFacts
<1>5. HoldInv'
  BY <1>1, <1>2, HoldGoto DEF Holding
<1>6. ASSUME ThreadsInv PROVE ThreadsInv'
  <2>1. \A u \in Thread : /\ rec'[u].pc \in Holding <=> rec[u].pc \in Holding
                          /\ rec'[u].pc = "read" <=> rec[u].pc = "read"
                          /\ rec'[u].pc = "confirm" <=> rec[u].pc = "confirm"
                          /\ rec'[u].found = rec[u].found /\ rec'[u].invalid = rec[u].invalid
                          /\ WillWait(u) => WillWait(u)'
    BY <1>1, <1>3 DEF Holding, WillWait
  <2>2. SeenInv' /\ ConfirmInv'
    BY <1>1, <1>6, <2>1, Threads DEF ThreadsInv, SeenInv, tx, ConfirmInv
  <2>3. ReadyInv'
    BY <1>1, <1>6, <2>1, Threads DEF ThreadsInv, ReadyInv, Moved
  <2> QED
    BY <2>2, <2>3 DEF ThreadsInv
<1> QED
  BY <1>1, <1>4, <1>5, <1>6 DEF StageInv

\* The run waits again.
LEMMA WaitAgainKeeps == ASSUME StageInv, NEW t \in Thread, WaitAgain(t) PROVE StageInv'
<1>1. /\ rec[t].pc = "phase" /\ rec' = [rec EXCEPT ![t].pc = "end"]
      /\ phase \in Terminal => phase' = phase
      /\ phase \notin Terminal => phase' = "waiting_denom_confirmations"
      /\ UNCHANGED <<stage, tip, mined, mempool, scanned, seen, pass, forks, crashes>>
  BY DEF WaitAgain, network, wallet, faults
<1>2. ThreadType /\ "end" \in RecSteps \ {"children", "confirm"} /\ "end" \in RecSteps
  BY DEF StageInv, RecSteps
<1>3. /\ rec' \in [Thread -> Recs] /\ rec'[t].pc = "end"
      /\ \A u \in Thread : u # t => rec'[u] = rec[u]
  BY <1>1, <1>2, RecGoto
<1>4. TypeOK' /\ ThreadType' /\ PassShape' /\ AttemptInv'
  BY <1>1, <1>3, RecStep, RowFacts
<1>5. HoldInv'
  BY <1>1, <1>2, HoldGoto
<1>6. ASSUME ThreadsInv, phase \notin Terminal PROVE ThreadsInv'
  <2>1. CASE t = "sync"
    BY <1>1, <1>3, <1>6, <2>1, Threads DEF ThreadsInv, SeenInv, tx, ConfirmInv, ReadyInv, Holding
  <2>2. CASE t = "foreground"
    BY <1>1, <1>3, <1>6, <2>2, Threads DEF ThreadsInv, SeenInv, tx, ConfirmInv, ReadyInv
  <2> QED
    BY <2>1, <2>2, Threads
<1> QED
  BY <1>1, <1>4, <1>5, <1>6 DEF StageInv

\* A stage that is reset, or recorded where it was found.
LEMMA ReconciledOK ==
    ASSUME StageInv, NEW t \in Thread, NEW s \in Stage
    PROVE  /\ RowOK(ReconciledStage(t, s)) /\ ReconciledStage(t, s).tried = stage[s].tried
           /\ s \in rec[t].invalid => ReconciledStage(t, s).status = "awaiting_inputs"
           /\ s \notin rec[t].invalid /\ rec[t].found[s] = NoBlock => ReconciledStage(t, s) = stage[s]
           /\ s \notin rec[t].invalid /\ rec[t].found[s] # NoBlock =>
                /\ ReconciledStage(t, s).status = "confirmed"
                /\ ReconciledStage(t, s).ident = rec[t].found[s]
<1>1. stage[s] \in Row /\ RowOK(stage[s])
  BY RowFacts
<1>2. rec[t].found[s] \in Block /\ NoBlock \in Block
  BY NothingOK DEF StageInv, ThreadType, Recs
<1> QED
  BY <1>1, <1>2 DEF ReconciledStage, RowOK, Row

\* The second commit, on a table that may have changed since it was read.
LEMMA ReconcileStagesKeeps == ASSUME StageInv, NEW t \in Thread, ReconcileStages(t) PROVE StageInv'
<1>0. /\ rec[t].pc = "stages"
      /\ UNCHANGED <<phase, tip, mined, mempool, scanned, seen, pass, forks, crashes>>
  BY DEF ReconcileStages, network, wallet, faults
<1>1. PICK step \in {"phase", "end"} :
         /\ rec' = [rec EXCEPT ![t].pc = step]
         /\ phase \notin Terminal /\ rec[t].affected # {} => step = "phase"
  BY DEF ReconcileStages
<1>2. ThreadType /\ step \in RecSteps \ {"children", "confirm"} /\ step \in RecSteps
  BY DEF StageInv, RecSteps
<1>3. /\ rec' \in [Thread -> Recs] /\ rec'[t].pc = step
      /\ rec'[t].affected = rec[t].affected
      /\ \A u \in Thread : u # t => rec'[u] = rec[u]
  BY <1>1, <1>2, RecGoto
<1>4. HoldInv'
  BY <1>0, <1>1, <1>2, HoldGoto
<1>5. CASE phase \in Terminal
  <2>1. UNCHANGED stage
    BY <1>5 DEF ReconcileStages
  <2>2. TypeOK' /\ ThreadType' /\ PassShape' /\ AttemptInv'
    BY <1>0, <1>3, <2>1, RecStep, RowFacts
  <2> QED
    BY <1>0, <1>4, <1>5, <2>2 DEF StageInv
<1>6. CASE phase \notin Terminal
  <2> DEFINE rows == [s \in Stage |-> ReconciledStage(t, s)]
  <2>1. rows \in [Stage -> Row] /\ \A s \in Stage : rows[s] = ReconciledStage(t, s)
    BY ReconciledOK DEF RowOK
  <2>2. stage' = rows \/ \E d \in 0 .. MaxDelay : stage' = Redrawn(rows, rec[t].tip, d)
    BY <1>6 DEF ReconcileStages
  <2> HIDE DEF rows
  <2>3. rec[t].tip \in 0 .. MaxHeight
    BY DEF StageInv, ThreadType, Recs
  <2>4. /\ stage' \in [Stage -> Row]
        /\ \A s \in Stage : /\ stage'[s].status = rows[s].status /\ stage'[s].ident = rows[s].ident
                            /\ stage'[s].tried = rows[s].tried
    BY <2>1, <2>2, <2>3, RedrawnOK
  <2>5. ASSUME NEW s \in Stage
        PROVE  /\ RowOK(stage'[s]) /\ stage'[s].tried = stage[s].tried
               /\ s \in rec[t].invalid => stage'[s].status = "awaiting_inputs"
               /\ s \notin rec[t].invalid /\ rec[t].found[s] = NoBlock =>
                    stage'[s].status = stage[s].status /\ stage'[s].ident = stage[s].ident
               /\ s \notin rec[t].invalid /\ rec[t].found[s] # NoBlock =>
                    stage'[s].status = "confirmed" /\ stage'[s].ident = rec[t].found[s]
    <3>1. rows[s] = ReconciledStage(t, s) /\ stage'[s] \in Row
      BY <2>1, <2>4
    <3> QED
      BY <2>4, <3>1, ReconciledOK DEF RowOK
  <2>6. TypeOK' /\ ThreadType' /\ PassShape' /\ AttemptInv'
    BY <1>0, <1>3, <2>4, <2>5, RecStep
  <2>7. rec[t].affected = {} => rec[t].invalid = {}
    BY DEF StageInv, HoldInv
  <2>8. rec[t].affected # {} => WillWait(t)'
    BY <1>1, <1>3, <1>6 DEF WillWait
  <2>9. ASSUME ThreadsInv PROVE ThreadsInv'
    <3>1. CASE t = "sync"
      <4>0. rec'["foreground"] = rec["foreground"] /\ rec["sync"].pc = "stages"
        BY <1>0, <1>3, <3>1, Threads
      <4>1. \A s \in Stage : rec["sync"].found[s] \in {NoBlock, seen[s]}
        BY <4>0 DEF StageInv, HoldInv, Holding
      <4>2. \A s \in rec["sync"].invalid : seen[s] = NoBlock
        BY <4>0 DEF StageInv, HoldInv, Holding
      <4>3. SeenInv'
        BY <1>0, <2>5, <2>9, <3>1, <4>0, <4>1, <4>2 DEF ThreadsInv, SeenInv, tx
      <4>4. ConfirmInv'
        BY <1>0, <2>5, <2>9, <3>1, <4>0, <4>1 DEF ThreadsInv, ConfirmInv
      <4>5. ReadyInv'
        <5>1. WillWait("foreground") => WillWait("foreground")'
          BY <4>0 DEF WillWait
        <5>2. CASE rec[t].affected # {}
          BY <2>8, <5>2 DEF ReadyInv
        <5>3. CASE rec[t].affected = {}
          <6>1. ~WillWait("sync")
            BY <3>1, <5>3 DEF WillWait
          <6>2. \A s \in Stage : stage[s].status = "confirmed" => stage'[s].status = "confirmed"
            BY <2>5, <2>7, <5>3
          <6> QED
            BY <1>0, <2>9, <4>0, <5>1, <6>1, <6>2, Threads DEF ThreadsInv, ReadyInv
        <5> QED
          BY <5>2, <5>3
      <4> QED
        BY <4>3, <4>4, <4>5 DEF ThreadsInv
    <3>2. CASE t = "foreground"
      <4>0. /\ rec'["sync"] = rec["sync"] /\ rec["foreground"].pc = "stages"
            /\ rec'["foreground"].pc # "confirm" /\ pass.pc \in BeforeRecovery
        BY <1>0, <1>3, <3>2, Threads DEF StageInv, PassShape, BeforeRecovery
      <4>1. SeenInv'
        BY <1>0, <2>5, <2>9, <3>2, <4>0 DEF ThreadsInv, SeenInv, tx
      <4>2. ConfirmInv'
        BY <4>0 DEF ConfirmInv
      <4>3. ReadyInv'
        <5>1. WillWait("sync") => WillWait("sync")'
          BY <4>0 DEF WillWait
        <5>2. CASE rec[t].affected # {}
          BY <2>8, <5>2 DEF ReadyInv
        <5>3. CASE rec[t].affected = {}
          <6>1. ~WillWait("foreground")
            BY <3>2, <5>3 DEF WillWait
          <6>2. \A s \in Stage : stage[s].status = "confirmed" => stage'[s].status = "confirmed"
            BY <2>5, <2>7, <5>3
          <6>3. \A s \in Moved : s \in Moved' \/ seen[s] # NoBlock
            BY <1>0, <2>5, <2>7, <5>3, <6>2 DEF Moved
          <6>4. \A s \in Moved : s \in Stage /\ stage[s].status = "confirmed"
            BY DEF Moved
          <6> QED
            BY <1>0, <2>9, <4>0, <5>1, <6>1, <6>2, <6>3, <6>4, Threads DEF ThreadsInv, ReadyInv
        <5> QED
          BY <5>2, <5>3
      <4> QED
        BY <4>1, <4>2, <4>3 DEF ThreadsInv
    <3> QED
      BY <3>1, <3>2, Threads
  <2> QED
    BY <1>0, <1>4, <1>6, <2>6, <2>9 DEF StageInv
<1> QED
  BY <1>5, <1>6

\* A thread's reconciliation ends, and with that of the foreground its pass.
LEMMA EndStep ==
    ASSUME StageInv, NEW t \in Thread, rec' = [rec EXCEPT ![t] = NoRec],
           pass' = IF t = "foreground" THEN NoPass ELSE pass,
           UNCHANGED <<tip, mined, mempool, scanned, seen, forks, crashes>>,
           phase' \in {phase, "ready_to_migrate"},
           stage' \in [Stage -> Row],
           \A s \in Stage : RowOK(stage'[s]) /\ stage'[s].tried = stage[s].tried
    PROVE  /\ rec'[t].pc = "idle" /\ \A u \in Thread : u # t => rec'[u] = rec[u]
           /\ TypeOK' /\ ThreadType' /\ PassShape' /\ AttemptInv' /\ HoldInv'
<1>1. /\ rec' \in [Thread -> Recs] /\ rec'[t] = NoRec
      /\ \A u \in Thread : u # t => rec'[u] = rec[u]
  BY RecSet, NothingOK DEF StageInv
<1>2. TypeOK'
  BY DEF StageInv, TypeOK, RowOK
<1>3. ThreadType' /\ PassShape'
  <2>1. CASE t = "foreground"
    BY <1>1, <2>1, NothingOK DEF ThreadType, PassShape, Chosen
  <2>2. CASE t = "sync"
    BY <1>1, <2>2, Threads DEF StageInv, ThreadType, PassShape
  <2> QED
    BY <2>1, <2>2, Threads
<1>4. AttemptInv'
  <2>1. CASE t = "foreground"
    BY <2>1, NothingOK, AttemptStays DEF StageInv
  <2>2. CASE t = "sync"
    <3>1. tx' = tx
      BY <2>2 DEF tx
    <3>2. pass.pc = "submit" => tx.s \in Stage
      BY TxOK DEF StageInv, Chosen
    <3> QED
      BY <2>2, <3>1, <3>2 DEF StageInv, AttemptInv, Known
  <2> QED
    BY <2>1, <2>2, Threads
<1>5. HoldInv'
  <2>1. \A u \in Thread : rec'[u].invalid \subseteq rec'[u].affected
    BY <1>1, NothingOK DEF StageInv, HoldInv
  <2>2. \A u \in Thread : rec'[u].pc = "confirm" => rec'[u] = rec[u]
    BY <1>1, NothingOK
  <2>3. CASE t = "sync"
    BY <1>1, <2>1, <2>2, <2>3, NothingOK DEF StageInv, HoldInv, Holding
  <2>4. CASE t = "foreground"
    BY <1>1, <2>1, <2>2, <2>4, Threads DEF StageInv, HoldInv
  <2> QED
    BY <2>3, <2>4, Threads
<1> QED
  BY <1>1, <1>2, <1>3, <1>4, <1>5, NothingOK

\* The inclusions are read, or there is nothing to confirm yet.
LEMMA ReadDepthKeeps == ASSUME StageInv, NEW t \in Thread, ReadDepth(t) PROVE StageInv'
<1>1. /\ rec[t].pc = "end"
      /\ UNCHANGED <<phase, stage, tip, mined, mempool, scanned, seen, forks, crashes>>
  BY DEF ReadDepth, network, wallet, faults
<1>2. ~WillWait(t)
  BY <1>1 DEF WillWait
<1>3. CASE phase = "waiting_denom_confirmations" /\ AllDeep
  <2> DEFINE r == [NoRec EXCEPT !.pc = "confirm", !.found = seen]
  <2>1. rec' = [rec EXCEPT ![t] = r] /\ UNCHANGED pass
    BY <1>3 DEF ReadDepth
  <2>2. r \in Recs /\ r.pc = "confirm" /\ r.found = seen /\ r.affected = {} /\ r.invalid = {}
    BY NothingOK DEF StageInv, TypeOK, NoRec, Recs, RecSteps
  <2> HIDE DEF r
  <2>3. /\ rec' \in [Thread -> Recs] /\ rec'[t] = r
        /\ \A u \in Thread : u # t => rec'[u] = rec[u]
    BY <2>1, <2>2, RecSet DEF StageInv
  <2>4. \A s \in Stage : seen[s] # NoBlock
    BY <1>3 DEF AllDeep, Deep
  <2>5. TypeOK' /\ ThreadType' /\ PassShape' /\ AttemptInv'
    BY <1>1, <2>1, <2>3, RecStep, RowFacts
  <2>6. HoldInv'
    <3>1. \A u \in Thread : rec'[u].invalid \subseteq rec'[u].affected
      BY <2>2, <2>3 DEF StageInv, HoldInv
    <3>2. \A u \in Thread : rec'[u].pc = "confirm" => \A s \in Stage : rec'[u].found[s] # NoBlock
      BY <2>2, <2>3, <2>4 DEF StageInv, HoldInv
    <3>3. CASE t = "sync"
      BY <1>1, <2>2, <2>3, <3>1, <3>2, <3>3 DEF HoldInv, Holding
    <3>4. CASE t = "foreground"
      BY <1>1, <2>3, <3>1, <3>2, <3>4, Threads DEF StageInv, HoldInv
    <3> QED
      BY <3>3, <3>4, Threads
  <2>7. ASSUME ThreadsInv PROVE ThreadsInv'
    <3>1. ConfirmInv' /\ ReadyInv'
      BY <1>1, <1>3, <2>4 DEF ConfirmInv, ReadyInv
    <3>2. CASE t = "sync"
      BY <1>1, <2>1, <2>7, <3>1, <3>2 DEF ThreadsInv, SeenInv, tx, Holding
    <3>3. CASE t = "foreground"
      BY <1>1, <2>1, <2>3, <2>7, <3>1, <3>3, Threads DEF ThreadsInv, SeenInv, tx
    <3> QED
      BY <3>2, <3>3, Threads
  <2> QED
    BY <1>1, <2>5, <2>6, <2>7 DEF StageInv
<1>4. CASE ~(phase = "waiting_denom_confirmations" /\ AllDeep)
  <2>1. rec' = [rec EXCEPT ![t] = NoRec] /\ pass' = IF t = "foreground" THEN NoPass ELSE pass
    BY <1>4 DEF ReadDepth
  <2>2. /\ rec'[t].pc = "idle" /\ \A u \in Thread : u # t => rec'[u] = rec[u]
        /\ TypeOK' /\ ThreadType' /\ PassShape' /\ AttemptInv' /\ HoldInv'
    BY <1>1, <2>1, EndStep, RowFacts
  <2>3. ASSUME ThreadsInv PROVE ThreadsInv'
    <3>0. \A u \in Thread : WillWait(u) => WillWait(u)'
      BY <1>2, <2>2 DEF WillWait
    <3>1. CASE t = "sync"
      <4>1. rec'["foreground"] = rec["foreground"] /\ rec["sync"].pc = "end" /\ pass' = pass
        BY <1>1, <2>1, <2>2, <3>1, Threads
      <4> QED
        BY <1>1, <2>3, <3>0, <4>1 DEF ThreadsInv, SeenInv, tx, ConfirmInv, ReadyInv, Holding
    <3>2. CASE t = "foreground"
      <4>1. /\ rec'["sync"] = rec["sync"] /\ rec'["foreground"].pc = "idle"
            /\ pass'.pc \in BeforeRecovery
        BY <2>1, <2>2, <3>2, Threads, NothingOK DEF BeforeRecovery
      <4>2. pass.pc # "record"
        BY <1>1, <3>2 DEF StageInv, PassShape
      <4> QED
        BY <1>1, <2>3, <3>0, <4>1, <4>2 DEF ThreadsInv, SeenInv, ConfirmInv, ReadyInv, Moved
    <3> QED
      BY <3>1, <3>2, Threads
  <2> QED
    BY <1>1, <2>2, <2>3 DEF StageInv
<1> QED
  BY <1>3, <1>4

\* The stages are confirmed as they were read.  A run becomes ready only if
\* none was refused; one that has left the scanned chain meanwhile and was not
\* reset yet is in the hands of the sync thread.
LEMMA ConfirmStagesKeeps == ASSUME StageInv, NEW t \in Thread, ConfirmStages(t) PROVE StageInv'
<1> DEFINE refused == {s \in Stage : Refused(t, s)}
<1>1. /\ rec[t].pc = "confirm" /\ rec' = [rec EXCEPT ![t] = NoRec]
      /\ pass' = IF t = "foreground" THEN NoPass ELSE pass
      /\ UNCHANGED <<tip, mined, mempool, scanned, seen, forks, crashes>>
  BY DEF ConfirmStages, network, wallet, faults
<1>2. PICK marked \in SUBSET (Stage \ refused) :
         /\ refused = {} => marked = Stage
         /\ stage' = [s \in Stage |->
               IF s \in marked
               THEN [stage[s] EXCEPT !.status = "confirmed", !.ident = rec[t].found[s]] ELSE stage[s]]
         /\ phase' = IF refused = {} /\ phase = "waiting_denom_confirmations"
                     THEN "ready_to_migrate" ELSE phase
  BY DEF ConfirmStages
<1>3. ASSUME NEW s \in Stage
      PROVE  /\ stage'[s] \in Row /\ RowOK(stage'[s]) /\ stage'[s].tried = stage[s].tried
             /\ s \in marked => stage'[s].status = "confirmed"
             /\ stage[s].status = "awaiting_inputs" => stage'[s] = stage[s]
             /\ stage[s].status = "confirmed" =>
                  stage'[s].status = "confirmed" /\ stage'[s].ident = stage[s].ident
  <2>1. stage[s] \in Row /\ RowOK(stage[s])
    BY RowFacts
  <2>2. rec[t].found[s] \in Block /\ rec[t].found[s] # NoBlock
    BY <1>1 DEF StageInv, ThreadType, Recs, HoldInv
  <2>3. CASE s \in marked
    <3>1. ~Refused(t, s)
      BY <2>3
    <3>2. stage'[s] = [stage[s] EXCEPT !.status = "confirmed", !.ident = rec[t].found[s]]
      BY <1>2, <2>3
    <3> QED
      BY <2>1, <2>2, <3>1, <3>2 DEF Refused, RowOK, Row
  <2>4. CASE s \notin marked
    BY <1>2, <2>1, <2>4
  <2> QED
    BY <2>3, <2>4
<1>4. stage' \in [Stage -> Row] /\ phase' \in {phase, "ready_to_migrate"}
  BY <1>2, <1>3
<1>5. /\ rec'[t].pc = "idle" /\ \A u \in Thread : u # t => rec'[u] = rec[u]
      /\ TypeOK' /\ ThreadType' /\ PassShape' /\ AttemptInv' /\ HoldInv'
  BY <1>1, <1>3, <1>4, EndStep
<1>6. refused = {} => \A s \in Stage : stage[s].status # "awaiting_inputs"
  BY DEF Refused
<1>7. refused = {} => \A s \in Stage : stage'[s].status = "confirmed" /\ stage'[s].ident # NoBlock
  BY <1>2, <1>3 DEF RowOK
<1>8. Moved \subseteq Moved'
  BY <1>1, <1>3 DEF Moved
<1>9. \A u \in Thread : WillWait(u) => WillWait(u)'
  BY <1>1, <1>5 DEF WillWait
<1> HIDE DEF refused
<1>10. ASSUME ThreadsInv PROVE ThreadsInv'
  <2>1. CASE t = "sync"
    <3>0. rec'["foreground"] = rec["foreground"] /\ rec["sync"].pc = "confirm" /\ pass' = pass
      BY <1>1, <1>5, <2>1, Threads
    <3>1. SeenInv' /\ ConfirmInv'
      BY <1>1, <1>3, <1>10, <3>0 DEF ThreadsInv, SeenInv, tx, ConfirmInv, Holding
    <3>2. \A s \in Stage : seen[s] # NoBlock
      BY <3>0, Threads DEF StageInv, HoldInv
    <3>3. ReadyInv'
      <4>1. CASE phase' = phase
        BY <1>1, <1>3, <1>9, <1>10, <3>0, <4>1 DEF ThreadsInv, ReadyInv
      <4>2. CASE refused = {}
        BY <1>1, <1>7, <3>2, <4>2 DEF ReadyInv
      <4> QED
        BY <1>2, <4>1, <4>2
    <3> QED
      BY <3>1, <3>3 DEF ThreadsInv
  <2>2. CASE t = "foreground"
    <3>0. /\ rec'["sync"] = rec["sync"] /\ rec["foreground"].pc = "confirm"
          /\ rec'["foreground"].pc = "idle" /\ pass'.pc \in BeforeRecovery
      BY <1>1, <1>5, <2>2, Threads, NothingOK DEF BeforeRecovery
    <3>a. pass.pc # "record"
      BY <3>0 DEF StageInv, PassShape
    <3>1. SeenInv' /\ ConfirmInv'
      BY <1>1, <1>3, <1>10, <3>0, <3>a DEF ThreadsInv, SeenInv, ConfirmInv
    <3>2. ReadyInv'
      <4>1. CASE phase' = phase
        BY <1>1, <1>3, <1>8, <1>9, <1>10, <3>0, <4>1 DEF ThreadsInv, ReadyInv
      <4>2. CASE refused = {}
        <5>1. ASSUME NEW s \in Stage, seen[s] = NoBlock
              PROVE  WillWait("sync") \/ (rec["sync"].pc = "read" /\ s \in Moved')
          <6>1. \/ rec["sync"].pc = "read"
                \/ rec["sync"].pc \in Holding /\ s \in rec["sync"].invalid
            BY <1>6, <1>10, <3>0, <4>2, <5>1 DEF ThreadsInv, ConfirmInv
          <6>2. s \in Moved'
            BY <1>1, <1>7, <4>2, <5>1 DEF Moved
          <6>3. rec["sync"].invalid \subseteq rec["sync"].affected
            BY Threads DEF StageInv, HoldInv
          <6> QED
            BY <6>1, <6>2, <6>3 DEF WillWait, Holding
        <5> QED
          BY <1>1, <1>7, <1>9, <3>0, <4>2, <5>1, Threads DEF ReadyInv
      <4> QED
        BY <1>2, <4>1, <4>2
    <3> QED
      BY <3>1, <3>2 DEF ThreadsInv
  <2> QED
    BY <2>1, <2>2, Threads
<1> QED
  BY <1>1, <1>2, <1>5, <1>10 DEF StageInv, Terminal

----------------------------------------------------------------------------
(* The theorems                                                            *)

\* Init establishes the invariant: nothing is known, seen or held.
LEMMA InitInv == ASSUME Init PROVE StageInv
<1>1. /\ phase = "waiting_denom_confirmations" /\ tip = 1 /\ scanned = 1 /\ mempool = {}
      /\ rec = [t \in Thread |-> NoRec] /\ pass = NoPass /\ forks = 0 /\ crashes = 0
      /\ mined = [s \in Stage |-> NoBlock] /\ seen = mined
  BY DEF Init
<1>2. \A s \in Stage : stage[s] \in Row /\ stage[s].status # "confirmed" /\ stage[s].ident = NoBlock
  <2>1. 0 \in 0 .. MaxHeight + MaxDelay
    BY Bounds
  <2> QED
    BY <2>1, NothingOK DEF Init, Row
<1>3. stage \in [Stage -> Row]
  BY <1>2 DEF Init
<1>4. TypeOK
  <2>1. tip \in 1 .. MaxHeight /\ scanned \in 0 .. tip /\ forks \in 0 .. MaxForks /\ crashes \in 0 .. MaxCrashes
    BY <1>1, Bounds
  <2> QED
    BY <1>1, <1>2, <1>3, <2>1, NothingOK DEF TypeOK
<1>5. ThreadType /\ PassShape /\ HoldInv
  BY <1>1, NothingOK, Threads DEF ThreadType, PassShape, HoldInv, Chosen, Holding
<1>6. AttemptInv
  BY <1>1, NothingOK DEF AttemptInv, Known
<1>7. ThreadsInv
  BY <1>1, NothingOK, Threads DEF ThreadsInv, SeenInv, tx, ConfirmInv, ReadyInv
<1> QED
  BY <1>4, <1>5, <1>6, <1>7 DEF StageInv

\* A step of a reconciliation, of either thread.
LEMMA ReconcileKeeps ==
    ASSUME StageInv, NEW t \in Thread, Reconcile(t) \/ Confirm(t) PROVE StageInv'
BY ReadChainKeeps, ResetChildrenKeeps, ReconcileStagesKeeps, WaitAgainKeeps, ReadDepthKeeps,
   ConfirmStagesKeeps DEF Reconcile, Confirm

\* Every step keeps the invariant.
LEMMA StepInv == StageInv /\ [Next]_vars => StageInv'
<1> SUFFICES ASSUME StageInv, [Next]_vars PROVE StageInv'
  OBVIOUS
<1>1. CASE PassStep
  BY <1>1, ReadStagesKeeps, LookUpKeeps, AdoptKeeps, RecordMinedKeeps, StagesLookedUpKeeps, CheckExpiryKeeps, RetireKeeps, ReadTipKeeps, AttemptKeeps, SubmitKeeps,
     AnswerKeeps, MarkKeeps, ProveKeeps, PromoteKeeps DEF PassStep
<1>2. CASE Foreground
  BY <1>1, <1>2, AdvanceKeeps, ReconcileKeeps, Threads DEF Foreground
<1>3. CASE Sync
  BY <1>3, ScanKeeps, ReconcileKeeps, Threads DEF Sync
<1>4. CASE Mine
  BY <1>4, MineKeeps
<1>5. CASE \E h \in 2 .. MaxHeight : Reorg(h)
  BY <1>5, ReorgKeeps
<1>6. CASE Crash
  BY <1>6, CrashKeeps
<1>7. CASE UNCHANGED vars
  <2>1. UNCHANGED <<phase, stage, tip, mined, mempool, scanned, seen, rec, pass, forks, crashes>>
    BY <1>7 DEF vars
  <2>2. TypeOK' /\ (\A s \in Stage : Known(s)' => Known(s))
    BY <2>1 DEF StageInv, TypeOK, Known
  <2> QED
    BY <2>1, <2>2, ChainStep
<1> QED
  BY <1>2, <1>3, <1>4, <1>5, <1>6, <1>7 DEF Next

\* The threads keep the table after the scanned chain, or are on the way to
\* (advance_staged_denomination_run, reconcile_denomination_stage_chain_state).
THEOREM StageInvariant == Spec => []StageInv
<1>1. Init => StageInv
  BY InitInv
<1> QED
  BY <1>1, StepInv, PTL DEF Spec

\* Every stage is stored with a status of the schema, and with an inclusion
\* exactly when it is confirmed.
THEOREM StageTyping == Spec => []TypeOK
<1>1. StageInv => TypeOK
  BY DEF StageInv
<1> QED
  BY <1>1, StageInvariant, PTL

\* A pending stage the network knows is marked as attempted, whatever resets,
\* lost answers, restarts and forks come in between
\* (mark_denomination_broadcast_attempted).
THEOREM KnownStageAlwaysAttempted == Spec => []KnownStageWasAttempted
<1>1. StageInv => KnownStageWasAttempted
  BY DEF StageInv, AttemptInv, KnownStageWasAttempted
<1> QED
  BY <1>1, StageInvariant, PTL

\* Without a restart, a run that is ready with no thread at work has every
\* stage confirmed and on the scanned chain, however the two reconciliations
\* overlap (reconcile_denomination_confirmations).
THEOREM ReadyAlwaysHasEveryStage == Spec => []ReadyHasEveryStage
<1>1. StageInv => ReadyHasEveryStage
  <2> SUFFICES ASSUME StageInv, crashes = 0, Settled, phase = "ready_to_migrate", NEW s \in Stage
               PROVE  stage[s].status = "confirmed" /\ seen[s] # NoBlock
    BY DEF ReadyHasEveryStage
  <2>1. ReadyInv
    BY DEF StageInv, ThreadsInv, Terminal
  <2>2. \A t \in Thread : rec[t].pc = "idle"
    BY DEF Settled
  <2>3. \A t \in Thread : ~WillWait(t)
    BY <2>2 DEF WillWait
  <2> QED
    BY <2>1, <2>2, <2>3, Threads DEF ReadyInv
<1> QED
  BY <1>1, StageInvariant, PTL
============================================================================
