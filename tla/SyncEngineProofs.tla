------------------------- MODULE SyncEngineProofs -------------------------
(***************************************************************************)
(* The safety properties of SyncEngine, for every budget, distance, batch  *)
(* size, chain height and number of forks and failures.                    *)
(*                                                                         *)
(* The first part shows what holds of the run, the queue and the tip; the  *)
(* second that one table of ancestors explains everything that was ever    *)
(* downloaded and stored.  Together they say that a completed run has      *)
(* stored one chain.                                                       *)
(***************************************************************************)
EXTENDS SyncEngineInv, SequenceTheorems, WellFoundedInduction, TLAPS

----------------------------------------------------------------------------
(* Facts about constants and helpers                                       *)

\* The bounds, one by one.
LEMMA Bounds ==
    /\ MaxRewinds \in Nat /\ MaxRetries \in Nat /\ Confirmations \in Nat
    /\ MaxForks \in Nat /\ MaxFaults \in Nat
    /\ MaxRepairs \in Nat \ {0} /\ MaxBatch \in Nat \ {0} /\ MaxHeight \in Nat \ {0}
    /\ FirstHeight \in 1 .. MaxHeight
BY SyncConstants

\* A non-empty set of naturals has a least element: the relation < on Nat is
\* well founded.
LEMMA LeastExists ==
    ASSUME NEW S \in SUBSET Nat, S # {}
    PROVE  \E x \in S : \A y \in S : x <= y
<1> DEFINE R == {ss \in Nat \X Nat : ss[1] < ss[2]}
<1>1. IsWellFoundedOn(R, Nat)
  BY NatLessThanWellFounded DEF OpToRel
<1> HIDE DEF R
<1>2. PICK x \in S : \A y \in S : ~ (<<y, x>> \in R)
  BY <1>1, WFMin
<1>3. ASSUME NEW y \in S PROVE x <= y
  <2>1. x \in Nat /\ y \in Nat
    OBVIOUS
  <2>2. ~ (<<y, x>> \in R)
    BY <1>2, <1>3
  <2>3. ~ (y < x)
    BY <2>1, <2>2 DEF R
  <2> QED
    BY <2>1, <2>3
<1> QED
  BY <1>3

\* Least finds it.
LEMMA LeastIsMember ==
    ASSUME NEW S \in SUBSET Nat, S # {}
    PROVE  Least(S) \in S /\ \A y \in S : Least(S) <= y
BY LeastExists DEF Least

\* The smaller of two.
LEMMA LeastOfTwo ==
    ASSUME NEW a \in Nat, NEW b \in Nat
    PROVE  /\ Least({a, b}) \in {a, b}
           /\ Least({a, b}) <= a /\ Least({a, b}) <= b
<1>1. {a, b} \in SUBSET Nat /\ {a, b} # {}
  OBVIOUS
<1> QED
  BY <1>1, LeastIsMember

\* Below stays between 0 and the height.
LEMMA BelowIsBelow ==
    ASSUME NEW h \in Nat, NEW d \in Nat
    PROVE  Below(h, d) \in 0 .. h
BY DEF Below

\* A rewind of the scan goes to a height below the block that does not fit.
LEMMA RewindTargetIsBelow ==
    ASSUME NEW at \in Nat, NEW root \in BOOLEAN, NEW attempt \in Nat
    PROVE  RewindTarget(at, root, attempt) \in 0 .. at
<1> DEFINE k == IF root THEN Least({attempt + 1, Len(RewindDistances)}) ELSE 1
<1>1. Len(RewindDistances) \in Nat /\ Len(RewindDistances) >= 1
  BY SyncConstants, EmptySeq, LenProperties
<1>2. k \in 1 .. Len(RewindDistances)
  <2>1. attempt + 1 \in Nat
    OBVIOUS
  <2> QED
    BY <1>1, <2>1, LeastOfTwo
<1>3. RewindDistances[k] \in Nat
  BY <1>2, SyncConstants, ElementOfSeq
<1> QED
  BY <1>3, BelowIsBelow DEF RewindTarget

\* A tip that was reported lies on a chain of the service.
LEMMA TipAnswerFacts ==
    ASSUME TypeInv, NEW a \in TipAnswers
    PROVE  /\ a.height \in Height /\ a.on \in {chain, replica}
           /\ a.on \in Seq(Fork) /\ a.height <= Len(a.on) /\ Len(a.on) \in Height
<1>1. a.height \in {Len(chain), Len(replica)} /\ a.on \in {chain, replica}
  BY DEF TipAnswers, Views
<1>2. a.height <= Len(a.on)
  BY DEF TipAnswers
<1> QED
  BY <1>1, <1>2 DEF TypeInv, TypeOK

\* The part of a chain that a run remembers.
LEMMA SeenFacts ==
    ASSUME TypeInv, NEW a \in TipAnswers, NEW s, s = SubSeq(a.on, 1, a.height)
    PROVE  /\ s \in Seq(Fork) /\ Len(s) = a.height
           /\ \A i \in 1 .. a.height : s[i] = a.on[i]
<1>1. a.height \in Nat /\ a.height >= 1 /\ a.height <= Len(a.on) /\ a.on \in Seq(Fork) /\ Len(a.on) \in Nat
  BY TipAnswerFacts, Bounds DEF Height
<1>2. \A i \in 1 .. a.height : a.on[i] \in Fork
  BY <1>1, ElementOfSeq
<1>3. /\ s \in Seq(Fork)
      /\ Len(s) = IF 1 <= a.height THEN a.height - 1 + 1 ELSE 0
      /\ \A i \in 1 .. a.height - 1 + 1 : s[i] = a.on[1 + i - 1]
  BY <1>1, <1>2, SubSeqProperties
<1>4. Len(s) = a.height
  BY <1>1, <1>3
<1>5. ASSUME NEW i \in 1 .. a.height PROVE s[i] = a.on[i]
  <2>1. i \in 1 .. a.height - 1 + 1 /\ 1 + i - 1 = i
    BY <1>1
  <2> QED
    BY <1>3, <2>1
<1> QED
  BY <1>3, <1>4, <1>5
----------------------------------------------------------------------------
(* The wallet database                                                     *)

\* What the blocks table, the scan queue and the tip say together.
DbOK ==
    /\ blocks \in [Height -> Fork \cup {NotScanned}]
    /\ dbTip \in 0 .. MaxHeight /\ queue \subseteq 1 .. dbTip
    /\ \A h \in Height : blocks[h] = NotScanned => h > dbTip \/ h \in queue
    /\ \A h \in Height : blocks[h] # NotScanned => h <= dbTip

\* Blocks disappear, but none changes.
Shrinks == \A h \in Height : blocks'[h] \in {blocks[h], NotScanned}

\* All of SyncInv but the lineage.
Progress ==
    /\ TypeInv /\ QueueReachesTip /\ CompletedIsScanned
    /\ RunIsMarked /\ BatchBelowTip /\ TipIsSeen /\ CompleteIsScanned

\* Progress includes it.
LEMMA InvDb == ASSUME Progress PROVE DbOK
BY DEF Progress, TypeInv, TypeOK, QueueReachesTip, DbOK

\* update_chain_tip with a tip that no stored block lies above.
LEMMA TipUpdate ==
    ASSUME NEW stored \in [Height -> Fork \cup {NotScanned}], NEW queued, NEW known,
           NEW tip \in 0 .. MaxHeight,
           \A h \in Height : stored[h] # NotScanned => h <= tip,
           UpdateChainTip(stored, queued, known, tip)
    PROVE  DbOK' /\ dbTip' = tip /\ blocks' = stored
<1>1. ~ \E h \in Height : h > tip /\ stored[h] # NotScanned
  BY Bounds DEF Height
<1>2. /\ blocks' = stored /\ dbTip' = tip
      /\ queue' = {h \in 1 .. tip : stored[h] = NotScanned} \cup (queued \cap 1 .. tip)
  BY <1>1 DEF UpdateChainTip
<1>3. ASSUME NEW h \in Height, stored[h] = NotScanned PROVE h > tip \/ h \in queue'
  <2>1. h > tip \/ h \in 1 .. tip
    BY Bounds DEF Height
  <2> QED
    BY <1>2, <1>3, <2>1
<1>4. queue' \subseteq 1 .. tip
  BY <1>2
<1> QED
  BY <1>2, <1>3, <1>4 DEF DbOK

\* The tip moves up.
LEMMA TipAdvance ==
    ASSUME DbOK, NEW tip \in Height, tip >= dbTip, UpdateChainTip(blocks, queue, dbTip, tip)
    PROVE  DbOK' /\ dbTip' = tip /\ blocks' = blocks
<1>1. \A h \in Height : blocks[h] # NotScanned => h <= tip
  BY Bounds DEF DbOK, Height
<1> QED
  BY <1>1, TipUpdate, Bounds DEF DbOK, Height

\* A rewind with its tip update.
LEMMA RewindKeepsDb ==
    ASSUME DbOK, NEW h \in Nat, NEW tip \in 0 .. MaxHeight, h <= tip \/ dbTip <= tip,
           RewindTo(h, tip)
    PROVE  /\ DbOK' /\ dbTip' = tip /\ Shrinks
           /\ \A k \in Height : blocks'[k] # NotScanned => k <= h
<1> DEFINE stored == TruncatedTo(h)
<1>1. stored \in [Height -> Fork \cup {NotScanned}]
  BY DEF TruncatedTo, DbOK
<1>2. \A k \in Height : stored[k] \in {blocks[k], NotScanned} /\ (stored[k] # NotScanned => k <= h)
  BY Bounds DEF TruncatedTo, Height
<1>3. ASSUME NEW k \in Height, stored[k] # NotScanned PROVE k <= tip
  <2>1. k <= h /\ k <= dbTip
    BY <1>2, <1>3 DEF DbOK
  <2> QED
    BY <2>1, Bounds DEF DbOK, Height
<1> HIDE DEF stored
<1>4. UpdateChainTip(stored, queue \cap 1 .. h, h, tip)
  BY DEF RewindTo, stored
<1>5. DbOK' /\ dbTip' = tip /\ blocks' = stored
  BY <1>1, <1>3, <1>4, TipUpdate
<1> QED
  BY <1>2, <1>5 DEF Shrinks

\* A rewind whose tip update did not happen.
LEMMA TearKeepsDb ==
    ASSUME DbOK, NEW h \in 0 .. dbTip, RewindTears(h)
    PROVE  DbOK' /\ Shrinks
<1>1. /\ blocks' = TruncatedTo(h) /\ queue' = queue \cap 1 .. h /\ dbTip' = h
  BY DEF RewindTears
<1>2. blocks' \in [Height -> Fork \cup {NotScanned}]
  BY <1>1 DEF TruncatedTo, DbOK
<1>3. \A k \in Height : blocks'[k] = IF k > h THEN NotScanned ELSE blocks[k]
  BY <1>1 DEF TruncatedTo
<1>4. h \in 0 .. MaxHeight /\ queue' \subseteq 1 .. dbTip'
  BY <1>1, Bounds DEF DbOK
<1>5. ASSUME NEW k \in Height, blocks'[k] = NotScanned PROVE k > dbTip' \/ k \in queue'
  <2>1. CASE k > h
    BY <2>1, <1>1
  <2>2. CASE ~(k > h)
    <3>1. k \in queue /\ k \in 1 .. h
      BY <2>2, <1>3, <1>5, Bounds DEF DbOK, Height
    <3> QED
      BY <3>1, <1>1
  <2> QED
    BY <2>1, <2>2
<1>6. ASSUME NEW k \in Height, blocks'[k] # NotScanned PROVE k <= dbTip'
  BY <1>1, <1>3, <1>6, Bounds DEF DbOK, Height
<1> QED
  BY <1>1, <1>2, <1>3, <1>4, <1>5, <1>6 DEF DbOK, Shrinks

\* A truncation lands at or just below the height asked for.
LEMMA LandingIsBelow ==
    ASSUME NEW t \in Nat, NEW h \in Landing(t)
    PROVE  h \in 0 .. t
BY DEF Landing

----------------------------------------------------------------------------
(* A run ends, or is tried again                                           *)

\* Whatever ends a run leaves a state that a new one can begin in.
LEMMA EndKeeps ==
    ASSUME Progress, DbOK', NEW label \in {"idle", "retry"}, End(label),
           UNCHANGED <<server, meta>>, stop' \in BOOLEAN, faults' \in 0 .. MaxFaults,
           label = "retry" => pc \notin {"idle", "starting"},
           UNCHANGED <<blocks, dbTip>> \/ pc \notin {"idle", "starting"}
    PROVE  Progress'
<1>1. /\ pc' = label /\ batch' = NoBatch /\ prefetch' = NoBatch /\ seen' = <<>>
      /\ run' = NewRun(IF label = "retry" THEN run.attempt ELSE 0)
  BY DEF End, Drop
<1>2. run' \in Runs
  BY <1>1, Bounds DEF NewRun, Runs, Progress, TypeInv
<1>3. NoBatch \in Batches /\ <<>> \in Seq(Fork)
  BY EmptySeq DEF NoBatch, Batches
<1>4. /\ run'.main \in 0 .. MaxRewinds /\ run'.verifying \in 0 .. MaxRewinds
      /\ run'.attempt \in 0 .. MaxRetries
  BY <1>2 DEF Runs
<1>5. TypeInv'
  BY <1>1, <1>2, <1>3, <1>4 DEF Progress, TypeInv, TypeOK, DbOK, server, meta
<1>6. QueueReachesTip'
  BY <1>1 DEF DbOK, QueueReachesTip
<1>7. RunIsMarked' /\ CompletedIsScanned'
  BY <1>1 DEF Progress, RunIsMarked, CompletedIsScanned, meta
<1>8. BatchBelowTip' /\ TipIsSeen' /\ CompleteIsScanned'
  BY <1>1 DEF BatchBelowTip, TipIsSeen, CompleteIsScanned
<1> QED
  BY <1>5, <1>6, <1>7, <1>8 DEF Progress

Working == {"prepare", "loop", "scan", "after", "check", "final", "complete"}

\* What a step of a working run has to show.
LEMMA RunKeeps ==
    ASSUME Progress, DbOK', UNCHANGED <<server, meta, stop>>, faults' \in 0 .. MaxFaults,
           run' \in Runs, batch' \in Batches, prefetch' \in Batches, seen' \in Seq(Fork),
           pc \notin {"idle", "starting"}, pc' \in Working, run'.tip = dbTip',
           BatchBelowTip', TipIsSeen', CompleteIsScanned'
    PROVE  Progress'
<1>1. /\ run'.main \in 0 .. MaxRewinds /\ run'.verifying \in 0 .. MaxRewinds
      /\ run'.attempt \in 0 .. MaxRetries
  BY DEF Runs
<1>2. TypeInv'
  BY <1>1 DEF Progress, TypeInv, TypeOK, DbOK, server, meta, Working
<1>3. QueueReachesTip'
  BY DEF DbOK, QueueReachesTip
<1>4. inProgress /\ inProgress'
  BY DEF Progress, RunIsMarked, meta
<1>5. RunIsMarked' /\ CompletedIsScanned'
  BY <1>4 DEF RunIsMarked, CompletedIsScanned
<1> QED
  BY <1>2, <1>3, <1>5 DEF Progress

\* A fault stays within its bound.
LEMMA FaultKeeps ==
    ASSUME Progress, Fault
    PROVE  faults' \in 0 .. MaxFaults
BY Bounds DEF Fault, Progress, TypeInv, TypeOK

----------------------------------------------------------------------------
(* The tip                                                                 *)

\* rewind_for_confirmed_tip_reorg
LEMMA TipReorgKeeps ==
    ASSUME Progress, NEW height \in Height, height = dbTip, NEW next \in {"prepare", "loop"},
           RewindForTipReorg(height, next), pc \notin {"idle", "starting"},
           UNCHANGED <<server, meta, stop>>
    PROVE  Progress' /\ Shrinks
<1>0. DbOK /\ height - 1 \in Nat /\ height \in 0 .. MaxHeight /\ stop' \in BOOLEAN
  BY InvDb, Bounds DEF Height, Progress, TypeInv, TypeOK
<1>1. ASSUME run.main < MaxRewinds, NEW h \in Landing(height - 1),
             RewindTo(h, height), Drop(next), UNCHANGED <<seen, faults>>,
             run' = [run EXCEPT !.main = @ + 1, !.tip = height, !.required = TRUE]
      PROVE  Progress' /\ Shrinks
  <2>1. h \in Nat /\ h <= height
    BY <1>0, LandingIsBelow, Bounds DEF Height
  <2>2. DbOK' /\ dbTip' = height /\ Shrinks
    BY <1>0, <1>1, <2>1, RewindKeepsDb
  <2>3. run' \in Runs /\ run'.tip = height /\ run'.required
    <3>1. run \in Runs /\ run.main \in 0 .. MaxRewinds
      BY DEF Progress, TypeInv, TypeOK
    <3>2. run.main + 1 \in 0 .. MaxRewinds
      BY <3>1, <1>1, Bounds
    <3> QED
      BY <3>1, <3>2, <1>0, <1>1 DEF Runs
  <2>4. NoBatch \in Batches /\ pc' = next /\ batch' = NoBatch /\ prefetch' = NoBatch
    BY <1>1, EmptySeq DEF NoBatch, Batches, Drop
  <2>5. BatchBelowTip' /\ TipIsSeen' /\ CompleteIsScanned'
    BY <2>3, <2>4 DEF BatchBelowTip, TipIsSeen, CompleteIsScanned
  <2> QED
    BY <1>1, <2>2, <2>3, <2>4, <2>5, RunKeeps DEF Progress, TypeInv, TypeOK, Working
<1>2. ASSUME NEW h \in Landing(height - 1), RewindTears(h), End("idle"), Fault
      PROVE  Progress' /\ Shrinks
  <2>1. h \in 0 .. dbTip
    BY <1>0, <1>2, LandingIsBelow, Bounds DEF DbOK
  <2> QED
    BY <1>0, <1>2, <2>1, TearKeepsDb, FaultKeeps, EndKeeps
<1>3. ASSUME End("retry"), UNCHANGED <<db, faults>>
      PROVE  Progress' /\ Shrinks
  <2>1. DbOK' /\ Shrinks
    BY <1>0, <1>3 DEF DbOK, Shrinks, db
  <2> QED
    BY <1>0, <1>3, <2>1, EndKeeps DEF Progress, TypeInv, TypeOK
<1> QED
  BY <1>1, <1>2, <1>3 DEF RewindForTipReorg

\* What each relation of a reported tip to the wallet's says.
LEMMA Classified ==
    ASSUME NEW current \in Nat, NEW a, a.height \in Nat,
           NEW relation, relation = classify_refreshed_tip(current, a)
    PROVE  /\ relation \in {"ServerBehind", "Advanced", "UnchangedUnverified", "Reorg", "Unchanged"}
           /\ relation = "Advanced" => a.height > current
           /\ relation \in {"UnchangedUnverified", "Reorg", "Unchanged"} => a.height = current
           /\ relation = "UnchangedUnverified" => blocks[current] = NotScanned
           /\ relation = "Unchanged" =>
                 blocks[current] = a.on[current] /\ blocks[current] # NotScanned
<1>1. CASE a.height < current
  BY <1>1 DEF classify_refreshed_tip
<1>2. CASE a.height > current
  <2>1. relation = "Advanced"
    BY <1>2 DEF classify_refreshed_tip
  <2> QED
    BY <2>1, <1>2
<1>3. CASE a.height = current
  <2>1. ~(a.height < current) /\ ~(a.height > current)
    BY <1>3
  <2>2. CASE blocks[current] = NotScanned
    <3>1. relation = "UnchangedUnverified"
      BY <2>1, <2>2 DEF classify_refreshed_tip
    <3> QED
      BY <3>1, <1>3, <2>2
  <2>3. CASE blocks[current] # NotScanned /\ blocks[current] # a.on[current]
    <3>1. relation = "Reorg"
      BY <2>1, <2>3 DEF classify_refreshed_tip
    <3> QED
      BY <3>1, <1>3
  <2>4. CASE blocks[current] # NotScanned /\ blocks[current] = a.on[current]
    <3>1. relation = "Unchanged"
      BY <2>1, <2>4 DEF classify_refreshed_tip
    <3> QED
      BY <3>1, <1>3, <2>4
  <2> QED
    BY <2>2, <2>3, <2>4
<1> QED
  BY <1>1, <1>2, <1>3

\* A tip with nothing queued below it is scanned.
LEMMA DrainedTipIsScanned ==
    ASSUME DbOK, queue = {}, dbTip > 0
    PROVE  blocks[dbTip] # NotScanned
BY Bounds DEF DbOK, Height

\* A tip that was found where the wallet has it is remembered.
LEMMA SeeingTheTip ==
    ASSUME Progress, NEW a \in TipAnswers, a.height = dbTip, blocks[dbTip] = a.on[dbTip],
           seen' = SubSeq(a.on, 1, a.height), UNCHANGED <<blocks, dbTip>>
    PROVE  AtTip' /\ seen' \in Seq(Fork)
<1>1. /\ seen' \in Seq(Fork) /\ Len(seen') = a.height
      /\ \A i \in 1 .. a.height : seen'[i] = a.on[i]
  BY SeenFacts DEF Progress
<1>2. a.height \in 1 .. a.height /\ dbTip > 0 /\ Len(seen') >= dbTip
  BY <1>1, TipAnswerFacts, Bounds DEF Progress, Height
<1> QED
  BY <1>1, <1>2 DEF AtTip

\* A later refresh of the tip.
LEMMA ReconcileKeeps ==
    ASSUME Progress, pc \in {"loop", "after"}, NEW a \in TipAnswers, NEW same \in {"loop", "check"},
           same = "check" => queue = {},
           Reconcile(a, same), UNCHANGED <<server, meta, stop>>
    PROVE  Progress' /\ Shrinks
<1> DEFINE relation == classify_refreshed_tip(run.tip, a)
<1>0. /\ DbOK /\ run.tip = dbTip /\ stop' \in BOOLEAN
      /\ a.height \in Height /\ a.height \in Nat /\ dbTip \in Nat
      /\ run \in Runs /\ batch \in Batches /\ prefetch \in Batches /\ seen \in Seq(Fork)
      /\ faults \in 0 .. MaxFaults
  BY InvDb, TipAnswerFacts, Bounds DEF Progress, TypeInv, TypeOK, QueueReachesTip, Height
<1>1. /\ relation = "Advanced" => a.height > dbTip
      /\ relation \in {"UnchangedUnverified", "Reorg", "Unchanged"} => a.height = dbTip
      /\ relation = "UnchangedUnverified" => blocks[dbTip] = NotScanned
      /\ relation = "Unchanged" => blocks[dbTip] = a.on[dbTip] /\ blocks[dbTip] # NotScanned
  BY <1>0, Classified
<1> HIDE DEF relation
<1>2. ASSUME relation = "ServerBehind", ServerBehind PROVE Progress' /\ Shrinks
  <2>1. End("retry") /\ UNCHANGED <<db, faults>>
    BY <1>2 DEF ServerBehind
  <2>2. DbOK' /\ Shrinks
    BY <1>0, <2>1 DEF DbOK, Shrinks, db
  <2> QED
    BY <1>0, <2>1, <2>2, EndKeeps
<1>3. ASSUME relation = "Unchanged", Goto(same), UNCHANGED <<db, faults>>,
             seen' = SubSeq(a.on, 1, a.height), run' = [run EXCEPT !.required = FALSE]
      PROVE  Progress' /\ Shrinks
  <2>1. DbOK' /\ Shrinks /\ UNCHANGED <<blocks, dbTip>>
    BY <1>0, <1>3 DEF DbOK, Shrinks, db
  <2>2. AtTip' /\ seen' \in Seq(Fork)
    BY <1>1, <1>3, <2>1, SeeingTheTip
  <2>3. run' \in Runs /\ run'.tip = dbTip'
    BY <1>0, <1>3, <2>1 DEF Runs
  <2>4. pc' = same /\ UNCHANGED <<batch, prefetch>>
    BY <1>3 DEF Goto, work
  <2>5. BatchBelowTip' /\ TipIsSeen' /\ CompleteIsScanned'
    BY <2>2, <2>4 DEF BatchBelowTip, TipIsSeen, CompleteIsScanned, AtTip
  <2> QED
    BY <1>0, <1>3, <2>1, <2>2, <2>3, <2>4, <2>5, RunKeeps DEF Working
<1>4. ASSUME relation = "UnchangedUnverified", Goto(same), UNCHANGED <<db, seen, faults>>,
             run' = [run EXCEPT !.required = TRUE]
      PROVE  Progress' /\ Shrinks
  <2>1. DbOK' /\ Shrinks /\ UNCHANGED <<blocks, dbTip>>
    BY <1>0, <1>4 DEF DbOK, Shrinks, db
  <2>2. same = "loop"
    BY <1>0, <1>1, <1>4, DrainedTipIsScanned DEF Height
  <2>3. run' \in Runs /\ run'.tip = dbTip' /\ run'.required
    BY <1>0, <1>4, <2>1 DEF Runs
  <2>4. pc' = "loop" /\ UNCHANGED <<batch, prefetch>>
    BY <1>4, <2>2 DEF Goto, work
  <2>5. BatchBelowTip' /\ TipIsSeen' /\ CompleteIsScanned'
    BY <2>3, <2>4 DEF BatchBelowTip, TipIsSeen, CompleteIsScanned
  <2> QED
    BY <1>0, <1>4, <2>1, <2>3, <2>4, <2>5, RunKeeps DEF Working
<1>5. ASSUME relation = "Advanced", Goto("loop"), UpdateChainTip(blocks, queue, dbTip, a.height),
             run' = [run EXCEPT !.tip = a.height, !.required = TRUE], UNCHANGED <<seen, faults>>
      PROVE  Progress' /\ Shrinks
  <2>1. DbOK' /\ dbTip' = a.height /\ blocks' = blocks
    BY <1>0, <1>1, <1>5, TipAdvance
  <2>2. Shrinks
    BY <2>1 DEF Shrinks
  <2>3. run' \in Runs /\ run'.tip = dbTip' /\ run'.required
    <3>1. a.height \in 0 .. MaxHeight
      BY <1>0, Bounds DEF Height
    <3> QED
      BY <1>0, <1>5, <2>1, <3>1 DEF Runs
  <2>4. pc' = "loop" /\ UNCHANGED <<batch, prefetch>>
    BY <1>5 DEF Goto, work
  <2>5. BatchBelowTip' /\ TipIsSeen' /\ CompleteIsScanned'
    BY <2>3, <2>4 DEF BatchBelowTip, TipIsSeen, CompleteIsScanned
  <2> QED
    BY <1>0, <1>5, <2>1, <2>2, <2>3, <2>4, <2>5, RunKeeps DEF Working
<1>6. ASSUME relation = "Reorg", RewindForTipReorg(a.height, "loop")
      PROVE  Progress' /\ Shrinks
  BY <1>0, <1>1, <1>6, TipReorgKeeps
<1> QED
  BY <1>2, <1>3, <1>4, <1>5, <1>6 DEF Reconcile, relation

\* A refresh between batches that failed.
LEMMA RefreshFailsKeeps ==
    ASSUME Progress, pc \in {"loop", "after"}, RefreshFails, UNCHANGED <<server, meta, stop>>
    PROVE  Progress' /\ Shrinks
<1>1. /\ pc' = "loop" /\ UNCHANGED <<batch, prefetch, blocks, queue, dbTip, seen>> /\ Fault
      /\ run' = [run EXCEPT !.required = TRUE]
  BY DEF RefreshFails, Goto, work, db
<1>2. DbOK' /\ Shrinks
  BY <1>1, InvDb DEF DbOK, Shrinks
<1>3. /\ run \in Runs /\ run.tip = dbTip
      /\ batch' \in Batches /\ prefetch' \in Batches /\ seen' \in Seq(Fork)
  BY <1>1 DEF Progress, TypeInv, TypeOK, QueueReachesTip
<1>4. run' \in Runs /\ run'.tip = dbTip' /\ run'.required
  BY <1>1, <1>3 DEF Runs
<1>5. BatchBelowTip' /\ TipIsSeen' /\ CompleteIsScanned'
  BY <1>1, <1>4 DEF BatchBelowTip, TipIsSeen, CompleteIsScanned
<1> QED
  BY <1>1, <1>2, <1>3, <1>4, <1>5, FaultKeeps, RunKeeps DEF Working

\* The first tip of a run.
LEMMA InitialTipKeeps ==
    ASSUME Progress, InitialTip
    PROVE  Progress' /\ Shrinks
<1>0. pc = "tip" /\ UNCHANGED <<server, meta, stop>>
  BY DEF InitialTip
<1>1. PICK a \in TipAnswers :
        LET relation == IF dbTip = 0 THEN "Advanced" ELSE classify_refreshed_tip(dbTip, a) IN
          \/ relation = "ServerBehind" /\ ServerBehind
          \/ relation = "Reorg" /\ RewindForTipReorg(a.height, "prepare")
          \/ /\ relation \notin {"ServerBehind", "Reorg"} /\ Goto("prepare")
             /\ UpdateChainTip(blocks, queue, dbTip, a.height)
             /\ run' = [run EXCEPT !.tip = a.height, !.required = relation # "Unchanged"]
             /\ seen' = IF relation = "Unchanged" THEN SubSeq(a.on, 1, a.height) ELSE seen
             /\ UNCHANGED faults
  BY DEF InitialTip
<1> DEFINE relation == IF dbTip = 0 THEN "Advanced" ELSE classify_refreshed_tip(dbTip, a)
<1>2. /\ DbOK /\ stop' \in BOOLEAN
      /\ a.height \in Height /\ a.height \in Nat /\ dbTip \in Nat /\ a.height > 0
      /\ run \in Runs /\ batch \in Batches /\ prefetch \in Batches /\ seen \in Seq(Fork)
      /\ faults \in 0 .. MaxFaults
  BY <1>0, InvDb, TipAnswerFacts, Bounds DEF Progress, TypeInv, TypeOK, Height
<1>3. /\ relation \in {"ServerBehind", "Advanced", "UnchangedUnverified", "Reorg", "Unchanged"}
      /\ relation = "Advanced" => a.height > dbTip
      /\ relation \in {"UnchangedUnverified", "Reorg", "Unchanged"} => a.height = dbTip
      /\ relation = "Unchanged" => blocks[dbTip] = a.on[dbTip]
  BY <1>2, Classified
<1>4. \/ relation = "ServerBehind" /\ ServerBehind
      \/ relation = "Reorg" /\ RewindForTipReorg(a.height, "prepare")
      \/ /\ relation \notin {"ServerBehind", "Reorg"} /\ Goto("prepare")
         /\ UpdateChainTip(blocks, queue, dbTip, a.height)
         /\ run' = [run EXCEPT !.tip = a.height, !.required = relation # "Unchanged"]
         /\ seen' = IF relation = "Unchanged" THEN SubSeq(a.on, 1, a.height) ELSE seen
         /\ UNCHANGED faults
  BY <1>1
<1> HIDE DEF relation
<1>5. ASSUME ServerBehind PROVE Progress' /\ Shrinks
  <2>1. End("retry") /\ UNCHANGED <<db, faults>>
    BY <1>5 DEF ServerBehind
  <2>2. DbOK' /\ Shrinks
    BY <1>2, <2>1 DEF DbOK, Shrinks, db
  <2> QED
    BY <1>0, <1>2, <2>1, <2>2, EndKeeps
<1>6. ASSUME relation = "Reorg", RewindForTipReorg(a.height, "prepare")
      PROVE  Progress' /\ Shrinks
  BY <1>0, <1>2, <1>3, <1>6, TipReorgKeeps
<1>7. ASSUME relation \notin {"ServerBehind", "Reorg"}, Goto("prepare"),
             UpdateChainTip(blocks, queue, dbTip, a.height),
             run' = [run EXCEPT !.tip = a.height, !.required = relation # "Unchanged"],
             seen' = IF relation = "Unchanged" THEN SubSeq(a.on, 1, a.height) ELSE seen,
             UNCHANGED faults
      PROVE  Progress' /\ Shrinks
  <2>1. a.height >= dbTip
    BY <1>2, <1>3, <1>7
  <2>2. DbOK' /\ dbTip' = a.height /\ blocks' = blocks
    BY <1>2, <1>7, <2>1, TipAdvance
  <2>3. run' \in Runs /\ run'.tip = dbTip' /\ run'.required = (relation # "Unchanged")
    <3>1. a.height \in 0 .. MaxHeight
      BY <1>2, Bounds DEF Height
    <3> QED
      BY <1>2, <1>7, <2>2, <3>1 DEF Runs
  <2>4. pc' = "prepare" /\ UNCHANGED <<batch, prefetch>>
    BY <1>7 DEF Goto, work
  <2>5. seen' \in Seq(Fork) /\ (relation = "Unchanged" => AtTip')
    <3>1. CASE relation = "Unchanged"
      BY <1>3, <1>7, <2>2, <3>1, SeeingTheTip
    <3>2. CASE relation # "Unchanged"
      BY <1>2, <1>7, <3>2
    <3> QED
      BY <3>1, <3>2
  <2>6. BatchBelowTip' /\ TipIsSeen' /\ CompleteIsScanned'
    BY <2>3, <2>4, <2>5 DEF BatchBelowTip, TipIsSeen, CompleteIsScanned, AtTip
  <2>7. Shrinks
    BY <2>2 DEF Shrinks
  <2> QED
    BY <1>0, <1>2, <1>7, <2>2, <2>3, <2>4, <2>5, <2>6, <2>7, RunKeeps DEF Working
<1> QED
  BY <1>4, <1>5, <1>6, <1>7

\* Refreshes between batches.
LEMMA RefreshKeeps ==
    ASSUME Progress, PeriodicTip \/ PostBatchTip
    PROVE  Progress' /\ Shrinks
<1>1. /\ pc \in {"loop", "after"} /\ UNCHANGED <<server, meta, stop>>
      /\ RefreshFails \/ \E a \in TipAnswers : Reconcile(a, "loop")
  BY DEF PeriodicTip, PostBatchTip
<1> QED
  BY <1>1, ReconcileKeeps, RefreshFailsKeeps

\* The queue is drained.
LEMMA DrainedKeeps ==
    ASSUME Progress, Drained
    PROVE  Progress' /\ Shrinks
<1>0. pc = "loop" /\ queue = {} /\ UNCHANGED <<server, meta, stop>>
  BY DEF Drained
<1>1. ASSUME NEW a \in TipAnswers, Reconcile(a, "check") PROVE Progress' /\ Shrinks
  BY <1>0, <1>1, ReconcileKeeps
<1>2. ASSUME ~run.required, Goto("check"), UNCHANGED <<db, run, seen, faults>>
      PROVE  Progress' /\ Shrinks
  <2>1. pc' = "check" /\ UNCHANGED <<batch, prefetch, blocks, queue, dbTip>>
    BY <1>2 DEF Goto, work, db
  <2>2. DbOK /\ DbOK' /\ Shrinks
    BY <2>1, InvDb DEF DbOK, Shrinks
  <2>3. AtTip
    BY <1>0, <1>2, <2>2, DrainedTipIsScanned DEF Progress, TipIsSeen
  <2>4. BatchBelowTip' /\ TipIsSeen' /\ CompleteIsScanned'
    BY <1>2, <2>1, <2>3 DEF BatchBelowTip, TipIsSeen, CompleteIsScanned, AtTip
  <2>5. /\ run' \in Runs /\ batch' \in Batches /\ prefetch' \in Batches /\ seen' \in Seq(Fork)
        /\ faults' \in 0 .. MaxFaults /\ run'.tip = dbTip'
    BY <1>0, <1>2, <2>1 DEF Progress, TypeInv, TypeOK, QueueReachesTip
  <2> QED
    BY <1>0, <2>1, <2>2, <2>4, <2>5, RunKeeps DEF Working
<1> QED
  BY <1>1, <1>2 DEF Drained, should_refresh_tip_before_completion

----------------------------------------------------------------------------
(* Starting, stopping, looking                                             *)

\* Steps that only move a working run on.
LEMMA StepOnKeeps ==
    ASSUME Progress, Prepare \/ (Check /\ pc' = "final") \/ (Final /\ pc' = "complete")
    PROVE  Progress' /\ Shrinks
<1>1. /\ UNCHANGED <<server, db, meta, stop, run, work, seen, faults>>
      /\ pc \in {"prepare", "check", "final"}
      /\ \/ pc = "prepare" /\ pc' = "loop"
         \/ pc \in {"check", "final"} /\ pc' \in {"final", "complete"} /\ ensure_complete_scan_state
  BY DEF Prepare, Check, Final, Goto, End, Drop
<1>2. DbOK' /\ Shrinks
  BY <1>1, InvDb DEF DbOK, Shrinks, db
<1>3. BatchBelowTip' /\ CompleteIsScanned'
  BY <1>1 DEF BatchBelowTip, CompleteIsScanned, ensure_complete_scan_state, db
<1>4. TipIsSeen'
  BY <1>1 DEF Progress, TipIsSeen, AtTip, db
<1>5. /\ run' \in Runs /\ batch' \in Batches /\ prefetch' \in Batches /\ seen' \in Seq(Fork)
      /\ faults' \in 0 .. MaxFaults /\ run'.tip = dbTip'
  BY <1>1 DEF Progress, TypeInv, TypeOK, QueueReachesTip, db, work
<1>6. pc \notin {"idle", "starting"} /\ pc' \in Working
  BY <1>1 DEF Working
<1> QED
  BY <1>1, <1>2, <1>3, <1>4, <1>5, <1>6, RunKeeps

\* Steps that end a run and leave the database alone.
LEMMA GiveUpKeeps ==
    ASSUME Progress,
           \/ Exit \/ RpcFails \/ Crash \/ BatchMissing
           \/ (Check /\ pc' # "final") \/ (Final /\ pc' # "complete")
    PROVE  Progress' /\ Shrinks
<1>1. /\ UNCHANGED <<server, db, meta, stop>> /\ pc # "idle"
      /\ UNCHANGED faults \/ Fault
      /\ \/ End("idle")
         \/ End("retry") /\ pc \notin {"idle", "starting"}
  BY DEF Exit, RpcFails, Crash, BatchMissing, Check, Final, Goto
<1>2. DbOK' /\ Shrinks /\ UNCHANGED <<blocks, dbTip>>
  BY <1>1, InvDb DEF DbOK, Shrinks, db
<1>3. stop' \in BOOLEAN /\ faults' \in 0 .. MaxFaults
  BY <1>1, FaultKeeps DEF Progress, TypeInv, TypeOK
<1> QED
  BY <1>1, <1>2, <1>3, EndKeeps

\* A run is started, stopped from outside, or begun; the service moves on.
LEMMA OutsideKeeps ==
    ASSUME Progress, Start \/ Begin \/ Stop
    PROVE  Progress' /\ Shrinks
<1>1. /\ UNCHANGED <<server, blocks, queue, dbTip, completed, run, batch, prefetch, seen>>
      /\ stop' \in BOOLEAN /\ (UNCHANGED faults \/ Fault)
      /\ \/ pc' = "starting" /\ UNCHANGED inProgress
         \/ pc' = "tip" /\ inProgress' = TRUE
         \/ UNCHANGED <<pc, inProgress>>
  BY DEF Start, Begin, Stop, Goto, work, db, meta, Progress, TypeInv, TypeOK
<1>2. faults' \in 0 .. MaxFaults /\ Shrinks
  BY <1>1, FaultKeeps DEF Progress, TypeInv, TypeOK, Shrinks
<1>3. TypeInv'
  <2>1. pc' \in {"idle", "starting", "tip", "prepare", "loop", "scan", "after", "check",
                 "final", "complete", "retry"}
    BY <1>1 DEF Progress, TypeInv, TypeOK
  <2>2. inProgress' \in BOOLEAN
    <3>1. inProgress \in BOOLEAN
      BY DEF Progress, TypeInv, TypeOK
    <3> QED
      BY <3>1, <1>1
  <2> QED
    BY <1>1, <1>2, <2>1, <2>2 DEF Progress, TypeInv, TypeOK, server
<1>4. QueueReachesTip' /\ CompletedIsScanned' /\ RunIsMarked'
  BY <1>1 DEF Progress, QueueReachesTip, CompletedIsScanned, RunIsMarked
<1>5. BatchBelowTip' /\ TipIsSeen' /\ CompleteIsScanned'
  BY <1>1 DEF Progress, BatchBelowTip, TipIsSeen, CompleteIsScanned, AtTip
<1> QED
  BY <1>2, <1>3, <1>4, <1>5 DEF Progress

\* Another attempt, or none.
LEMMA RetryKeeps ==
    ASSUME Progress, Retry
    PROVE  Progress' /\ Shrinks
<1>1. /\ UNCHANGED <<server, blocks, queue, dbTip, completed, stop, seen, faults, batch, prefetch>>
      /\ \/ run.attempt < MaxRetries /\ pc' = "tip" /\ inProgress' = TRUE
            /\ run' = NewRun(run.attempt + 1)
         \/ pc' = "idle" /\ run' = NewRun(0) /\ UNCHANGED inProgress
  BY DEF Retry, Goto, work, db
<1>2. run' \in Runs
  <2>1. run.attempt \in 0 .. MaxRetries
    BY DEF Progress, TypeInv, TypeOK
  <2>2. run.attempt < MaxRetries => run.attempt + 1 \in 0 .. MaxRetries
    BY <2>1, Bounds
  <2>3. ASSUME NEW n \in 0 .. MaxRetries PROVE NewRun(n) \in Runs
    BY Bounds DEF NewRun, Runs
  <2>4. 0 \in 0 .. MaxRetries
    BY Bounds
  <2> QED
    BY <1>1, <2>2, <2>3, <2>4
<1>3. /\ run'.main \in 0 .. MaxRewinds /\ run'.verifying \in 0 .. MaxRewinds
      /\ run'.attempt \in 0 .. MaxRetries
  BY <1>2 DEF Runs
<1>4. TypeInv'
  BY <1>1, <1>2, <1>3 DEF Progress, TypeInv, TypeOK, server
<1>5. QueueReachesTip' /\ CompletedIsScanned' /\ RunIsMarked'
  BY <1>1 DEF Progress, QueueReachesTip, CompletedIsScanned, RunIsMarked
<1>6. BatchBelowTip' /\ TipIsSeen' /\ CompleteIsScanned' /\ Shrinks
  BY <1>1 DEF BatchBelowTip, TipIsSeen, CompleteIsScanned, Shrinks
<1> QED
  BY <1>4, <1>5, <1>6 DEF Progress

\* The run completed.
LEMMA MarkKeeps ==
    ASSUME Progress, mark_sync_completed
    PROVE  Progress' /\ Shrinks
<1>1. /\ pc = "complete" /\ completed' = run.tip /\ inProgress' = FALSE /\ End("idle")
      /\ UNCHANGED <<server, blocks, queue, dbTip, stop, faults>>
  BY DEF mark_sync_completed, db
<1>2. /\ pc' = "idle" /\ batch' = NoBatch /\ prefetch' = NoBatch /\ seen' = <<>>
      /\ run' = NewRun(0)
  BY <1>1 DEF End, Drop
<1>3. run' \in Runs /\ NoBatch \in Batches /\ <<>> \in Seq(Fork)
  BY <1>2, Bounds, EmptySeq DEF NewRun, Runs, NoBatch, Batches
<1>4. /\ run'.main \in 0 .. MaxRewinds /\ run'.verifying \in 0 .. MaxRewinds
      /\ run'.attempt \in 0 .. MaxRetries
  BY <1>3 DEF Runs
<1>5. run.tip = dbTip /\ \A h \in 1 .. dbTip : blocks[h] # NotScanned
  BY <1>1 DEF Progress, QueueReachesTip, CompleteIsScanned
<1>6. TypeInv'
  BY <1>1, <1>2, <1>3, <1>4, <1>5 DEF Progress, TypeInv, TypeOK, server
<1>7. CompletedIsScanned'
  BY <1>1, <1>5 DEF CompletedIsScanned, Progress, TypeInv, TypeOK
<1>8. QueueReachesTip' /\ RunIsMarked'
  BY <1>1, <1>2 DEF Progress, QueueReachesTip, RunIsMarked
<1>9. BatchBelowTip' /\ TipIsSeen' /\ CompleteIsScanned' /\ Shrinks
  BY <1>1, <1>2 DEF BatchBelowTip, TipIsSeen, CompleteIsScanned, Shrinks
<1> QED
  BY <1>6, <1>7, <1>8, <1>9 DEF Progress

\* An import queues blocks that were scanned before.
LEMMA ImportKeeps ==
    ASSUME Progress, ImportAccount
    PROVE  Progress' /\ Shrinks
<1>1. /\ UNCHANGED <<server, blocks, dbTip, meta, pc, stop, run, work, seen>> /\ Fault
      /\ \E h \in 1 .. dbTip : queue' = queue \cup (1 .. h)
  BY DEF ImportAccount
<1>2. queue \subseteq queue' /\ queue' \subseteq 1 .. dbTip
  BY <1>1 DEF Progress, TypeInv, TypeOK
<1>3. faults' \in 0 .. MaxFaults /\ Shrinks
  BY <1>1, FaultKeeps DEF Shrinks
<1>4. TypeInv'
  BY <1>1, <1>2, <1>3 DEF Progress, TypeInv, TypeOK, server, meta, work
<1>5. QueueReachesTip' /\ CompletedIsScanned' /\ RunIsMarked'
  BY <1>1, <1>2 DEF Progress, QueueReachesTip, CompletedIsScanned, RunIsMarked, meta
<1>6. BatchBelowTip' /\ TipIsSeen' /\ CompleteIsScanned'
  BY <1>1 DEF Progress, BatchBelowTip, TipIsSeen, CompleteIsScanned, AtTip, work
<1> QED
  BY <1>3, <1>4, <1>5, <1>6 DEF Progress

----------------------------------------------------------------------------
(* Ancestors                                                               *)

\* The block that a fork's block points to is its ancestor.
LEMMA ParentIsAncestor ==
    ASSUME TypeInv, NEW path, Lineage(path), NEW h \in Height, h > 1, NEW f \in Forks,
           path[f][h] = f
    PROVE  Parent(h, f) = path[f][h - 1]
<1>1. h - 1 \in Height /\ (h - 1) + 1 = h
  BY Bounds DEF Height
<1>2. base[f].at \in Nat /\ base[f].at <= h
  <2>1. base[f].at \in Height
    BY DEF TypeInv, TypeOK, Forks
  <2>2. base[f].at <= h
    BY DEF Lineage
  <2> QED
    BY <2>1, <2>2, Bounds DEF Height
<1>3. CASE base[f].at = h
  BY <1>1, <1>3 DEF Lineage, Parent
<1>4. CASE base[f].at # h
  <2>1. base[f].at <= h - 1
    BY <1>2, <1>4, Bounds DEF Height
  <2> QED
    BY <1>1, <1>4, <2>1 DEF Lineage, Parent
<1> QED
  BY <1>3, <1>4

\* The ancestors of an ancestor are ancestors.
LEMMA AncestorsOf ==
    ASSUME NEW path, Lineage(path), NEW f \in Forks, NEW h \in Height, NEW g \in 1 .. h
    PROVE  path[f][h] \in Forks /\ path[path[f][h]][g] = path[f][g]
BY DEF Lineage

\* The chains that the service serves.
LEMMA ViewFacts ==
    ASSUME TypeInv, NEW path, OneLineage(path), NEW v \in Views
    PROVE  v \in Seq(Fork) /\ Len(v) \in Height /\ Descends(path, 1, v)
BY DEF Views, TypeInv, TypeOK, OneLineage

\* A downloaded batch.
LEMMA DownloadFacts ==
    ASSUME TypeInv, NEW path, OneLineage(path), NEW v \in Views,
           NEW start \in Nat, NEW end \in Nat, 1 <= start, start <= end, end <= Len(v),
           NEW b, b = Download(v, start, end)
    PROVE  b \in Batches /\ b # NoBatch /\ LastOf(b) = end /\ Piece(path, b)
<1>1. /\ v \in Seq(Fork) /\ Len(v) \in Nat /\ Len(v) <= MaxHeight
      /\ Descends(path, 1, v) /\ Lineage(path)
  BY ViewFacts, Bounds DEF Height, OneLineage
<1> DEFINE s == SubSeq(v, start, end)
<1>2. b.start = start /\ b.prev = Parent(start, v[start]) /\ b.hashes = s
      /\ b = [start |-> start, prev |-> b.prev, hashes |-> s]
  BY DEF Download
<1>3. \A i \in start .. end : v[i] \in Fork
  BY <1>1, ElementOfSeq
<1>4. /\ s \in Seq(Fork)
      /\ Len(s) = IF start <= end THEN end - start + 1 ELSE 0
      /\ \A i \in 1 .. end - start + 1 : s[i] = v[start + i - 1]
  BY <1>1, <1>3, SubSeqProperties
<1> HIDE DEF s
<1>5. Len(s) = end - start + 1 /\ s # <<>>
  BY <1>4, EmptySeq
<1>6. LastOf(b) = end
  BY <1>2, <1>5 DEF LastOf
<1>7. start \in Height /\ end \in Height
  BY <1>1, Bounds DEF Height
<1>8. Descends(path, start, s)
  <2>1. SUFFICES ASSUME NEW j \in 1 .. Len(s), NEW i \in 1 .. j
                 PROVE  s[j] \in Forks /\ path[s[j]][start + i - 1] = s[i]
    BY DEF Descends
  <2>2. /\ j \in 1 .. end - start + 1 /\ i \in 1 .. end - start + 1
        /\ start + j - 1 \in 1 .. Len(v) /\ start + i - 1 \in 1 .. start + j - 1
        /\ 1 + (start + i - 1) - 1 = start + i - 1
    BY <1>1, <1>5
  <2>3. s[j] = v[start + j - 1] /\ s[i] = v[start + i - 1]
    BY <1>4, <2>2
  <2>4. v[start + j - 1] \in Forks
        /\ path[v[start + j - 1]][1 + (start + i - 1) - 1] = v[start + i - 1]
    BY <1>1, <2>2 DEF Descends
  <2> QED
    BY <2>2, <2>3, <2>4
<1>9. s[1] = v[start] /\ s[1] \in Forks /\ path[s[1]][start] = s[1]
  <2>1. 1 \in 1 .. Len(s) /\ 1 \in 1 .. 1 /\ 1 \in 1 .. end - start + 1 /\ start + 1 - 1 = start
    BY <1>5
  <2> QED
    BY <1>4, <1>8, <2>1 DEF Descends
<1>10. start > 1 => b.prev = path[s[1]][start - 1]
  BY <1>1, <1>2, <1>7, <1>9, ParentIsAncestor
<1>11. b.prev \in Fork \cup {0}
  <2>1. Forks \subseteq Fork
    BY Bounds DEF TypeInv, Forks, Fork
  <2>2. base[s[1]].from \in Fork \cup {0}
    BY <1>9 DEF TypeInv, TypeOK, Forks
  <2> QED
    BY <1>2, <1>9, <2>1, <2>2 DEF Parent
<1>12. b \in Batches
  BY <1>2, <1>4, <1>11 DEF Batches
<1>13. b # NoBatch
  BY <1>2, <1>5 DEF NoBatch
<1>14. Piece(path, b)
  BY <1>2, <1>5, <1>6, <1>7, <1>8, <1>10 DEF Piece
<1> QED
  BY <1>6, <1>12, <1>13, <1>14

----------------------------------------------------------------------------
(* The scan                                                                *)

\* The next batch ends where its range or the batch size says, and the batch
\* prefetched after it begins there.
LEMMA NextBatchFacts ==
    ASSUME Progress, NEW path, OneLineage(path), NextBatch
    PROVE  /\ batch' \in Batches /\ batch' # NoBatch /\ Piece(path, batch') /\ LastOf(batch') <= dbTip
           /\ prefetch' \in Batches /\ Piece(path, prefetch')
<1> USE DEF Progress
<1>1. PICK first \in queue, last \in queue :
          LET end == Least({first + MaxBatch - 1, last})
              after == Least({end + MaxBatch, last})
          IN
          /\ first <= last /\ first .. last \subseteq queue
          /\ batch' \in PrefetchedOrDownloaded(first, end)
          /\ \/ (end = last \/ \E v \in Views : after > Len(v)) /\ prefetch' = NoBatch
             \/ \E v \in Views :
                   end < last /\ after <= Len(v) /\ prefetch' = Download(v, end + 1, after)
  BY DEF NextBatch
<1> DEFINE end == Least({first + MaxBatch - 1, last})
           after == Least({end + MaxBatch, last})
<1>2. /\ first \in Nat /\ last \in Nat /\ 1 <= first /\ first <= last /\ last <= dbTip
      /\ dbTip \in Nat
  BY <1>1 DEF TypeInv, TypeOK
<1>3. first + MaxBatch - 1 \in Nat /\ first + MaxBatch - 1 >= first
  BY <1>2, Bounds
<1>4. end \in Nat /\ first <= end /\ end <= last
  BY <1>2, <1>3, LeastOfTwo
<1> HIDE DEF end
<1>5. end < last => after \in Nat /\ end + 1 <= after
  <2>1. end + MaxBatch \in Nat /\ end + MaxBatch >= end + 1
    BY <1>4, Bounds
  <2> QED
    BY <1>2, <1>4, <2>1, LeastOfTwo
<1> HIDE DEF after
<1>6. batch' \in PrefetchedOrDownloaded(first, end)
  BY <1>1 DEF end
<1>7. batch' \in Batches /\ batch' # NoBatch /\ Piece(path, batch') /\ LastOf(batch') = end
  <2>1. CASE prefetch.start = first /\ LastOf(prefetch) = end
    <3>1. batch' = prefetch
      BY <1>6, <2>1 DEF PrefetchedOrDownloaded
    <3>2. prefetch # NoBatch
      BY <1>2, <2>1 DEF NoBatch
    <3> QED
      BY <2>1, <3>1, <3>2 DEF TypeInv, OneLineage, Piece, LastOf, Descends
  <2>2. CASE ~(prefetch.start = first /\ LastOf(prefetch) = end)
    <3>1. PICK v \in Views : end <= Len(v) /\ batch' = Download(v, first, end)
      BY <1>6, <2>2 DEF PrefetchedOrDownloaded
    <3> QED
      BY <1>2, <1>4, <3>1, DownloadFacts
  <2> QED
    BY <2>1, <2>2
<1>8. prefetch' \in Batches /\ Piece(path, prefetch')
  <2>1. CASE prefetch' = NoBatch
    BY <2>1, EmptySeq DEF NoBatch, Batches, Piece
  <2>2. CASE prefetch' # NoBatch
    <3>1. PICK v \in Views : end < last /\ after <= Len(v) /\ prefetch' = Download(v, end + 1, after)
      BY <1>1, <2>2 DEF end, after
    <3>2. end + 1 \in Nat /\ after \in Nat /\ 1 <= end + 1 /\ end + 1 <= after
      BY <1>4, <1>5, <3>1
    <3> QED
      BY <3>1, <3>2, DownloadFacts
  <2> QED
    BY <2>1, <2>2
<1>9. end <= dbTip
  BY <1>2, <1>4
<1> QED
  BY <1>7, <1>8, <1>9

\* A batch is taken up.
LEMMA NextBatchKeeps ==
    ASSUME Progress, NEW path, OneLineage(path), NextBatch
    PROVE  Progress' /\ Shrinks
<1>1. /\ pc = "loop" /\ pc' = "scan"
      /\ UNCHANGED <<server, blocks, queue, dbTip, meta, stop, run, seen, faults>>
  BY DEF NextBatch, db
<1>2. DbOK' /\ Shrinks
  BY <1>1, InvDb DEF DbOK, Shrinks
<1>3. BatchBelowTip'
  <2>1. batch' # NoBatch /\ LastOf(batch') <= dbTip
    BY NextBatchFacts
  <2> QED
    BY <1>1, <2>1 DEF BatchBelowTip, LastOf, NoBatch
<1>4. TipIsSeen' /\ CompleteIsScanned'
  BY <1>1 DEF Progress, TipIsSeen, AtTip, CompleteIsScanned
<1>5. /\ run' \in Runs /\ seen' \in Seq(Fork) /\ faults' \in 0 .. MaxFaults /\ run'.tip = dbTip'
  BY <1>1 DEF Progress, TypeInv, TypeOK, QueueReachesTip
<1>6. batch' \in Batches /\ prefetch' \in Batches
  BY NextBatchFacts
<1> QED
  BY <1>1, <1>2, <1>3, <1>4, <1>5, <1>6, RunKeeps DEF Working

\* A rewind keeps what is known about the tip.
LEMMA TipAfterRewind ==
    ASSUME Progress, pc \in {"scan", "check"}, pc' = "loop", Shrinks, run'.required = run.required,
           UNCHANGED <<dbTip, seen>>
    PROVE  TipIsSeen'
<1>1. CASE run.required
  BY <1>1 DEF TipIsSeen
<1>2. CASE ~run.required \/ pc = "check"
  <2>1. dbTip > 0 /\ (AtTip \/ blocks[dbTip] = NotScanned)
    BY <1>2 DEF Progress, TipIsSeen, AtTip
  <2>2. dbTip \in Height
    BY <2>1, Bounds DEF Progress, TypeInv, TypeOK, Height
  <2>3. blocks'[dbTip] \in {blocks[dbTip], NotScanned}
    BY <2>2 DEF Shrinks
  <2>4. AtTip' \/ blocks'[dbTip'] = NotScanned
    BY <2>1, <2>3 DEF AtTip
  <2> QED
    BY <2>1, <2>4 DEF TipIsSeen
<1> QED
  BY <1>1, <1>2

\* A conflict found by the scan.
LEMMA RewindScanKeeps ==
    ASSUME Progress, pc = "scan", NEW at \in 0 .. dbTip, NEW root \in BOOLEAN,
           RewindScan(at, root), UNCHANGED <<server, meta, stop>>
    PROVE  Progress' /\ Shrinks
<1>0. /\ DbOK /\ run \in Runs /\ dbTip \in 0 .. MaxHeight /\ run.tip = dbTip /\ at \in Nat /\ at <= dbTip
      /\ stop' \in BOOLEAN /\ seen \in Seq(Fork) /\ faults \in 0 .. MaxFaults
  BY InvDb DEF Progress, TypeInv, TypeOK, QueueReachesTip
<1>1. PICK phase \in {"main", "verifying"} :
        \/ /\ run[phase] < MaxRewinds
           /\ \E h \in Landing(RewindTarget(at, root, run[phase])) :
                 \/ /\ RewindTo(h, run.tip) /\ Drop("loop")
                    /\ run' = [run EXCEPT ![phase] = @ + 1] /\ UNCHANGED <<seen, faults>>
                 \/ RewindTears(h) /\ End("idle") /\ Fault
        \/ run[phase] >= MaxRewinds /\ End("retry") /\ UNCHANGED <<db, faults>>
  BY DEF RewindScan
<1>2. run[phase] \in 0 .. MaxRewinds
  BY <1>0, <1>1 DEF Runs
<1>3. ASSUME NEW h \in Landing(RewindTarget(at, root, run[phase])) PROVE h \in 0 .. dbTip
  <2>0. run[phase] \in Nat
    BY <1>2, Bounds
  <2>1. RewindTarget(at, root, run[phase]) \in 0 .. at
    BY <1>0, <2>0, RewindTargetIsBelow
  <2>2. h \in 0 .. RewindTarget(at, root, run[phase])
    BY <2>1, <1>0, LandingIsBelow
  <2> QED
    BY <1>0, <2>1, <2>2
<1>4. ASSUME run[phase] < MaxRewinds, NEW h \in 0 .. dbTip, RewindTo(h, run.tip), Drop("loop"),
             run' = [run EXCEPT ![phase] = @ + 1], UNCHANGED <<seen, faults>>
      PROVE  Progress' /\ Shrinks
  <2>1. h \in Nat /\ h <= dbTip /\ RewindTo(h, dbTip)
    BY <1>0, <1>4
  <2>2. DbOK' /\ dbTip' = dbTip /\ Shrinks
    BY <1>0, <2>1, RewindKeepsDb
  <2>3. run' \in Runs /\ run'.tip = dbTip' /\ run'.required = run.required
    <3>1. run[phase] + 1 \in 0 .. MaxRewinds
      BY <1>2, <1>4, Bounds
    <3>2. run'.tip = run.tip /\ run'.required = run.required
      BY <1>0, <1>4 DEF Runs
    <3>3. run' \in Runs
      BY <1>0, <1>4, <3>1 DEF Runs
    <3> QED
      BY <1>0, <2>2, <3>2, <3>3
  <2>4. NoBatch \in Batches /\ pc' = "loop" /\ batch' = NoBatch /\ prefetch' = NoBatch
    BY <1>4, EmptySeq DEF NoBatch, Batches, Drop
  <2>5. BatchBelowTip' /\ CompleteIsScanned'
    BY <2>4 DEF BatchBelowTip, CompleteIsScanned
  <2>6. TipIsSeen'
    BY <1>4, <2>2, <2>3, <2>4, TipAfterRewind
  <2> QED
    BY <1>0, <1>4, <2>2, <2>3, <2>4, <2>5, <2>6, RunKeeps DEF Working
<1>5. ASSUME NEW h \in 0 .. dbTip, RewindTears(h), End("idle"), Fault PROVE Progress' /\ Shrinks
  BY <1>0, <1>5, TearKeepsDb, FaultKeeps, EndKeeps
<1>6. ASSUME End("retry"), UNCHANGED <<db, faults>> PROVE Progress' /\ Shrinks
  <2>1. DbOK' /\ Shrinks
    BY <1>0, <1>6 DEF DbOK, Shrinks, db
  <2> QED
    BY <1>0, <1>6, <2>1, EndKeeps
<1> QED
  BY <1>1, <1>3, <1>4, <1>5, <1>6

\* What a batch that is scanned looks like.
LEMMA BatchFacts ==
    ASSUME Progress, NEW path, OneLineage(path), pc = "scan"
    PROVE  /\ batch \in Batches /\ batch.start \in Height /\ LastOf(batch) \in Height
           /\ batch.start <= LastOf(batch) /\ LastOf(batch) <= dbTip
           /\ \A h \in batch.start .. LastOf(batch) : h \in Height /\ HashAt(batch, h) \in Fork
<1>1. batch \in Batches /\ batch # NoBatch /\ LastOf(batch) <= dbTip
  BY DEF Progress, TypeInv, BatchBelowTip
<1>2. batch.start \in Height /\ batch.hashes # <<>> /\ LastOf(batch) \in Height
  BY <1>1 DEF OneLineage, Piece
<1>3. batch.hashes \in Seq(Fork) /\ Len(batch.hashes) \in Nat /\ Len(batch.hashes) # 0
  BY <1>1, <1>2, EmptySeq, LenProperties DEF Batches
<1>4. batch.start <= LastOf(batch)
  BY <1>2, <1>3, Bounds DEF LastOf, Height
<1>5. ASSUME NEW h \in batch.start .. LastOf(batch)
      PROVE  h \in Height /\ HashAt(batch, h) \in Fork
  <2>1. h \in Height
    BY <1>2, <1>5, Bounds DEF Height
  <2>2. h - batch.start + 1 \in 1 .. Len(batch.hashes)
    BY <1>2, <1>3, <1>5, Bounds DEF LastOf, Height
  <2> QED
    BY <1>3, <2>1, <2>2, ElementOfSeq DEF HashAt
<1> QED
  BY <1>1, <1>2, <1>4, <1>5

\* The blocks of a batch are stored.
LEMMA StoreKeeps ==
    ASSUME Progress, NEW path, OneLineage(path), pc = "scan",
           blocks' = [h \in Height |->
               IF h \in batch.start .. LastOf(batch) THEN HashAt(batch, h) ELSE blocks[h]],
           queue' = queue \ (batch.start .. LastOf(batch)),
           pc' = "after", batch' = NoBatch,
           UNCHANGED <<dbTip, run, prefetch, seen, faults, server, meta, stop>>
    PROVE  Progress'
<1>1. /\ DbOK /\ run' \in Runs /\ run'.tip = dbTip' /\ prefetch' \in Batches
      /\ seen' \in Seq(Fork) /\ faults' \in 0 .. MaxFaults
  BY InvDb DEF Progress, TypeInv, TypeOK, QueueReachesTip
<1>2. /\ batch.start \in Height /\ LastOf(batch) \in Height /\ LastOf(batch) <= dbTip
      /\ \A h \in batch.start .. LastOf(batch) : h \in Height /\ HashAt(batch, h) \in Fork
  BY BatchFacts
<1> DEFINE B == batch.start .. LastOf(batch)
<1>3. \A h \in Height : blocks'[h] = IF h \in B THEN HashAt(batch, h) ELSE blocks[h]
  OBVIOUS
<1>4. blocks' \in [Height -> Fork \cup {NotScanned}]
  BY <1>1, <1>2 DEF DbOK
<1>5. ASSUME NEW h \in B PROVE blocks'[h] # NotScanned /\ h <= dbTip
  <2>1. blocks'[h] \in Fork /\ h \in Nat
    BY <1>2, <1>3, <1>5, Bounds DEF Height
  <2>2. h <= dbTip
    BY <1>1, <1>2, <1>5, Bounds DEF Height, DbOK
  <2> QED
    BY <2>1, <2>2, Bounds DEF Fork, NotScanned
<1>6. DbOK'
  <2>1. \A h \in Height : blocks'[h] = NotScanned => h > dbTip' \/ h \in queue'
    BY <1>1, <1>3, <1>5 DEF DbOK
  <2>2. \A h \in Height : blocks'[h] # NotScanned => h <= dbTip'
    BY <1>1, <1>3, <1>5 DEF DbOK
  <2> QED
    BY <1>1, <1>4, <2>1, <2>2 DEF DbOK
<1>7. BatchBelowTip' /\ TipIsSeen' /\ CompleteIsScanned'
  BY DEF BatchBelowTip, TipIsSeen, CompleteIsScanned
<1>8. NoBatch \in Batches
  BY EmptySeq DEF NoBatch, Batches
<1> QED
  BY <1>1, <1>6, <1>7, <1>8, RunKeeps DEF Working

\* The batch is scanned, or sends the run back.
LEMMA ScanKeeps ==
    ASSUME Progress, NEW path, OneLineage(path), ScanBatch
    PROVE  /\ Progress'
           /\ \/ Shrinks /\ batch' = NoBatch /\ prefetch' = NoBatch /\ seen' \in {seen, <<>>}
              \/ /\ Mismatches(batch) = {} /\ ~RootConflict(batch)
                 /\ blocks' = [h \in Height |->
                       IF h \in batch.start .. LastOf(batch) THEN HashAt(batch, h) ELSE blocks[h]]
                 /\ batch' = NoBatch /\ UNCHANGED <<prefetch, seen>>
<1>0. pc = "scan" /\ UNCHANGED <<server, meta, stop>>
  BY DEF ScanBatch
<1>1. /\ batch.start \in Height /\ LastOf(batch) \in Height /\ dbTip \in Nat
      /\ batch.start <= LastOf(batch) /\ LastOf(batch) <= dbTip
  BY <1>0, BatchFacts, Bounds DEF Progress, TypeInv, TypeOK
<1>2. batch.start \in 0 .. dbTip
  BY <1>1, Bounds DEF Height
<1>3. ASSUME NEW at \in 0 .. dbTip, NEW root \in BOOLEAN, RewindScan(at, root)
      PROVE  Progress' /\ Shrinks /\ batch' = NoBatch /\ prefetch' = NoBatch /\ seen' \in {seen, <<>>}
  <2>1. batch' = NoBatch /\ prefetch' = NoBatch /\ seen' \in {seen, <<>>}
    BY <1>3 DEF RewindScan, Drop, End
  <2> QED
    BY <1>0, <1>3, <2>1, RewindScanKeeps
<1>4. ASSUME Mismatches(batch) # {} PROVE Least(Mismatches(batch)) \in 0 .. dbTip
  <2>1. Mismatches(batch) \subseteq 0 .. dbTip
    BY <1>1, <1>2, Bounds DEF Mismatches, Height
  <2>2. Mismatches(batch) \in SUBSET Nat
    BY <2>1, <1>1
  <2>3. Least(Mismatches(batch)) \in Mismatches(batch)
    BY <1>4, <2>2, LeastIsMember
  <2> QED
    BY <2>1, <2>3
<1>5. CASE Mismatches(batch) # {}
  <2>1. RewindScan(Least(Mismatches(batch)), FALSE)
    BY <1>5 DEF ScanBatch
  <2> QED
    BY <1>3, <1>4, <1>5, <2>1
<1>6. CASE Mismatches(batch) = {} /\ RootConflict(batch)
  <2>1. RewindScan(batch.start, TRUE)
    BY <1>6 DEF ScanBatch
  <2> QED
    BY <1>2, <1>3, <2>1
<1>7. CASE Mismatches(batch) = {} /\ ~RootConflict(batch)
  <2>1. /\ blocks' = [h \in Height |->
               IF h \in batch.start .. LastOf(batch) THEN HashAt(batch, h) ELSE blocks[h]]
        /\ queue' = queue \ (batch.start .. LastOf(batch))
        /\ pc' = "after" /\ batch' = NoBatch
        /\ UNCHANGED <<dbTip, run, prefetch, seen, faults>>
    BY <1>7 DEF ScanBatch
  <2>2. Progress'
    BY <1>0, <2>1, StoreKeeps
  <2> QED
    BY <1>7, <2>1, <2>2
<1> QED
  BY <1>5, <1>6, <1>7

----------------------------------------------------------------------------
(* Repairs and the service                                                 *)

\* Witnesses are repaired, or the run gives up.
LEMMA RepairWitnessesKeeps ==
    ASSUME Progress, RepairWitnesses
    PROVE  Progress' /\ Shrinks
<1>0. pc = "check" /\ UNCHANGED <<server, blocks, dbTip, meta, stop>> /\ DbOK /\ stop' \in BOOLEAN
  BY InvDb DEF RepairWitnesses, Progress, TypeInv, TypeOK
<1>1. Shrinks
  BY <1>0 DEF Shrinks
<1>2. ASSUME Fault, Drop("loop"), NEW again \in SUBSET (1 .. dbTip), queue' = queue \cup again,
             run' = [run EXCEPT !.witness = @ + 1], UNCHANGED seen
      PROVE  Progress'
  <2>1. queue' \subseteq 1 .. dbTip /\ queue \subseteq queue'
    BY <1>0, <1>2 DEF DbOK
  <2>2. DbOK'
    BY <1>0, <2>1 DEF DbOK
  <2>3. /\ run \in Runs /\ run.tip = dbTip /\ seen' \in Seq(Fork)
    BY <1>0, <1>2 DEF Progress, TypeInv, TypeOK, QueueReachesTip
  <2>4. run' \in Runs /\ run'.tip = dbTip' /\ run'.required = run.required
    <3>1. run.witness + 1 \in Nat
      BY <2>3 DEF Runs
    <3> QED
      BY <1>0, <1>2, <2>3, <3>1 DEF Runs
  <2>5. NoBatch \in Batches /\ pc' = "loop" /\ batch' = NoBatch /\ prefetch' = NoBatch
    BY <1>2, EmptySeq DEF NoBatch, Batches, Drop
  <2>6. BatchBelowTip' /\ CompleteIsScanned'
    BY <2>5 DEF BatchBelowTip, CompleteIsScanned
  <2>7. TipIsSeen'
    BY <1>0, <1>1, <1>2, <2>4, <2>5, TipAfterRewind
  <2> QED
    BY <1>0, <1>2, <2>2, <2>3, <2>4, <2>5, <2>6, <2>7, FaultKeeps, RunKeeps DEF Working
<1>3. ASSUME End("idle"), UNCHANGED <<queue, faults>> PROVE Progress'
  <2>1. DbOK' /\ faults' \in 0 .. MaxFaults
    BY <1>0, <1>3 DEF DbOK, Progress, TypeInv, TypeOK
  <2> QED
    BY <1>0, <1>3, <2>1, EndKeeps
<1> QED
  BY <1>1, <1>2, <1>3 DEF RepairWitnesses

\* A repair goes back below the anchor, which is at most the tip.
LEMMA RepairIsBelow ==
    ASSUME dbTip \in Nat, NEW k \in 1 .. Len(RepairDistances)
    PROVE  RepairHeight(k) \in 0 .. dbTip
<1>1. RepairDistances[k] \in Nat /\ RepairDistances[k] >= 1
  <2>1. RepairDistances[k] \in Nat \ {0}
    BY SyncConstants, ElementOfSeq
  <2> QED
    BY <2>1
<1>2. Anchor \in 0 .. dbTip + 1
  <2>1. dbTip + 1 \in Nat /\ Confirmations \in Nat
    BY Bounds
  <2> QED
    BY <2>1, BelowIsBelow DEF Anchor
<1>3. RepairHeight(k) \in 0 .. Anchor /\ (Anchor = 0 \/ RepairHeight(k) < Anchor)
  BY <1>1, <1>2 DEF RepairHeight, Below
<1> QED
  BY <1>2, <1>3

\* The anchor is repaired, maybe torn apart, or the run gives up.
LEMMA RepairAnchorKeeps ==
    ASSUME Progress, RepairAnchor
    PROVE  Progress' /\ Shrinks
<1>0. /\ pc = "check" /\ UNCHANGED <<server, meta, stop>> /\ DbOK /\ stop' \in BOOLEAN
      /\ faults \in 0 .. MaxFaults /\ run \in Runs /\ run.tip = dbTip /\ dbTip \in 0 .. MaxHeight
      /\ seen \in Seq(Fork)
  BY InvDb DEF RepairAnchor, Progress, TypeInv, TypeOK, QueueReachesTip
<1>1. ASSUME NEW k \in run.anchor + 1 .. Len(RepairDistances)
      PROVE  k \in Nat /\ RepairHeight(k) \in 0 .. dbTip
  <2>1. run.anchor \in Nat /\ Len(RepairDistances) \in Nat /\ dbTip \in Nat
    BY <1>0, Bounds, SyncConstants, LenProperties DEF Runs
  <2>2. k \in 1 .. Len(RepairDistances)
    BY <2>1
  <2> QED
    BY <2>1, <2>2, RepairIsBelow
<1>2. ASSUME NEW k \in Nat, NEW h \in 0 .. dbTip, RewindTo(h, run.tip), Drop("loop"),
             run' = [run EXCEPT !.anchor = k], UNCHANGED <<seen, faults>>
      PROVE  Progress' /\ Shrinks
  <2>1. h \in Nat /\ RewindTo(h, dbTip)
    BY <1>0, <1>2
  <2>2. DbOK' /\ dbTip' = dbTip /\ Shrinks
    BY <1>0, <2>1, RewindKeepsDb
  <2>3. run' \in Runs /\ run'.tip = dbTip' /\ run'.required = run.required
    BY <1>0, <1>2, <2>2 DEF Runs
  <2>4. NoBatch \in Batches /\ pc' = "loop" /\ batch' = NoBatch /\ prefetch' = NoBatch
    BY <1>2, EmptySeq DEF NoBatch, Batches, Drop
  <2>5. BatchBelowTip' /\ CompleteIsScanned'
    BY <2>4 DEF BatchBelowTip, CompleteIsScanned
  <2>6. TipIsSeen'
    BY <1>0, <1>2, <2>2, <2>3, <2>4, TipAfterRewind
  <2> QED
    BY <1>0, <1>2, <2>2, <2>3, <2>4, <2>5, <2>6, RunKeeps DEF Working
<1>3. ASSUME NEW h \in 0 .. dbTip, RewindTears(h), End("idle"), Fault PROVE Progress' /\ Shrinks
  BY <1>0, <1>3, TearKeepsDb, FaultKeeps, EndKeeps
<1>4. ASSUME End("idle"), UNCHANGED <<db, faults>> PROVE Progress' /\ Shrinks
  <2>1. DbOK' /\ Shrinks
    BY <1>0, <1>4 DEF DbOK, Shrinks, db
  <2> QED
    BY <1>0, <1>4, <2>1, EndKeeps
<1> QED
  BY <1>1, <1>2, <1>3, <1>4 DEF RepairAnchor

\* The service moves on; the wallet does not see it.
LEMMA ServiceKeeps ==
    ASSUME Progress, UNCHANGED <<db, meta, pc, stop, run, work, seen, faults>>,
           chain' \in Seq(Fork) /\ Len(chain') \in Height,
           replica' \in Seq(Fork) /\ Len(replica') \in Height,
           base' \in Seq([at : Height, from : Fork \cup {0}]) /\ Len(base') \in Fork
    PROVE  Progress' /\ Shrinks
<1>1. base' \in [1 .. Len(base') -> [at : Height, from : Fork \cup {0}]]
  BY LenProperties
<1>2. TypeInv'
  BY <1>1 DEF Progress, TypeInv, TypeOK, db, meta, work
<1>3. QueueReachesTip' /\ CompletedIsScanned' /\ RunIsMarked'
  BY DEF Progress, QueueReachesTip, CompletedIsScanned, RunIsMarked, db, meta
<1>4. BatchBelowTip' /\ TipIsSeen' /\ CompleteIsScanned'
  BY DEF Progress, BatchBelowTip, TipIsSeen, CompleteIsScanned, AtTip, db, work
<1>5. Shrinks
  BY DEF Shrinks, db
<1> QED
  BY <1>2, <1>3, <1>4, <1>5 DEF Progress

----------------------------------------------------------------------------
(* One table of ancestors                                                  *)

\* Truncation leaves less to explain.
LEMMA ShrinkingDescends ==
    ASSUME NEW path, StoredDescends(path), Shrinks, UNCHANGED base
    PROVE  StoredDescends(path)'
<1>1. SUFFICES ASSUME NEW h \in Height, NEW g \in 1 .. h,
                      \A k \in g .. h : blocks'[k] # NotScanned
               PROVE  blocks'[h] \in Forks /\ path[blocks'[h]][g] = blocks'[g]
  BY DEF StoredDescends, Forks
<1>2. \A k \in g .. h : k \in Height
  BY Bounds DEF Height
<1>3. \A k \in g .. h : blocks'[k] = blocks[k] /\ blocks[k] # NotScanned
  BY <1>1, <1>2 DEF Shrinks
<1>4. g \in g .. h /\ h \in g .. h
  BY Bounds DEF Height
<1>5. blocks[h] \in Forks /\ path[blocks[h]][g] = blocks[g]
  BY <1>3 DEF StoredDescends
<1> QED
  BY <1>3, <1>4, <1>5

\* A remembered chain is a chain of the service, as long as the tip.
LEMMA SeenDescends ==
    ASSUME TypeInv, NEW path, OneLineage(path), NEW a \in TipAnswers,
           NEW s, s = SubSeq(a.on, 1, a.height)
    PROVE  Descends(path, 1, s)
<1>1. /\ Len(s) = a.height /\ \A i \in 1 .. a.height : s[i] = a.on[i]
      /\ a.height \in Nat /\ a.height <= Len(a.on) /\ Len(a.on) \in Nat
  BY SeenFacts, TipAnswerFacts, Bounds DEF Height
<1>2. Descends(path, 1, a.on)
  BY TipAnswerFacts, ViewFacts DEF Views
<1>3. SUFFICES ASSUME NEW j \in 1 .. Len(s), NEW i \in 1 .. j
               PROVE  s[j] \in Forks /\ path[s[j]][1 + i - 1] = s[i]
  BY DEF Descends
<1>4. j \in 1 .. a.height /\ i \in 1 .. a.height /\ j \in 1 .. Len(a.on)
  BY <1>1
<1> QED
  BY <1>1, <1>2, <1>4 DEF Descends

\* What a step of the engine may put in memory, but for NextBatch.
Remembers ==
    /\ batch' \in {batch, NoBatch} /\ prefetch' \in {prefetch, NoBatch}
    /\ seen' \in {seen, <<>>} \cup {SubSeq(a.on, 1, a.height) : a \in TipAnswers}

\* A reported tip that is reconciled with the wallet's.
LEMMA ReconcileRemembers ==
    ASSUME NEW a \in TipAnswers, NEW same, Reconcile(a, same)
    PROVE  Remembers
BY DEF Reconcile, ServerBehind, RewindForTipReorg, End, Drop, Goto, work, Remembers

\* No step invents a batch or a chain.
LEMMA StepRemembers ==
    ASSUME \/ Start \/ Begin \/ Exit \/ Retry \/ InitialTip \/ Prepare \/ PostBatchTip
           \/ Drained \/ RepairAnchor \/ Check \/ Final \/ mark_sync_completed
           \/ PeriodicTip \/ BatchMissing \/ Stop \/ RpcFails \/ Crash \/ RepairWitnesses
           \/ ImportAccount
    PROVE  Remembers /\ UNCHANGED server
<1>1. CASE Start \/ Begin \/ Exit \/ Retry \/ Prepare
  BY <1>1 DEF Start, Begin, Exit, Retry, Prepare, End, Drop, Goto, work, Remembers
<1>2. CASE InitialTip
  <2>1. UNCHANGED server
    BY <1>2 DEF InitialTip
  <2>2. PICK a \in TipAnswers :
          \/ ServerBehind
          \/ RewindForTipReorg(a.height, "prepare")
          \/ Goto("prepare") /\ seen' \in {SubSeq(a.on, 1, a.height), seen}
    BY <1>2 DEF InitialTip
  <2> QED
    BY <2>1, <2>2 DEF ServerBehind, RewindForTipReorg, End, Drop, Goto, work, Remembers
<1>3. CASE PostBatchTip \/ PeriodicTip
  <2>1. UNCHANGED server /\ (RefreshFails \/ \E a \in TipAnswers : Reconcile(a, "loop"))
    BY <1>3 DEF PostBatchTip, PeriodicTip
  <2>2. RefreshFails => Remembers
    BY DEF RefreshFails, Goto, work, Remembers
  <2> QED
    BY <2>1, <2>2, ReconcileRemembers
<1>4. CASE Drained
  <2>1. UNCHANGED server
    BY <1>4 DEF Drained
  <2>2. \/ \E a \in TipAnswers : Reconcile(a, "check")
        \/ Goto("check") /\ UNCHANGED seen
    BY <1>4 DEF Drained
  <2>3. Goto("check") /\ UNCHANGED seen => Remembers
    BY DEF Goto, work, Remembers
  <2> QED
    BY <2>1, <2>2, <2>3, ReconcileRemembers
<1>5. CASE RepairAnchor \/ RepairWitnesses
  BY <1>5 DEF RepairAnchor, RepairWitnesses, End, Drop, Remembers
<1>6. CASE Check \/ Final \/ mark_sync_completed
  BY <1>6 DEF Check, Final, mark_sync_completed, End, Drop, Goto, work, Remembers
<1>7. CASE BatchMissing \/ Stop \/ RpcFails \/ Crash \/ ImportAccount
  BY <1>7 DEF BatchMissing, Stop, RpcFails, Crash, ImportAccount, End, Drop, Goto, work, Remembers
<1> QED
  BY <1>1, <1>2, <1>3, <1>4, <1>5, <1>6, <1>7

\* The table of a state explains the next one, when the service stands still.
LEMMA SameTable ==
    ASSUME NEW path, OneLineage(path), UNCHANGED server,
           Descends(path, 1, seen'), Piece(path, batch'), Piece(path, prefetch'),
           StoredDescends(path)'
    PROVE  OneLineage(path)'
<1>1. UNCHANGED <<chain, replica, base>>
  BY DEF server
<1>2. Lineage(path)'
  BY <1>1 DEF OneLineage, Lineage, Forks
<1>3. (Descends(path, 1, chain) /\ Descends(path, 1, replica) /\ Descends(path, 1, seen))'
  BY <1>1 DEF OneLineage, Descends, Forks
<1>4. (Piece(path, batch) /\ Piece(path, prefetch))'
  BY <1>1 DEF Piece, Descends, Forks, LastOf, NoBatch
<1> QED
  BY <1>2, <1>3, <1>4 DEF OneLineage

\* So it does after most steps.
LEMMA RememberedLineage ==
    ASSUME TypeInv, NEW path, OneLineage(path), UNCHANGED server, Remembers, Shrinks
    PROVE  OneLineage(path)'
<1>1. Piece(path, NoBatch)
  BY DEF Piece
<1>2. Piece(path, batch') /\ Piece(path, prefetch')
  <2>1. Piece(path, batch) /\ Piece(path, prefetch)
    BY DEF OneLineage
  <2>2. batch' = batch \/ batch' = NoBatch
    BY DEF Remembers
  <2>3. prefetch' = prefetch \/ prefetch' = NoBatch
    BY DEF Remembers
  <2> QED
    BY <1>1, <2>1, <2>2, <2>3
<1>3. Descends(path, 1, seen')
  <2>1. CASE seen' = seen
    BY <2>1 DEF OneLineage
  <2>2. CASE seen' = <<>>
    BY <2>2, EmptySeq DEF Descends
  <2>3. CASE \E a \in TipAnswers : seen' = SubSeq(a.on, 1, a.height)
    BY <2>3, SeenDescends
  <2> QED
    BY <2>1, <2>2, <2>3 DEF Remembers
<1>4. StoredDescends(path)'
  BY ShrinkingDescends DEF OneLineage, server
<1> QED
  BY <1>2, <1>3, <1>4, SameTable

\* A batch without a root conflict leads to the block above it.
LEMMA FitsAbove ==
    ASSUME NEW b, NEW last \in Nat, last = LastOf(b), ~RootConflict(b),
           last + 1 <= MaxHeight, blocks[last + 1] # NotScanned
    PROVE  Parent(last + 1, blocks[last + 1]) = HashAt(b, last)
<1>1. ~ (/\ last + 1 <= MaxHeight /\ blocks[last + 1] # NotScanned
         /\ Parent(last + 1, blocks[last + 1]) # HashAt(b, (last + 1) - 1))
  BY Zenon DEF RootConflict
<1>2. (last + 1) - 1 = last
  OBVIOUS
<1> QED
  BY <1>1, <1>2

\* A batch that fits its neighbours continues the lineage of the blocks below
\* it, and the blocks above continue its own.
LEMMA StoredBatchDescends ==
    ASSUME Progress, NEW path, OneLineage(path), pc = "scan", UNCHANGED base,
           Mismatches(batch) = {}, ~RootConflict(batch),
           blocks' = [h \in Height |->
               IF h \in batch.start .. LastOf(batch) THEN HashAt(batch, h) ELSE blocks[h]]
    PROVE  StoredDescends(path)'
<1> DEFINE s == batch.start
           e == LastOf(batch)
           H(h) == HashAt(batch, h)
<1>1. /\ s \in Nat /\ e \in Nat /\ s >= 1 /\ s <= e /\ e <= MaxHeight
      /\ s \in Height /\ e \in Height /\ batch # NoBatch
      /\ Lineage(path) /\ TypeInv /\ StoredDescends(path) /\ Piece(path, batch)
  BY BatchFacts, Bounds DEF Height, Progress, BatchBelowTip, OneLineage
<1>2. \A h \in Height : blocks'[h] = IF h \in s .. e THEN H(h) ELSE blocks[h]
  OBVIOUS
<1>3. ASSUME NEW j \in s .. e, NEW i \in s .. j
      PROVE  H(j) \in Forks /\ path[H(j)][i] = H(i)
  <2>1. /\ j - s + 1 \in 1 .. Len(batch.hashes) /\ i - s + 1 \in 1 .. j - s + 1
        /\ s + (i - s + 1) - 1 = i
    <3>1. batch.hashes \in Seq(Fork) /\ Len(batch.hashes) \in Nat
      BY LenProperties DEF Progress, TypeInv, Batches
    <3>2. e = s + Len(batch.hashes) - 1
      BY DEF LastOf
    <3>3. s \in Nat /\ e \in Nat
      BY <1>1
    <3> HIDE DEF s, e
    <3> QED
      BY <3>1, <3>2, <3>3
  <2>2. Descends(path, s, batch.hashes)
    BY <1>1 DEF Piece
  <2>3. batch.hashes[j - s + 1] \in Forks
        /\ path[batch.hashes[j - s + 1]][s + (i - s + 1) - 1] = batch.hashes[i - s + 1]
    BY <2>1, <2>2 DEF Descends
  <2> QED
    BY <2>1, <2>3 DEF HashAt
<1>4. s > 1 => path[H(s)][s - 1] = batch.prev
  <2>1. H(s) = batch.hashes[1]
    <3>1. s - s + 1 = 1
      BY <1>1
    <3> QED
      BY <3>1 DEF HashAt
  <2> QED
    BY <1>1, <2>1 DEF Piece
<1>5. s > 1 => blocks[s - 1] \in {NotScanned, batch.prev}
  BY <1>1 DEF Mismatches
<1>5a. e + 1 <= MaxHeight /\ blocks[e + 1] # NotScanned
        => Parent(e + 1, blocks[e + 1]) = H(e)
  BY <1>1, FitsAbove
<1> HIDE DEF H, s, e
<1>6. ASSUME NEW h \in s .. e, NEW g \in 1 .. h, \A k \in g .. h : blocks'[k] # NotScanned
      PROVE  blocks'[h] \in Forks /\ path[blocks'[h]][g] = blocks'[g]
  <2>0. h \in Height /\ g \in Height /\ h \in Nat /\ g \in Nat
    BY <1>1, Bounds DEF Height
  <2>1. blocks'[h] = H(h) /\ H(h) \in Forks
    BY <1>2, <1>3, <2>0
  <2>2. CASE g >= s
    <3>1. g \in s .. h /\ g \in s .. e
      BY <1>1, <2>0, <2>2
    <3> QED
      BY <1>2, <1>3, <2>0, <2>1, <3>1
  <2>3. CASE g < s
    <3>1. /\ s > 1 /\ s - 1 \in Height /\ s - 1 \in 1 .. s /\ s - 1 \in g .. h /\ s - 1 \notin s .. e
          /\ s \in s .. h /\ g \in 1 .. s - 1 /\ g \notin s .. e
      BY <1>1, <2>0, <2>3, Bounds DEF Height
    <3>2. blocks[s - 1] = path[H(s)][s - 1]
      BY <1>2, <1>4, <1>5, <1>6, <3>1
    <3>3. path[H(h)][s] = H(s)
      BY <1>3, <3>1
    <3>4. path[H(h)][s - 1] = blocks[s - 1]
      BY <1>1, <2>1, <3>1, <3>2, <3>3, AncestorsOf
    <3>5. path[path[H(h)][s - 1]][g] = path[H(h)][g]
      BY <1>1, <2>1, <3>1, AncestorsOf
    <3>6. ASSUME NEW k \in g .. s - 1 PROVE blocks[k] # NotScanned
      <4>1. k \in g .. h /\ k \in Height /\ k \notin s .. e
        BY <1>1, <2>0, <3>1, Bounds DEF Height
      <4> QED
        BY <1>2, <1>6, <4>1
    <3>7. path[blocks[s - 1]][g] = blocks[g]
      BY <1>1, <3>1, <3>6 DEF StoredDescends
    <3>8. blocks'[g] = blocks[g]
      BY <1>2, <2>0, <3>1
    <3> QED
      BY <2>1, <3>4, <3>5, <3>7, <3>8
  <2> QED
    BY <2>0, <2>2, <2>3, <1>1
<1>7. ASSUME NEW h \in Height, NEW g \in 1 .. h, \A k \in g .. h : blocks'[k] # NotScanned,
             \A k \in g .. h : k \notin s .. e
      PROVE  blocks'[h] \in Forks /\ path[blocks'[h]][g] = blocks'[g]
  <2>1. \A k \in g .. h : k \in Height
    BY Bounds DEF Height
  <2>2. \A k \in g .. h : blocks'[k] = blocks[k]
    BY <1>2, <1>7, <2>1
  <2>3. g \in g .. h /\ h \in g .. h
    BY Bounds DEF Height
  <2>4. blocks[h] \in Forks /\ path[blocks[h]][g] = blocks[g]
    BY <1>1, <1>7, <2>2 DEF StoredDescends
  <2> QED
    BY <2>2, <2>3, <2>4
<1>8. ASSUME NEW h \in Height, NEW g \in 1 .. h, \A k \in g .. h : blocks'[k] # NotScanned,
             h > e, g <= e
      PROVE  blocks'[h] \in Forks /\ path[blocks'[h]][g] = blocks'[g]
  <2>1. /\ h \in Nat /\ g \in Nat /\ e + 1 \in Height /\ e + 1 \in 1 .. h /\ e + 1 > 1
        /\ e \in 1 .. e + 1 /\ e \in s .. e /\ g \in 1 .. e
        /\ \A k \in e + 1 .. h : k \in g .. h /\ k \in Height /\ k \notin s .. e
        /\ e + 1 \in e + 1 .. h /\ h \in e + 1 .. h
    BY <1>1, <1>8, Bounds DEF Height
  <2>2. \A k \in e + 1 .. h : blocks'[k] = blocks[k] /\ blocks[k] # NotScanned
    BY <1>2, <1>8, <2>1
  <2> DEFINE u == blocks[e + 1]
  <2>3. blocks[h] \in Forks /\ path[blocks[h]][e + 1] = u
    BY <1>1, <2>1, <2>2 DEF StoredDescends
  <2>4. u \in Forks /\ path[u][e + 1] = u
    <3>1. \A k \in e + 1 .. e + 1 : blocks[k] # NotScanned
      BY <1>1, <2>1, <2>2
    <3>2. e + 1 \in 1 .. e + 1
      BY <1>1
    <3> QED
      BY <1>1, <2>1, <3>1, <3>2 DEF StoredDescends
  <2>5. Parent(e + 1, u) = H(e)
    <3>1. e + 1 <= MaxHeight /\ e + 1 - 1 = e /\ blocks[e + 1] # NotScanned
      BY <1>1, <2>1, <2>2, Bounds DEF Height
    <3> QED
      BY <3>1, <1>5a
  <2>6. path[u][e] = H(e)
    <3>1. Parent(e + 1, u) = path[u][e + 1 - 1]
      BY <1>1, <2>1, <2>4, ParentIsAncestor
    <3>2. e + 1 - 1 = e
      BY <1>1
    <3> QED
      BY <2>5, <3>1, <3>2
  <2>7. path[blocks[h]][e] = H(e)
    BY <1>1, <2>1, <2>3, <2>6, AncestorsOf
  <2>8. path[blocks[h]][g] = path[H(e)][g]
    BY <1>1, <2>1, <2>3, <2>7, AncestorsOf
  <2>9. path[blocks'[e]][g] = blocks'[g]
    <3>1. \A k \in g .. e : k \in g .. h
      BY <1>1, <1>8, <2>1
    <3> QED
      BY <1>6, <1>8, <2>1, <3>1
  <2>10. blocks'[e] = H(e)
    BY <1>1, <1>2, <2>1
  <2> QED
    BY <2>1, <2>2, <2>3, <2>8, <2>9, <2>10
<1>9. SUFFICES ASSUME NEW h \in Height, NEW g \in 1 .. h,
                      \A k \in g .. h : blocks'[k] # NotScanned
               PROVE  blocks'[h] \in Forks /\ path[blocks'[h]][g] = blocks'[g]
  BY DEF StoredDescends, Forks
<1>10. h \in Nat /\ g \in Nat
  BY Bounds DEF Height
<1>11. CASE h < s \/ g > e
  <2>1. \A k \in g .. h : k \notin s .. e
    BY <1>1, <1>10, <1>11
  <2> QED
    BY <1>7, <1>9, <2>1
<1>12. CASE h >= s /\ h <= e
  <2>1. h \in s .. e
    BY <1>1, <1>10, <1>12
  <2> QED
    BY <1>6, <1>9, <2>1
<1>13. CASE h > e /\ g <= e
  BY <1>8, <1>9, <1>13
<1> QED
  BY <1>1, <1>10, <1>11, <1>12, <1>13

\* The lineage after a batch was scanned or sent the run back.
LEMMA ScanLineage ==
    ASSUME Progress, NEW path, OneLineage(path), ScanBatch
    PROVE  OneLineage(path)'
<1>1. UNCHANGED server /\ UNCHANGED base /\ pc = "scan" /\ TypeInv
  BY DEF ScanBatch, server, Progress
<1>2. CASE Shrinks /\ batch' = NoBatch /\ prefetch' = NoBatch /\ seen' \in {seen, <<>>}
  BY <1>1, <1>2, RememberedLineage DEF Remembers
<1>3. CASE /\ Mismatches(batch) = {} /\ ~RootConflict(batch)
           /\ blocks' = [h \in Height |->
                 IF h \in batch.start .. LastOf(batch) THEN HashAt(batch, h) ELSE blocks[h]]
           /\ batch' = NoBatch /\ UNCHANGED <<prefetch, seen>>
  <2>1. StoredDescends(path)'
    BY <1>1, <1>3, StoredBatchDescends
  <2>2. Piece(path, batch') /\ Piece(path, prefetch') /\ Descends(path, 1, seen')
    <3>1. Piece(path, NoBatch)
      BY DEF Piece
    <3> QED
      BY <1>3, <3>1 DEF OneLineage
  <2> QED
    BY <1>1, <2>1, <2>2, SameTable
<1> QED
  BY <1>2, <1>3, ScanKeeps

\* The lineage after a batch was taken up.
LEMMA NextBatchLineage ==
    ASSUME Progress, NEW path, OneLineage(path), NextBatch
    PROVE  OneLineage(path)'
<1>1. UNCHANGED <<server, seen, blocks>>
  BY DEF NextBatch, db
<1>2. Piece(path, batch') /\ Piece(path, prefetch')
  BY NextBatchFacts
<1>3. StoredDescends(path)' /\ Descends(path, 1, seen')
  BY <1>1 DEF OneLineage, StoredDescends, Forks, server
<1> QED
  BY <1>1, <1>2, <1>3, SameTable

\* A block is mined on the last one's fork.
LEMMA MineKeeps ==
    ASSUME Progress, NEW path, OneLineage(path), Mine
    PROVE  Progress' /\ OneLineage(path)'
<1> DEFINE n == Len(chain)
           f == chain[n]
<1>1. /\ n < MaxHeight /\ chain' = Append(chain, f)
      /\ UNCHANGED <<replica, base, blocks, queue, dbTip, meta, pc, stop, run, batch, prefetch, seen, faults>>
  BY DEF Mine, db, work
<1>2. /\ chain \in Seq(Fork) /\ n \in Height /\ Len(replica) \in Height /\ replica \in Seq(Fork)
      /\ base \in Seq([at : Height, from : Fork \cup {0}]) /\ Len(base) \in Fork
  BY DEF Progress, TypeInv, TypeOK
<1>3. n \in 1 .. n /\ n \in Nat /\ n + 1 \in Height
  BY <1>1, <1>2, Bounds DEF Height
<1>4. f \in Fork
  BY <1>2, <1>3, ElementOfSeq
<1>5. /\ chain' \in Seq(Fork) /\ Len(chain') = n + 1
      /\ \A i \in 1 .. n : chain'[i] = chain[i] /\ chain'[n + 1] = f
  BY <1>1, <1>2, <1>4, AppendProperties
<1>6. Progress'
  BY <1>1, <1>2, <1>3, <1>5, ServiceKeeps DEF db, work
<1>7. f \in Forks /\ \A i \in 1 .. n : path[f][i] = chain[i]
  <2>1. Descends(path, 1, chain)
    BY DEF OneLineage
  <2>2. \A i \in 1 .. n : f \in Forks /\ path[f][1 + i - 1] = chain[i]
    BY <2>1, <1>3 DEF Descends
  <2>3. \A i \in 1 .. n : 1 + i - 1 = i
    BY <1>3
  <2> QED
    BY <1>3, <2>2, <2>3
<1>8. path[f][n + 1] = f
  <2>1. path[f][n] = f /\ n \in Height
    BY <1>2, <1>3, <1>7
  <2>2. base[f].at <= n /\ base[f].at \in Height
    BY <2>1, <1>7 DEF OneLineage, Lineage, Progress, TypeInv, TypeOK, Forks
  <2>3. base[f].at <= n + 1
    BY <1>3, <2>2, Bounds DEF Height
  <2> QED
    BY <1>3, <1>7, <2>3 DEF OneLineage, Lineage
<1>9. Descends(path, 1, chain')
  <2>1. SUFFICES ASSUME NEW j \in 1 .. n + 1, NEW i \in 1 .. j
                 PROVE  chain'[j] \in Forks /\ path[chain'[j]][1 + i - 1] = chain'[i]
    BY <1>5 DEF Descends
  <2>2. 1 + i - 1 = i /\ (j \in 1 .. n \/ j = n + 1) /\ (i \in 1 .. n \/ (i = n + 1 /\ j = n + 1))
    BY <1>3
  <2>3. CASE j \in 1 .. n
    <3>1. i \in 1 .. n
      BY <1>3, <2>3
    <3>2. chain[j] \in Forks /\ path[chain[j]][1 + i - 1] = chain[i]
      BY <2>3 DEF OneLineage, Descends
    <3> QED
      BY <1>5, <2>3, <3>1, <3>2
  <2>4. CASE j = n + 1
    <3>1. chain'[j] = f
      BY <1>3, <1>5, <2>4
    <3>2. path[f][i] = chain'[i]
      BY <1>3, <1>5, <1>7, <1>8, <2>2
    <3> QED
      BY <1>7, <2>2, <3>1, <3>2
  <2> QED
    BY <2>2, <2>3, <2>4
<1> HIDE DEF n, f
<1>10. OneLineage(path)'
  <2>1. Lineage(path)'
    BY <1>1 DEF OneLineage, Lineage, Forks
  <2>2. (Descends(path, 1, chain) /\ Descends(path, 1, replica) /\ Descends(path, 1, seen))'
    BY <1>1, <1>9 DEF OneLineage, Descends, Forks
  <2>3. (Piece(path, batch) /\ Piece(path, prefetch))'
    BY <1>1 DEF OneLineage, Piece, Descends, Forks, LastOf, NoBatch
  <2>4. StoredDescends(path)'
    BY <1>1 DEF OneLineage, StoredDescends, Forks
  <2> QED
    BY <2>1, <2>2, <2>3, <2>4 DEF OneLineage
<1> QED
  BY <1>6, <1>10

\* A replica catches up.
LEMMA CatchUpKeeps ==
    ASSUME Progress, NEW path, OneLineage(path), CatchUp
    PROVE  Progress' /\ OneLineage(path)'
<1>1. /\ replica' = chain
      /\ UNCHANGED <<chain, base, blocks, queue, dbTip, meta, pc, stop, run, batch, prefetch, seen, faults>>
  BY DEF CatchUp, db, work
<1>2. /\ chain \in Seq(Fork) /\ Len(chain) \in Height
      /\ base \in Seq([at : Height, from : Fork \cup {0}]) /\ Len(base) \in Fork
  BY DEF Progress, TypeInv, TypeOK
<1>3. Progress'
  BY <1>1, <1>2, ServiceKeeps DEF db, work
<1>4. OneLineage(path)'
  <2>1. Lineage(path)'
    BY <1>1 DEF OneLineage, Lineage, Forks
  <2>2. (Descends(path, 1, chain) /\ Descends(path, 1, replica) /\ Descends(path, 1, seen))'
    BY <1>1 DEF OneLineage, Descends, Forks
  <2>3. (Piece(path, batch) /\ Piece(path, prefetch))'
    BY <1>1 DEF OneLineage, Piece, Descends, Forks, LastOf, NoBatch
  <2>4. StoredDescends(path)'
    BY <1>1 DEF OneLineage, StoredDescends, Forks
  <2> QED
    BY <2>1, <2>2, <2>3, <2>4 DEF OneLineage
<1> QED
  BY <1>3, <1>4

\* A chain keeps its ancestors when the table grows.
LEMMA GrownTable ==
    ASSUME NEW path, NEW grown, Forks \subseteq Forks', \A f \in Forks : grown[f] = path[f],
           NEW start, NEW v, Descends(path, start, v)
    PROVE  Descends(grown, start, v)'
BY DEF Descends

\* The table after a reorganization: the new fork has the ancestors of the
\* block it starts from.
Grown(path, h, new) ==
    [f \in 1 .. new |->
        IF f = new THEN [k \in Height |-> IF k >= h THEN new ELSE path[chain[h - 1]][k]] ELSE path[f]]

\* It is a table of ancestors.
LEMMA GrownLineage ==
    ASSUME Progress, NEW path, OneLineage(path), NEW new \in Nat, new = Len(base) + 1,
           NEW h \in 2 .. Len(chain), NEW grown, grown = Grown(path, h, new),
           base' = Append(base, [at |-> h, from |-> chain[h - 1]]),
           chain[h - 1] \in Fork
    PROVE  /\ Lineage(grown)' /\ Forks' = 1 .. new /\ Forks \subseteq Forks' /\ new \notin Forks
           /\ \A f \in Forks : grown[f] = path[f]
           /\ \A k \in Height : grown[new][k] = IF k >= h THEN new ELSE path[chain[h - 1]][k]
<1> DEFINE c == chain[h - 1]
<1>1. /\ h \in Height /\ h - 1 \in Height /\ h \in Nat /\ h - 1 \in 1 .. Len(chain)
      /\ Len(base) \in Nat /\ Len(base) >= 1 /\ new \in 1 .. new
  <2>1. Len(chain) \in Height /\ Len(base) \in Fork
    BY DEF Progress, TypeInv
  <2> QED
    BY <2>1, Bounds DEF Height, Fork
<1>2. c \in Forks /\ path[c][h - 1] = c /\ Lineage(path)
  <2>1. Descends(path, 1, chain) /\ h - 1 \in 1 .. h - 1 /\ 1 + (h - 1) - 1 = h - 1
    BY <1>1 DEF OneLineage
  <2>2. c \in Forks /\ path[c][1 + (h - 1) - 1] = c
    BY <1>1, <2>1 DEF Descends
  <2> QED
    BY <2>1, <2>2 DEF OneLineage
<1>3. /\ Len(base') = new /\ base'[new] = [at |-> h, from |-> c]
      /\ \A f \in Forks : base'[f] = base[f]
  <2>1. base \in Seq([at : Height, from : Fork \cup {0}])
        /\ [at |-> h, from |-> c] \in [at : Height, from : Fork \cup {0}]
    BY <1>1 DEF Progress, TypeInv
  <2> QED
    BY <2>1, AppendProperties DEF Forks
<1>4. Forks' = 1 .. new /\ Forks \subseteq Forks' /\ new \notin Forks
      /\ \A f \in Forks' : f \in Forks \/ f = new
  BY <1>1, <1>3 DEF Forks
<1>5. \A f \in Forks : grown[f] = path[f]
  BY <1>4 DEF Grown
<1>6. \A k \in Height : grown[new][k] = IF k >= h THEN new ELSE path[c][k]
  BY <1>1 DEF Grown
<1>7. \A f \in Forks, k \in Height : path[f][k] \in Forks
  BY <1>2 DEF Lineage
<1>8. grown \in [Forks' -> [Height -> Forks']]
  <2>1. [k \in Height |-> IF k >= h THEN new ELSE path[c][k]] \in [Height -> Forks']
    BY <1>1, <1>2, <1>4, <1>7
  <2>2. ASSUME NEW f \in Forks PROVE path[f] \in [Height -> Forks']
    <3>1. path[f] \in [Height -> Forks]
      BY <1>2 DEF Lineage
    <3> QED
      BY <1>4, <3>1
  <2> QED
    BY <1>4, <2>1, <2>2 DEF Grown
<1>9. ASSUME NEW f \in Forks', NEW k \in Height PROVE grown[f][k] = f <=> base'[f].at <= k
  <2>1. CASE f \in Forks
    <3>1. path[f][k] = f <=> base[f].at <= k
      BY <1>2, <2>1 DEF Lineage
    <3>2. grown[f] = path[f] /\ base'[f] = base[f]
      BY <1>3, <1>5, <2>1
    <3> QED
      BY <3>1, <3>2
  <2>2. CASE f = new
    <3>1. base'[f].at = h
      BY <1>3, <2>2
    <3>2. k >= h => grown[new][k] = new
      BY <1>6
    <3>3. ~(k >= h) => grown[new][k] # new
      BY <1>2, <1>4, <1>6, <1>7
    <3>4. k >= h <=> h <= k
      BY <1>1, Bounds DEF Height
    <3> QED
      BY <2>2, <3>1, <3>2, <3>3, <3>4
  <2> QED
    BY <1>4, <2>1, <2>2
<1>10. ASSUME NEW f \in Forks', NEW k \in Height, base'[f].at = k + 1
       PROVE  grown[f][k] = base'[f].from
  <2>1. CASE f \in Forks
    <3>1. base[f].at = k + 1 => path[f][k] = base[f].from
      BY <1>2, <2>1 DEF Lineage
    <3>2. grown[f] = path[f] /\ base'[f] = base[f]
      BY <1>3, <1>5, <2>1
    <3> QED
      BY <1>10, <3>1, <3>2
  <2>2. CASE f = new
    <3>1. base'[f].at = h /\ base'[f].from = c
      BY <1>3, <2>2
    <3>2. k = h - 1 /\ ~(k >= h)
      <4>1. h = k + 1
        BY <1>10, <3>1
      <4>2. k \in Nat
        BY Bounds DEF Height
      <4> QED
        BY <1>1, <4>1, <4>2
    <3> QED
      BY <1>2, <1>6, <2>2, <3>1, <3>2
  <2> QED
    BY <1>4, <2>1, <2>2
<1>11. ASSUME NEW f \in Forks', NEW k \in Height, NEW g \in 1 .. k
       PROVE  grown[grown[f][k]][g] = grown[f][g]
  <2>0. g \in Height /\ g \in Nat /\ k \in Nat /\ g <= k
    BY Bounds DEF Height
  <2>1. CASE f \in Forks
    BY <1>2, <1>5, <1>7, <2>1, AncestorsOf
  <2>2. CASE f = new /\ k >= h
    BY <1>6, <2>2
  <2>3. CASE f = new /\ ~(k >= h)
    <3>1. grown[f][k] = path[c][k] /\ path[c][k] \in Forks
      BY <1>2, <1>6, <1>7, <2>3
    <3>2. ~(g >= h)
      BY <1>1, <2>0, <2>3
    <3>3. grown[f][g] = path[c][g]
      BY <1>6, <2>0, <2>3, <3>2
    <3>4. path[path[c][k]][g] = path[c][g]
      BY <1>2, AncestorsOf
    <3> QED
      BY <1>5, <3>1, <3>3, <3>4
  <2> QED
    BY <1>4, <2>1, <2>2, <2>3
<1>12. Lineage(grown)'
  BY <1>8, <1>9, <1>10, <1>11 DEF Lineage
<1> QED
  BY <1>4, <1>5, <1>6, <1>12

\* The chain is reorganized: a new fork leaves it.
LEMMA ReorgKeeps ==
    ASSUME Progress, NEW path, OneLineage(path), Reorg
    PROVE  Progress' /\ \E grown : OneLineage(grown)'
<1>1. /\ Len(base) <= MaxForks
      /\ UNCHANGED <<replica, blocks, queue, dbTip, meta, pc, stop, run, batch, prefetch, seen, faults>>
  BY DEF Reorg, db, work
<1> DEFINE new == Len(base) + 1
<1>2. PICK h \in 2 .. Len(chain), n \in Len(chain) .. Len(chain) + 1 :
          /\ n <= MaxHeight
          /\ chain' = [i \in 1 .. n |-> IF i < h THEN chain[i] ELSE new]
          /\ base' = Append(base, [at |-> h, from |-> chain[h - 1]])
  BY DEF Reorg
<1>3. /\ chain \in Seq(Fork) /\ replica \in Seq(Fork) /\ Len(chain) \in Height /\ Len(replica) \in Height
      /\ base \in Seq([at : Height, from : Fork \cup {0}]) /\ Len(base) \in Fork
  BY DEF Progress, TypeInv, TypeOK
<1>4. /\ h \in Nat /\ n \in Nat /\ h <= n /\ h <= Len(chain) /\ Len(chain) \in Nat /\ h \in Height
      /\ n \in Height /\ h - 1 \in 1 .. Len(chain) /\ new \in Fork /\ new \in Nat
      /\ \A i \in 1 .. n : i \in Height
      /\ \A i \in 1 .. n : i < h => i \in 1 .. Len(chain)
  <2>1. n <= MaxHeight /\ n \in Len(chain) .. Len(chain) + 1
    BY <1>2
  <2>2. Len(chain) \in Nat /\ n \in Nat /\ h \in Nat /\ h <= n
    BY <1>3, <2>1, Bounds DEF Height
  <2>3. h \in Height /\ n \in Height /\ h - 1 \in 1 .. Len(chain)
    BY <2>1, <2>2, Bounds DEF Height
  <2>4. new \in Fork /\ new \in Nat
    BY <1>1, <1>3, Bounds DEF Fork
  <2>5. \A i \in 1 .. n : i \in Height /\ (i < h => i \in 1 .. Len(chain))
    BY <2>1, <2>2, Bounds DEF Height
  <2> QED
    BY <2>2, <2>3, <2>4, <2>5
<1>5. chain[h - 1] \in Fork
  BY <1>3, <1>4, ElementOfSeq
<1> HIDE DEF new
<1>6. chain' \in Seq(Fork) /\ Len(chain') = n
  <2>1. \A i \in 1 .. n : (IF i < h THEN chain[i] ELSE new) \in Fork
    BY <1>3, <1>4, ElementOfSeq
  <2>2. chain' \in [1 .. n -> Fork]
    BY <1>2, <2>1
  <2>3. chain' \in Seq(Fork)
    BY <1>4, <2>2, SeqDef
  <2>4. DOMAIN chain' = 1 .. n
    BY <1>2
  <2> QED
    BY <1>4, <2>3, <2>4, LenProperties
<1>7. /\ base' \in Seq([at : Height, from : Fork \cup {0}]) /\ Len(base') \in Fork
  <2>1. [at |-> h, from |-> chain[h - 1]] \in [at : Height, from : Fork \cup {0}]
    BY <1>4, <1>5
  <2>2. base' \in Seq([at : Height, from : Fork \cup {0}]) /\ Len(base') = Len(base) + 1
    BY <1>2, <1>3, <2>1, AppendProperties
  <2> QED
    BY <1>4, <2>2 DEF new
<1>8. Progress'
  BY <1>1, <1>3, <1>4, <1>6, <1>7, ServiceKeeps DEF db, work
<1>9. PICK grown : grown = Grown(path, h, new)
  OBVIOUS
<1>10. /\ Lineage(grown)' /\ Forks' = 1 .. new /\ Forks \subseteq Forks' /\ new \notin Forks
       /\ \A f \in Forks : grown[f] = path[f]
       /\ \A k \in Height : grown[new][k] = IF k >= h THEN new ELSE path[chain[h - 1]][k]
  BY <1>2, <1>4, <1>5, <1>9, GrownLineage DEF new
<1>11. Descends(grown, 1, chain)'
  <2>1. SUFFICES ASSUME NEW j \in 1 .. n, NEW i \in 1 .. j
                 PROVE  chain'[j] \in Forks' /\ grown[chain'[j]][1 + i - 1] = chain'[i]
    BY <1>6 DEF Descends
  <2>2. i \in 1 .. n /\ 1 + i - 1 = i /\ i \in Height /\ i \in Nat /\ j \in Nat /\ i <= j
    BY <1>4
  <2>3. \A k \in 1 .. n : chain'[k] = IF k < h THEN chain[k] ELSE new
    BY <1>2
  <2>4. Descends(path, 1, chain)
    BY DEF OneLineage
  <2>5. CASE j < h
    <3>1. j \in 1 .. Len(chain) /\ i < h
      BY <1>4, <2>2, <2>5
    <3>2. chain[j] \in Forks /\ path[chain[j]][1 + i - 1] = chain[i]
      BY <2>4, <3>1 DEF Descends
    <3> QED
      BY <1>10, <2>2, <2>3, <2>5, <3>1, <3>2
  <2>6. CASE ~(j < h)
    <3>1. chain'[j] = new /\ new \in Forks'
      BY <1>4, <1>10, <2>3, <2>6 DEF new
    <3>2. CASE i < h
      <4>1. i \in 1 .. h - 1 /\ ~(i >= h)
        BY <1>4, <2>2, <3>2
      <4>2. path[chain[h - 1]][1 + i - 1] = chain[i]
        BY <1>4, <2>4, <4>1 DEF Descends
      <4> QED
        BY <1>10, <2>2, <2>3, <3>1, <3>2, <4>1, <4>2
    <3>3. CASE ~(i < h)
      <4>1. i >= h
        BY <1>4, <2>2, <3>3
      <4> QED
        BY <1>10, <2>2, <2>3, <3>1, <3>3, <4>1
    <3> QED
      BY <3>2, <3>3
  <2> QED
    BY <2>5, <2>6
<1>12. Descends(grown, 1, replica)' /\ Descends(grown, 1, seen)'
  <2>1. Descends(path, 1, replica) /\ Descends(path, 1, seen)
    BY DEF OneLineage
  <2>2. ASSUME NEW v, Descends(path, 1, v)
        PROVE  \A j \in 1 .. Len(v) : \A i \in 1 .. j :
                  v[j] \in Forks' /\ grown[v[j]][1 + i - 1] = v[i]
    BY <1>10, <2>2 DEF Descends
  <2>3. UNCHANGED <<replica, seen>>
    BY <1>1
  <2> QED
    BY <2>1, <2>2, <2>3 DEF Descends
<1>13. ASSUME NEW b, b \in Batches, Piece(path, b) PROVE Piece(grown, b)'
  <2>1. CASE b = NoBatch
    BY <2>1 DEF Piece, NoBatch
  <2>2. CASE b # NoBatch
    <3>1. /\ b.start \in Height /\ b.hashes # <<>> /\ LastOf(b) \in Height
          /\ Descends(path, b.start, b.hashes)
          /\ b.start > 1 => b.prev = path[b.hashes[1]][b.start - 1]
      BY <1>13, <2>2 DEF Piece
    <3>2. Len(b.hashes) \in Nat /\ Len(b.hashes) # 0
      BY <1>13, <3>1, EmptySeq, LenProperties DEF Batches
    <3>3. 1 \in 1 .. Len(b.hashes) /\ 1 \in 1 .. 1
      BY <3>2
    <3>4. b.hashes[1] \in Forks
      BY <3>1, <3>3 DEF Descends
    <3>5. Descends(grown, b.start, b.hashes)'
      BY <1>10, <3>1, GrownTable
    <3>6. b.start > 1 => b.prev = grown[b.hashes[1]][b.start - 1]
      BY <1>10, <3>1, <3>4
    <3> QED
      BY <3>1, <3>5, <3>6 DEF Piece, LastOf, NoBatch
  <2> QED
    BY <2>1, <2>2
<1>14. Piece(grown, batch)' /\ Piece(grown, prefetch)'
  <2>1. /\ batch \in Batches /\ prefetch \in Batches
        /\ Piece(path, batch) /\ Piece(path, prefetch)
    BY DEF OneLineage, Progress, TypeInv
  <2>2. ASSUME NEW b, b = batch, b = batch' PROVE Piece(grown, batch)'
    BY <1>13, <2>1, <2>2 DEF Piece, Descends, LastOf, NoBatch
  <2>3. ASSUME NEW b, b = prefetch, b = prefetch' PROVE Piece(grown, prefetch)'
    BY <1>13, <2>1, <2>3 DEF Piece, Descends, LastOf, NoBatch
  <2> QED
    BY <1>1, <2>2, <2>3
<1>15. StoredDescends(grown)'
  <2>1. StoredDescends(path)
    BY DEF OneLineage
  <2>2. SUFFICES ASSUME NEW k \in Height, NEW g \in 1 .. k, \A i \in g .. k : blocks[i] # NotScanned
                 PROVE  blocks[k] \in Forks' /\ grown[blocks[k]][g] = blocks[g]
    BY <1>1 DEF StoredDescends
  <2>3. blocks[k] \in Forks /\ path[blocks[k]][g] = blocks[g]
    BY <2>1, <2>2 DEF StoredDescends
  <2> QED
    BY <1>10, <2>3
<1>16. OneLineage(grown)'
  BY <1>10, <1>11, <1>12, <1>14, <1>15 DEF OneLineage
<1> QED
  BY <1>8, <1>16

----------------------------------------------------------------------------
(* The inductive invariant                                                 *)

\* The invariant in the form the lemmas use.
LEMMA InvSplit == SyncInv <=> Progress /\ \E path : OneLineage(path)
<1>1. (\E path : OneLineage(path)) <=> LineageExists
  BY DEF LineageExists, OneLineage, Lineage
<1> QED
  BY <1>1 DEF SyncInv, Progress

\* A new wallet has nothing, and the service one fork.
LEMMA InitInv == Init => SyncInv
<1> SUFFICES ASSUME Init PROVE SyncInv
  OBVIOUS
<1>1. /\ chain = [h \in 1 .. FirstHeight |-> 1] /\ replica = chain
      /\ base = <<[at |-> 1, from |-> 0]>>
      /\ blocks = [h \in Height |-> NotScanned] /\ queue = {} /\ dbTip = 0
      /\ completed = 0 /\ inProgress = FALSE
      /\ pc = "idle" /\ stop = FALSE /\ run = NewRun(0)
      /\ batch = NoBatch /\ prefetch = NoBatch /\ seen = <<>> /\ faults = 0
  BY DEF Init
<1>2. /\ 1 \in Fork /\ FirstHeight \in Nat /\ FirstHeight \in Height /\ 1 \in Height
      /\ \A i \in 1 .. FirstHeight : i \in Height
  BY Bounds DEF Fork, Height
<1>3. chain \in Seq(Fork) /\ Len(chain) = FirstHeight
  <2>1. chain \in [1 .. FirstHeight -> Fork]
    BY <1>1, <1>2
  <2>2. chain \in Seq(Fork)
    BY <1>2, <2>1, SeqDef
  <2>3. DOMAIN chain = 1 .. FirstHeight
    BY <1>1
  <2> QED
    BY <1>2, <2>2, <2>3, LenProperties
<1>4. /\ base \in Seq([at : Height, from : Fork \cup {0}]) /\ Len(base) = 1 /\ base[1].at = 1
      /\ base \in [1 .. Len(base) -> [at : Height, from : Fork \cup {0}]]
  <2>1. [at |-> 1, from |-> 0] \in [at : Height, from : Fork \cup {0}]
    BY <1>2
  <2>2. base \in Seq([at : Height, from : Fork \cup {0}]) /\ Len(base) = 1 /\ base[1].at = 1
    BY <1>1, <2>1
  <2> QED
    BY <2>2, LenProperties
<1>5. NoBatch \in Batches /\ <<>> \in Seq(Fork)
  BY EmptySeq DEF NoBatch, Batches
<1>6. run \in Runs
  BY <1>1, Bounds DEF NewRun, Runs
<1>7. /\ run.main \in 0 .. MaxRewinds /\ run.verifying \in 0 .. MaxRewinds
      /\ run.attempt \in 0 .. MaxRetries
  BY <1>6 DEF Runs
<1>8. TypeInv
  <2>1. blocks \in [Height -> Fork \cup {NotScanned}]
    BY <1>1
  <2>2. 0 \in 0 .. MaxHeight /\ 0 \in 0 .. MaxFaults
    BY Bounds
  <2> QED
    BY <1>1, <1>2, <1>3, <1>4, <1>5, <1>6, <1>7, <2>1, <2>2 DEF TypeInv, TypeOK
<1>9. QueueReachesTip /\ CompletedIsScanned /\ RunIsMarked /\ BatchBelowTip /\ TipIsSeen
      /\ CompleteIsScanned
  BY <1>1, Bounds DEF QueueReachesTip, CompletedIsScanned, RunIsMarked, BatchBelowTip, TipIsSeen,
     CompleteIsScanned, Height
<1>10. PICK path : path = [f \in {1} |-> [h \in Height |-> 1]]
  OBVIOUS
<1>11. Forks = {1}
  BY <1>4 DEF Forks
<1>12. Lineage(path)
  <2>1. path \in [Forks -> [Height -> Forks]]
    BY <1>10, <1>11
  <2>2. \A f \in Forks, h \in Height : f = 1 /\ path[f][h] = 1 /\ base[f].at = 1
    BY <1>4, <1>10, <1>11
  <2>3. \A h \in Height : 1 <= h /\ 1 # h + 1
    BY Bounds DEF Height
  <2>4. \A h \in Height : \A g \in 1 .. h : g \in Height
    BY Bounds DEF Height
  <2> QED
    BY <1>11, <2>1, <2>2, <2>3, <2>4 DEF Lineage
<1>13. Descends(path, 1, chain)
  <2>1. SUFFICES ASSUME NEW j \in 1 .. FirstHeight, NEW i \in 1 .. j
                 PROVE  chain[j] \in Forks /\ path[chain[j]][1 + i - 1] = chain[i]
    BY <1>3 DEF Descends
  <2>2. i \in 1 .. FirstHeight /\ 1 + i - 1 = i /\ i \in Height
    BY <1>2
  <2> QED
    BY <1>1, <1>10, <1>11, <2>2
<1>14. Descends(path, 1, <<>>) /\ Piece(path, NoBatch)
  BY EmptySeq DEF Descends, Piece
<1>15. StoredDescends(path)
  <2>1. \A h \in Height : \A g \in 1 .. h : h \in g .. h /\ blocks[h] = NotScanned
    BY <1>1, Bounds DEF Height
  <2> QED
    BY <2>1 DEF StoredDescends
<1>16. OneLineage(path)
  BY <1>1, <1>12, <1>13, <1>14, <1>15 DEF OneLineage
<1> QED
  BY <1>8, <1>9, <1>16, InvSplit DEF Progress

\* Every step keeps it.
LEMMA StepInv == SyncInv /\ [Next]_vars => SyncInv'
<1> SUFFICES ASSUME SyncInv, [Next]_vars PROVE SyncInv'
  OBVIOUS
<1>1. Progress /\ TypeInv
  BY InvSplit DEF Progress
<1>2. PICK path : OneLineage(path)
  BY InvSplit
<1>3. SUFFICES Progress' /\ \E table : OneLineage(table)'
  <2>1. LineageExists' <=> \E table : OneLineage(table)'
    BY DEF LineageExists, OneLineage, Lineage
  <2> QED
    BY <2>1 DEF SyncInv, Progress
<1>4. ASSUME Progress', Shrinks, Remembers /\ UNCHANGED server
      PROVE  Progress' /\ \E table : OneLineage(table)'
  BY <1>1, <1>2, <1>4, RememberedLineage
<1>5. CASE Start \/ Begin \/ Stop
  BY <1>1, <1>4, <1>5, OutsideKeeps, StepRemembers
<1>6. CASE Exit \/ RpcFails \/ Crash \/ BatchMissing
  BY <1>1, <1>4, <1>6, GiveUpKeeps, StepRemembers
<1>7. CASE Check \/ Final
  <2>1. Progress' /\ Shrinks
    BY <1>1, <1>7, GiveUpKeeps, StepOnKeeps
  <2> QED
    BY <1>4, <1>7, <2>1, StepRemembers
<1>8. CASE Prepare
  BY <1>1, <1>4, <1>8, StepOnKeeps, StepRemembers
<1>9. CASE Retry
  BY <1>1, <1>4, <1>9, RetryKeeps, StepRemembers
<1>10. CASE InitialTip
  BY <1>1, <1>4, <1>10, InitialTipKeeps, StepRemembers
<1>11. CASE PostBatchTip \/ PeriodicTip
  BY <1>1, <1>4, <1>11, RefreshKeeps, StepRemembers
<1>12. CASE Drained
  BY <1>1, <1>4, <1>12, DrainedKeeps, StepRemembers
<1>13. CASE RepairAnchor
  BY <1>1, <1>4, <1>13, RepairAnchorKeeps, StepRemembers
<1>14. CASE RepairWitnesses
  BY <1>1, <1>4, <1>14, RepairWitnessesKeeps, StepRemembers
<1>15. CASE mark_sync_completed
  BY <1>1, <1>4, <1>15, MarkKeeps, StepRemembers
<1>16. CASE ImportAccount
  BY <1>1, <1>4, <1>16, ImportKeeps, StepRemembers
<1>17. CASE NextBatch
  BY <1>1, <1>2, <1>17, NextBatchKeeps, NextBatchLineage
<1>18. CASE ScanBatch
  BY <1>1, <1>2, <1>18, ScanKeeps, ScanLineage
<1>19. CASE Mine \/ CatchUp \/ Reorg
  BY <1>1, <1>2, <1>19, MineKeeps, CatchUpKeeps, ReorgKeeps
<1>20. CASE UNCHANGED vars
  <2>1. UNCHANGED <<server, db, meta, pc, stop, run, work, seen, faults>>
    BY <1>20 DEF vars
  <2>2. Progress' /\ Shrinks
    BY <1>1, <2>1, ServiceKeeps DEF server, TypeInv, TypeOK
  <2>3. Remembers
    BY <2>1 DEF Remembers, work
  <2> QED
    BY <1>4, <2>1, <2>2, <2>3
<1> QED
  BY <1>5, <1>6, <1>7, <1>8, <1>9, <1>10, <1>11, <1>12, <1>13, <1>14, <1>15, <1>16, <1>17, <1>18,
     <1>19, <1>20 DEF Next, Engine

----------------------------------------------------------------------------
(* What follows                                                            *)

\* One table of ancestors links stored neighbours.
LEMMA InvLinked == SyncInv => WalletChainIsLinked
<1> SUFFICES ASSUME SyncInv, NEW h \in Height, h > 1, blocks[h] # NotScanned,
                    blocks[h - 1] # NotScanned
             PROVE  Parent(h, blocks[h]) = blocks[h - 1]
  BY DEF WalletChainIsLinked
<1>1. PICK path : OneLineage(path)
  BY InvSplit
<1>2. Lineage(path) /\ StoredDescends(path) /\ TypeInv
  BY <1>1 DEF OneLineage, SyncInv
<1>3. h \in Nat /\ h - 1 \in 1 .. h /\ h \in 1 .. h
      /\ (\A k \in h - 1 .. h : k = h - 1 \/ k = h) /\ (\A k \in h .. h : k = h)
  BY Bounds DEF Height
<1>4. blocks[h] \in Forks /\ path[blocks[h]][h - 1] = blocks[h - 1]
  BY <1>2, <1>3 DEF StoredDescends
<1>5. path[blocks[h]][h] = blocks[h]
  BY <1>2, <1>3 DEF StoredDescends
<1> QED
  BY <1>2, <1>4, <1>5, ParentIsAncestor

\* A run that says it completed has the chain it saw the tip on.
LEMMA InvCanonical ==
    ASSUME SyncInv, mark_sync_completed
    PROVE  Len(seen) >= dbTip /\ \A h \in 1 .. dbTip : blocks[h] = seen[h]
<1>1. pc = "complete"
  BY DEF mark_sync_completed
<1>2. AtTip /\ \A h \in 1 .. dbTip : blocks[h] # NotScanned
  BY <1>1 DEF SyncInv, TipIsSeen, CompleteIsScanned
<1>3. PICK path : OneLineage(path)
  BY InvSplit
<1>4. dbTip \in Height /\ seen \in Seq(Fork) /\ Len(seen) \in Nat /\ Len(seen) >= dbTip
      /\ blocks[dbTip] = seen[dbTip]
  BY <1>2, LenProperties, Bounds DEF AtTip, SyncInv, TypeInv, TypeOK, Height
<1>5. ASSUME NEW h \in 1 .. dbTip PROVE blocks[h] = seen[h]
  <2>1. \A k \in h .. dbTip : k \in 1 .. dbTip
    BY <1>4, Bounds DEF Height
  <2>2. path[blocks[dbTip]][h] = blocks[h]
    BY <1>2, <1>3, <1>4, <2>1 DEF OneLineage, StoredDescends
  <2>3. dbTip \in 1 .. Len(seen) /\ 1 + h - 1 = h
    BY <1>4, Bounds DEF Height
  <2>4. path[seen[dbTip]][1 + h - 1] = seen[h]
    BY <1>3, <2>3 DEF OneLineage, Descends
  <2> QED
    BY <1>4, <2>2, <2>3, <2>4
<1> QED
  BY <1>4, <1>5

\* The inductive invariant holds of every run, fork and failure.
THEOREM SyncInvariant == Spec => []SyncInv
<1>1. Init => SyncInv
  BY InitInv
<1>2. SyncInv /\ [Next]_vars => SyncInv'
  BY StepInv
<1> QED
  BY <1>1, <1>2, PTL DEF Spec

\* Types; a run stays within its rewind and retry budgets.
THEOREM SyncTyping == Spec => []TypeOK
<1>1. SyncInv => TypeOK
  BY DEF SyncInv, TypeInv
<1> QED
  BY <1>1, SyncInvariant, PTL

\* What is not scanned up to the wallet's tip is queued, nothing is stored above
\* it and a run works toward it, through torn rewinds and ignored tips.
THEOREM QueueAlwaysReachesTip == Spec => []QueueReachesTip
<1>1. SyncInv => QueueReachesTip
  BY DEF SyncInv
<1> QED
  BY <1>1, SyncInvariant, PTL

\* A height reported as completed is scanned, whatever became of later runs.
THEOREM CompletedAlwaysScanned == Spec => []CompletedIsScanned
<1>1. SyncInv => CompletedIsScanned
  BY DEF SyncInv
<1> QED
  BY <1>1, SyncInvariant, PTL

\* Stored neighbours are parent and child, in whatever order ranges of whatever
\* forks were downloaded and scanned.
THEOREM WalletChainAlwaysLinked == Spec => []WalletChainIsLinked
BY InvLinked, SyncInvariant, PTL

\* mark_sync_completed writes only when every stored block is of the one chain
\* the tip was last found on.
THEOREM CompletionAlwaysCanonical == Spec => CompletionIsCanonical
<1>1. SyncInv /\ [Next]_vars =>
        [mark_sync_completed =>
            /\ Len(seen) >= dbTip
            /\ \A h \in 1 .. dbTip : blocks[h] = seen[h]]_vars
  BY InvCanonical
<1> QED
  BY <1>1, SyncInvariant, PTL DEF Spec, CompletionIsCanonical
============================================================================
