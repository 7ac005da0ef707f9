--------------------------- MODULE SyncEngineInv ---------------------------
(***************************************************************************)
(* The inductive invariant of SyncEngine.                                  *)
(*                                                                         *)
(* Whether the wallet's blocks are one chain is a question about ancestors.*)
(* Here ancestry is a table: path[f][h] is the block at height h below, or *)
(* on, fork f.  A fork adds a line to the table and changes none, so that  *)
(* one table explains the chains the service served at different times,    *)
(* the batches that were downloaded from them, and the blocks table.       *)
(***************************************************************************)
EXTENDS SyncEngine

Forks == 1 .. Len(base)
Runs ==
    [attempt : 0 .. MaxRetries, tip : 0 .. MaxHeight, required : BOOLEAN,
     main : 0 .. MaxRewinds, verifying : 0 .. MaxRewinds, witness : Nat, anchor : Nat]
Batches == [start : Nat, prev : Fork \cup {0}, hashes : Seq(Fork)]

\* The types of everything, the run's local variables included.
TypeInv ==
    /\ TypeOK
    /\ base \in Seq([at : Height, from : Fork \cup {0}]) /\ Len(base) \in Fork
    /\ Len(chain) \in Height /\ Len(replica) \in Height
    /\ run \in Runs /\ batch \in Batches /\ prefetch \in Batches

\* path lists the ancestors of every fork.
Lineage(path) ==
    /\ path \in [Forks -> [Height -> Forks]]
    /\ \A f \in Forks, h \in Height : path[f][h] = f <=> base[f].at <= h
    /\ \A f \in Forks, h \in Height : base[f].at = h + 1 => path[f][h] = base[f].from
    /\ \A f \in Forks, h \in Height : \A g \in 1 .. h : path[path[f][h]][g] = path[f][g]

\* The blocks of v, from height start upward, are each other's ancestors.
Descends(path, start, v) ==
    \A j \in 1 .. Len(v) : \A i \in 1 .. j :
        v[j] \in Forks /\ path[v[j]][start + i - 1] = v[i]

\* A batch is a piece of one chain, and names the block below it.
Piece(path, b) ==
    b # NoBatch =>
        /\ b.start \in Height /\ b.hashes # <<>> /\ LastOf(b) \in Height
        /\ Descends(path, b.start, b.hashes)
        /\ b.start > 1 => b.prev = path[b.hashes[1]][b.start - 1]

\* A stored block is the ancestor of every stored block above it that no gap
\* separates from it.
StoredDescends(path) ==
    \A h \in Height : \A g \in 1 .. h :
        (\A k \in g .. h : blocks[k] # NotScanned)
            => blocks[h] \in Forks /\ path[blocks[h]][g] = blocks[g]

OneLineage(path) ==
    /\ Lineage(path)
    /\ Descends(path, 1, chain) /\ Descends(path, 1, replica) /\ Descends(path, 1, seen)
    /\ Piece(path, batch) /\ Piece(path, prefetch)
    /\ StoredDescends(path)

\* Everything the wallet and the service hold fits one table of ancestors.
LineageExists == \E path \in [Forks -> [Height -> Forks]] : OneLineage(path)

\* A run that works is marked as in progress.
RunIsMarked == pc \notin {"idle", "starting"} => inProgress

\* What is about to be scanned lies below the wallet's tip.
BatchBelowTip == pc = "scan" => batch # NoBatch /\ LastOf(batch) <= dbTip

AtTip == dbTip > 0 /\ Len(seen) >= dbTip /\ blocks[dbTip] = seen[dbTip]

\* A tip that need not be asked for again is the one seen, unless its block is
\* still to be scanned; after the last refresh it is scanned.
TipIsSeen ==
    /\ pc \in {"prepare", "loop", "scan"} /\ ~run.required => dbTip > 0 /\ (AtTip \/ blocks[dbTip] = NotScanned)
    /\ pc \in {"check", "final", "complete"} => AtTip

\* Nothing is unscanned once the scan state has been looked at.
CompleteIsScanned ==
    pc = "complete" => \A h \in 1 .. dbTip : blocks[h] # NotScanned

SyncInv ==
    /\ TypeInv /\ QueueReachesTip /\ CompletedIsScanned
    /\ RunIsMarked /\ BatchBelowTip /\ TipIsSeen /\ CompleteIsScanned
    /\ LineageExists
============================================================================
