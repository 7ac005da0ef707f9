----------------------- MODULE MCWalletSummaryCache -----------------------
(* A small instance of WalletSummaryCache for TLC.                         *)
EXTENDS WalletSummaryCacheInv, TLC

\* Readers, writers and slots are interchangeable.
Symmetry == Permutations(Reader) \cup Permutations(Writer) \cup Permutations(Slot)
============================================================================
