---------------------------- MODULE MCTipCache ----------------------------
(* A small instance of TipCache for TLC.                                   *)
EXTENDS TipCache, TLC

\* Callers are interchangeable, and so are endpoints.
Symmetry == Permutations(Caller) \cup Permutations(Key)
============================================================================
