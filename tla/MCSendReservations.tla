------------------------ MODULE MCSendReservations ------------------------
(* Small instances of SendReservations for TLC.                            *)
EXTENDS SendReservationsInv, TLC

\* Proposals and notes are interchangeable.
Symmetry == Permutations(Proposal) \cup Permutations(Note)
============================================================================
