------------------------- MODULE MCSessionPersister -------------------------
(* Instances of SessionPersister for TLC. *)
EXTENDS SessionPersister, TLC

Symmetry == Permutations(Producers) \cup Permutations(Sessions)
=============================================================================
