--------------------------- MODULE MCMemoryService ---------------------------
(* Instances of MemoryService for TLC. *)
EXTENDS MemoryService, TLC

Symmetry == Permutations(Callers) \cup Permutations(Sessions)
                \cup Permutations(Events \ Silent) \cup Permutations(Texts)
=============================================================================
