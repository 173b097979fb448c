--------------------------- MODULE MCModelAdapters ---------------------------
(* Instances of ModelAdapters for TLC. *)
EXTENDS ModelAdapters

=============================================================================
