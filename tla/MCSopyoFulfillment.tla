------------------------- MODULE MCSopyoFulfillment -------------------------
(* Instances of SopyoFulfillment for TLC. *)
EXTENDS SopyoFulfillment, TLC

Symmetry == Permutations(Workers) \cup Permutations(Cargos)

=============================================================================
