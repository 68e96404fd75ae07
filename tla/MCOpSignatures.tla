--------------------------- MODULE MCOpSignatures ---------------------------
(* Small instances of OpSignatures for TLC. *)
EXTENDS OpSignatures, TLC

(* Callers and orders are interchangeable, and only safety is checked. *)
Symmetry == Permutations(Callers) \cup Permutations(Orders)
=============================================================================
