----------------------------- MODULE MCDataExport -----------------------------
(* Instances of DataExport for TLC. *)
EXTENDS DataExport, TLC

Symmetry == Permutations(Workers)
=============================================================================
