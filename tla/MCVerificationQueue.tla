------------------------ MODULE MCVerificationQueue ------------------------
(* Instances of VerificationQueue for TLC. *)
EXTENDS VerificationQueue, TLC

Symmetry == Permutations(Consumers) \cup Permutations(Targets)
=============================================================================
