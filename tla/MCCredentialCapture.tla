------------------------ MODULE MCCredentialCapture ------------------------
(* Instances of CredentialCapture for TLC. *)
EXTENDS CredentialCapture, TLC

Symmetry == Permutations(Users) \cup Permutations(Origins)
=============================================================================
