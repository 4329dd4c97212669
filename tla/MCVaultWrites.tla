--------------------------- MODULE MCVaultWrites ---------------------------
(* Instances of VaultWrites for TLC. *)
EXTENDS VaultWrites, TLC

\* Calls in flight are interchangeable, and so are accounts.
Symmetry == Permutations(Slots) \cup Permutations(Users)
=============================================================================
