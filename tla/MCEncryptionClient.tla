-------------------------- MODULE MCEncryptionClient --------------------------
(* Finite instances of EncryptionClient for TLC.                           *)
EXTENDS EncryptionRefinement, TLC

CallSymmetry == Permutations(Calls)

=============================================================================
