-------------------------- MODULE MCRevocationList --------------------------
(* Model-checking instances of RevocationList. *)
EXTENDS RevocationList, TLC

AllLists == SUBSET Jtis

Symmetry == Permutations(Tasks)
=============================================================================
