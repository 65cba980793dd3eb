--------------------------- MODULE MCRegistryFile ---------------------------
(* Finite instances of RegistryFile.  Mutations, readers and inodes are each
   interchangeable. *)
EXTENDS RegistryFile, TLC

CONSTANTS m1, m2, m3, r1, r2, i1, i2, i3, i4

Symmetry == Permutations(Mutations) \cup Permutations(Readers) \cup Permutations(Inodes)
=============================================================================
