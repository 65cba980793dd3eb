-------------------------- MODULE MCEnrollSession --------------------------
(* Finite instances of EnrollSession. *)
EXTENDS EnrollSession, TLC

CONSTANTS h1, h2, p1, p2, n1, n2, n3, n4, n5, k1, k2, k3

Symmetry == Permutations(Nonces)
=============================================================================
