----------------------------- MODULE MCIdentity -----------------------------
(* A small instance of Identity for TLC. *)
EXTENDS Identity

CONSTANTS o1, o2, r1, read, write

Symmetry == Permutations(Operator) \cup Permutations(Scope)
=============================================================================
