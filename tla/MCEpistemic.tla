---------------------------- MODULE MCEpistemic ----------------------------
(* Small instances of Epistemic for TLC. *)
EXTENDS Epistemic

CONSTANTS s1, s2

Symmetry == Permutations(Session)
=============================================================================
