-------------------------- MODULE MCResearchFactory --------------------------
(* Small instances of ResearchFactory for TLC. *)
EXTENDS ResearchFactory, TLC

CONSTANTS w1, w2, x1, h1, h2

Symmetry == Permutations({w1, w2}) \cup Permutations({h1, h2})
=============================================================================
