---------------------------- MODULE MCProjection ----------------------------
(* Small instances of Projection for TLC. *)
EXTENDS Projection

CONSTANTS w1, w2, m1, m2, a1, a2, k1, k2, h1, Propose

Kinds == {Submit, Propose, "ProjectionRebuilt"}
Aggregates == {Projector}

Symmetry == Permutations(Admin) \cup Permutations(Key) \cup Permutations(Worker)
=============================================================================
