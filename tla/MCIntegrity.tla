----------------------------- MODULE MCIntegrity -----------------------------
(* Small instances of Integrity for TLC. *)
EXTENDS Integrity

CONSTANTS w1, m1, m2, a1, k1, k2, h1

AppsThenSystem == <<a1, System>>

Kinds == {Submit, "IntegrityCheckCompleted", "IntegrityStreamVerified",
          "IntegrityViolationDetected", "IntegrityStreamQuarantined",
          "IntegrityStreamReleased"}

Positions == 1..20
Aggregates ==
    {StreamAggregate(s) : s \in {a1, System}} \cup {ViolationAggregate(p) : p \in Positions}

Symmetry == Permutations(Admin) \cup Permutations(Key)
=============================================================================
