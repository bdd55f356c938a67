--------------------------- MODULE MCEventLedger ---------------------------
(* Small instances of EventLedger for TLC. *)
EXTENDS EventLedger, TLC

CONSTANTS w1, w2, w3, a1, a2, k1, k2, h1, h2, Propose

Symmetry == Permutations(Worker) \cup Permutations(Payload) \cup Permutations(App) \cup Permutations(Key)
=============================================================================
