------------------------ MODULE MCEpistemicProjection ------------------------
(* Small instances of EpistemicProjection for TLC. *)
EXTENDS EpistemicProjection

CONSTANTS s1, s2

Symmetry == Permutations(Session)
=============================================================================
