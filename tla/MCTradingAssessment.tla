------------------------- MODULE MCTradingAssessment -------------------------
(* Small instances of TradingAssessment for TLC. *)
EXTENDS TradingAssessment

=============================================================================
