---------------------------- MODULE MCTradeQueue ----------------------------
(* TradeQueue for TLC: processes, keys and order ids are interchangeable.  *)
EXTENDS TradeQueue, TLC

Symmetry ==
    Permutations(Workers) \cup Permutations(Keys) \cup Permutations(Orders)

=============================================================================
