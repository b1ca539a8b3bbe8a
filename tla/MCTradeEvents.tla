--------------------------- MODULE MCTradeEvents ---------------------------
(* Instances of TradeEvents for TLC.                                       *)
EXTENDS TradeEvents, TLC

Interchangeable == Permutations(Ids)

NoGroups == {}
=============================================================================
