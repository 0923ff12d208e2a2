----------------------------- MODULE MCMarketData -----------------------------
(***************************************************************************)
(* MarketData with a handful of events on a two-tick market.               *)
(***************************************************************************)
EXTENDS MarketData

MCPrices == {1, 2}
MCQtys == {1, 2}
=============================================================================
