------------------------------ MODULE MCExchange ------------------------------
(***************************************************************************)
(* Exchange with one background level on each side: bids at 2 and 3, asks  *)
(* at 4 and 5.  A Quote's bid at 4 may trade as it arrives, and so may its *)
(* ask at 3, where a Quote at 2 and 2 is nudged to.                        *)
(***************************************************************************)
EXTENDS Exchange

MCPrices == 2..5
MCMids == {3, 4}
MCQuotePrices == {2, 4}
MCQtys == 1..3
=============================================================================
