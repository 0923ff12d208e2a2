------------------------------ MODULE MCMatching ------------------------------
(***************************************************************************)
(* Matching on a small market.                                             *)
(***************************************************************************)
EXTENDS MatchingRefinement

MCPrices == 1..3
MCQtys == {0, 1, 2}
=============================================================================
