------------------------------ MODULE MCStrategy ------------------------------
(***************************************************************************)
(* A calm market, whose two wanted prices round to one, and a volatile one, *)
(* where every fill moves both wanted prices by a tick.                    *)
(***************************************************************************)
EXTENDS Strategy

MCMarkets ==
  {[mid |-> 8, variance |-> 0, timeLeft |-> 1], [mid |-> 9, variance |-> 2, timeLeft |-> 1]}
=============================================================================
