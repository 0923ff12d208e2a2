----------------------------- MODULE MCRingBuffer -----------------------------
(***************************************************************************)
(* The benchmark on four slots and counters that wrap after eight pushes.  *)
(***************************************************************************)
EXTENDS Bench
=============================================================================
