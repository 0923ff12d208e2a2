------------------------------- MODULE MCMonitor -------------------------------
(***************************************************************************)
(* One dashboard connection, an engine that may be started twice.          *)
(***************************************************************************)
EXTENDS Monitor
=============================================================================
