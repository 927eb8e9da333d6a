---------------------------- MODULE MCFmuSession ----------------------------
(***************************************************************************)
(* FmuSession for TLC: the configurations bound the log messages.          *)
(***************************************************************************)
EXTENDS FmuSession
=============================================================================
