----------------------------- MODULE MCNamedIpc -----------------------------
(***************************************************************************)
(* NamedIpc for TLC.  In the first run with a key, the FMU may be started  *)
(* by hand.                                                                *)
(***************************************************************************)
EXTENDS NamedIpc

FirstRun == {1}
=============================================================================
