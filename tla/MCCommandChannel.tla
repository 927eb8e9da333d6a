-------------------------- MODULE MCCommandChannel --------------------------
(***************************************************************************)
(* CommandChannel for TLC: MCCommandChannel.cfg gives the constants.       *)
(***************************************************************************)
EXTENDS CommandChannel
=============================================================================
