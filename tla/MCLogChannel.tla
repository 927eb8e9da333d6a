---------------------------- MODULE MCLogChannel ----------------------------
(***************************************************************************)
(* IpcChannel as SharedMemoryServer and callbackThreadFunc use it: the     *)
(* configuration turns the timeout on and the parsing of replies off.      *)
(***************************************************************************)
EXTENDS IpcChannel
=============================================================================
