--------------------------- MODULE CommandChannel ---------------------------
(***************************************************************************)
(* The channel as FmuProxy and ProtocolDriver use it: FmuProxy::send waits *)
(* INFINITE for the reply and parses it out of the slot.                   *)
(***************************************************************************)
EXTENDS IpcChannel

ASSUME CommandModeAssumption == ~GiveUp /\ ParsesReply

\* What the engine and the service can see of the channel.
R == INSTANCE Rpc WITH calls <- sent, executed <- Len(given), returned <- answer.id

(***************************************************************************)
(* The command channel is a synchronous remote procedure call: every FMI   *)
(* call is executed exactly once, and returns the result of its execution. *)
(* ImplementsRpcSafety leaves out that calls in progress come to an end.   *)
(***************************************************************************)
ImplementsRpc == R!Spec
ImplementsRpcSafety == R!Safe
=============================================================================
