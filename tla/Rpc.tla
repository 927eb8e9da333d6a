-------------------------------- MODULE Rpc --------------------------------
(***************************************************************************)
(* What the command channel promises the co-simulation engine: an FMI call *)
(* made on FmuProxy is a synchronous remote procedure call.  Calls are     *)
(* numbered from 1; one call is in progress at a time; the remote FMU      *)
(* executes it exactly once; and the result the engine is given is the     *)
(* result of that very execution.  How shared memory and two semaphores    *)
(* bring this about is IpcChannel's business.                              *)
(***************************************************************************)
EXTENDS Naturals

VARIABLES
    calls,      \* number of the latest call made
    executed,   \* number of the latest call the remote side has executed
    returned    \* number of the call whose result was returned last

rpcVars == <<calls, executed, returned>>

Init == calls = 0 /\ executed = 0 /\ returned = 0

\* The caller makes its next call, having the result of the previous one.
Call ==
    /\ returned = calls
    /\ calls' = calls + 1
    /\ UNCHANGED <<executed, returned>>

\* The remote side executes the call in progress, which it has not yet done.
Execute ==
    /\ executed < calls
    /\ executed' = calls
    /\ UNCHANGED <<calls, returned>>

\* The caller gets the result of the execution of the call in progress.
Return ==
    /\ executed = calls
    /\ returned < calls
    /\ returned' = executed
    /\ UNCHANGED <<calls, executed>>

Next == Call \/ Execute \/ Return

Safe == Init /\ [][Next]_rpcVars

\* A call in progress is executed and then answered; nobody has to call.
Spec == Safe /\ WF_rpcVars(Execute) /\ WF_rpcVars(Return)
=============================================================================
