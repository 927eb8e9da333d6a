------------------------------ MODULE FmiCall ------------------------------
(***************************************************************************)
(* An FMI function that the co-simulation engine calls on the wrapper      *)
(* library, all the way to the FMU's service in its JVM and back:          *)
(*   fmu.cpp              looks the component up in g_clients,             *)
(*   FmuProxy             builds the protobuf request and sends it,        *)
(*   ProtocolDriver.run   decodes it, calls the service, sends the reply,  *)
(*   FmuProxy             parses the reply and turns it into a status and  *)
(*                        the caller's output values.                      *)
(* The channel in between is what CommandChannel shows it to be: it        *)
(* delivers each request once and the reply to the call that waits for it. *)
(*                                                                         *)
(* A protobuf message is the record of its fields.  A field that is absent *)
(* reads as its default, which is what makes an empty message parse as a   *)
(* reply of any type.  Values are not modelled, only how many of those the *)
(* service returned reach the caller.                                      *)
(***************************************************************************)
EXTENDS Naturals

CONSTANTS
    MaxInstances,   \* bound on the calls of fmi2Instantiate
    MaxValues       \* bound on the length of the caller's arrays

ASSUME BoundsAssumption == MaxInstances \in Nat /\ MaxValues \in Nat

\* A component is the address of its container.  A new container may get the
\* address of a deleted one, whose handle the engine still has.
Handles == 1..MaxInstances
Null == 0       \* NULL, the dummy that g_clients starts with
Statuses == {"OK", "Warning", "Discard", "Error", "Fatal", "Pending"}

Setters == {"SetReal", "SetInteger", "SetBoolean", "SetString"}
Getters == {"GetReal", "GetInteger", "GetBoolean", "GetString"}
Queries == {"GetMaxStepSize", "GetRealStatus", "GetIntegerStatus",
            "GetBooleanStatus", "GetStringStatus"}
\* The commands that are answered with an Fmi2StatusReply.
StatusCommands == Setters \cup
    {"SetupExperiment", "EnterInitializationMode", "ExitInitializationMode",
     "Terminate", "Reset", "SetDebugLogging", "DoStep", "GetStatus"}
Commands == StatusCommands \cup Getters \cup Queries

\* How many values a command asks the service for.
Outputs(cmd) ==
    IF cmd \in Getters THEN 0..MaxValues ELSE IF cmd \in Queries THEN {1} ELSE {0}

\* What may not fit into the 10 kB of the message slot.  A request for
\* booleans is longer than its reply.
LongRequests == Setters \cup Getters \cup {"Instantiate", "SetDebugLogging"}
LongReplies == {"GetReal", "GetInteger", "GetString", "GetStringStatus"}
\* Requests with strings, which are not UTF-8 for every caller: protobuf sends
\* them all the same, and the receiver's parser rejects them.
StringRequests == {"Instantiate", "SetDebugLogging", "SetString"}

VARIABLES
    currentId,  \* number of the latest fmi2Instantiate
    clients,    \* g_clients
    known,      \* the components the engine has been given
    driver,     \* per instance, the thread of ProtocolDriver.run; "ended"
                \* when the engine has let go of the instance
    pc,         \* where the call in progress is
    call,       \* the call in progress, or the latest one
    service,    \* what the service has returned for it
    reply,      \* the reply message
    result      \* what the engine is given

engineVars == <<currentId, clients, known>>
vars == <<engineVars, driver, pc, call, service, reply, result>>

Counts == 0..MaxValues \cup {1}
Call == [cmd : Commands \cup {"Instantiate"}, on : Handles \cup {Null}, n : Counts]
\* What the service has done: nothing yet, or returned a status and values.
Service == [ran : BOOLEAN, status : Statuses, n : Counts]
NotRun == [ran |-> FALSE, status |-> "OK", n |-> 0]

\* The fields of the replies; Defaults is what the empty message reads as.
Reply == [status : Statuses, n : Counts, valid : BOOLEAN]
Defaults == [status |-> "OK", n |-> 0, valid |-> FALSE]
Refusal == [status |-> "Fatal", n |-> 0, valid |-> FALSE]

Result == [status : Statuses, n : Counts]
NoValues(status) == [status |-> status, n |-> 0]

Init ==
    /\ currentId = 0 /\ clients = {Null} /\ known = {}
    /\ driver = [h \in Handles |-> "none"]
    /\ pc = "idle"
    /\ call = [cmd |-> "Reset", on |-> Null, n |-> 0]
    /\ service = NotRun /\ reply = Defaults /\ result = NoValues("Fatal")

-----------------------------------------------------------------------------
(* The engine's side: fmu.cpp and FmuProxy, up to IpcServer::send.         *)

Returns(status) == pc' = "idle" /\ result' = NoValues(status)

\* getFmuContainer: the component is looked up before anything else.
Registered(h) == h \in clients \ {Null}

\* Only fmi2SetupExperiment answers fmi2OK for a component it does not know.
Invoke(h, cmd, n, fits) ==
    /\ pc = "idle" /\ h \in known \cup {Null}
    /\ call' = [cmd |-> cmd, on |-> h, n |-> n]
    /\ service' = NotRun
    /\ IF Registered(h) /\ fits
       THEN pc' = "sent" /\ UNCHANGED result
       ELSE Returns(IF ~Registered(h) /\ cmd = "SetupExperiment" THEN "OK" ELSE "Fatal")
    /\ UNCHANGED <<engineVars, driver, reply>>

\* fmi2Instantiate, up to the request: the container is registered before
\* the server is created, and stays so when that fails.  A JVM that does not
\* come up is not noticed.
Instantiate(h, created, launched) ==
    /\ pc = "idle" /\ currentId < MaxInstances
    /\ currentId' = currentId + 1
    /\ call' = [cmd |-> "Instantiate", on |-> h, n |-> 0]
    /\ clients' = clients \cup {h}
    /\ driver' = [driver EXCEPT ![h] = IF created /\ launched THEN "running" ELSE "none"]
    /\ service' = NotRun
    /\ IF created THEN pc' = "sent" /\ UNCHANGED result ELSE Returns("Fatal")
    /\ UNCHANGED <<known, reply>>

\* The instance name or the resource location does not fit: the instance is
\* freed again, although its JVM has just been launched.
InstantiateTooLong(h) ==
    /\ pc = "idle" /\ currentId < MaxInstances
    /\ currentId' = currentId + 1
    /\ call' = [cmd |-> "Instantiate", on |-> h, n |-> 0]
    /\ driver' = [driver EXCEPT ![h] = "ended"]
    /\ service' = NotRun
    /\ Returns("Fatal")
    /\ UNCHANGED <<clients, known, reply>>

\* Fault: the component stays registered.
FreeInstanceKeepsContainer(h) ==
    /\ pc = "idle" /\ h \in known \cup {Null}
    /\ driver' = [d \in Handles |-> IF d = h /\ h \in clients THEN "ended" ELSE driver[d]]
    /\ UNCHANGED <<engineVars, pc, call, service, reply, result>>

\* fmi2FreeInstance: the request is not answered, and the engine's end of the
\* channel is deleted.  On Windows the JVM is terminated, elsewhere it is left
\* to its watch dog.
FreeInstance(h) ==
    /\ pc = "idle" /\ h \in known \cup {Null}
    /\ clients' = clients \ ({h} \ {Null})
    /\ driver' = [d \in Handles |-> IF d = h /\ h \in clients THEN "ended" ELSE driver[d]]
    /\ UNCHANGED <<currentId, known, pc, call, service, reply, result>>

-----------------------------------------------------------------------------
(* The FMU's side: ProtocolDriver.run.                                     *)

Serving == pc = "sent" /\ driver[call.on] = "running"

\* What the service may return: a status, or at most as many values as asked
\* for.  A field that the reply's type lacks has its default.
MayReturn(cmd, asked, status, n, valid) ==
    /\ cmd \in Getters \cup Queries => status = "OK"
    /\ n <= asked /\ (cmd \in Queries => n = 1)
    /\ valid => cmd = "GetString"

\* The service returns; a reply that is too long is replaced by the empty
\* message, but an Fmi2GetStringReply by one that says it is not valid.
Serve(status, n, valid, fits) ==
    /\ Serving
    /\ MayReturn(call.cmd, call.n, status, n, valid)
    /\ service' = [ran |-> TRUE, status |-> status, n |-> n]
    /\ reply' = IF fits \/ call.cmd \notin LongReplies
                THEN [status |-> status, n |-> n, valid |-> valid]
                ELSE Defaults
    /\ pc' = "replied"
    /\ UNCHANGED <<engineVars, driver, call, result>>

\* Fault: the decode error is logged and the request left without a status.
RejectSilently ==
    /\ Serving /\ call.cmd \in StringRequests
    /\ reply' = Defaults
    /\ pc' = "replied"
    /\ UNCHANGED <<engineVars, driver, call, service, result>>

\* The request cannot be decoded: the service is not called.
Reject ==
    /\ Serving /\ call.cmd \in StringRequests
    /\ reply' = Refusal
    /\ pc' = "replied"
    /\ UNCHANGED <<engineVars, driver, call, service, result>>

\* The service returns null ("deadlocking do not know how to answer"), or an
\* exception other than the decoder's ends the thread.  Nothing is sent.
LeaveUnanswered(throws) ==
    /\ Serving
    /\ driver' = [driver EXCEPT ![call.on] = IF throws THEN "dead" ELSE "running"]
    /\ pc' = "unanswered"
    /\ UNCHANGED <<engineVars, call, service, reply, result>>

-----------------------------------------------------------------------------
(* The engine's side again: what becomes of the reply.                     *)

\* Fault: getStatus does not know fmi2Pending.
GetStatusWithoutPending(r) == IF r.status = "Pending" THEN "Fatal" ELSE r.status

GetStatus(r) == r.status

\* Fault: the field valid of an Fmi2GetStringReply is not looked at.
ParsedIgnoringValid(cmd, r) ==
    IF cmd \in StatusCommands THEN NoValues(GetStatus(r)) ELSE [status |-> "OK", n |-> r.n]

\* Getters and queries return fmi2OK for every reply there is.
Parsed(cmd, r) ==
    IF cmd \in StatusCommands THEN NoValues(GetStatus(r))
    ELSE IF cmd = "GetString" /\ ~r.valid THEN NoValues("Fatal")
    ELSE [status |-> "OK", n |-> r.n]

Return ==
    /\ pc = "replied" /\ call.cmd # "Instantiate"
    /\ result' = Parsed(call.cmd, reply)
    /\ pc' = "idle"
    /\ UNCHANGED <<engineVars, driver, call, service, reply>>

\* Fault: an instance that is refused is requested again.
ReturnInstanceRetries ==
    /\ pc = "replied" /\ call.cmd = "Instantiate"
    /\ IF GetStatus(reply) = "OK"
       THEN pc' = "idle" /\ known' = known \cup {call.on}
       ELSE pc' = "sent" /\ UNCHANGED known
    /\ result' = NoValues(IF GetStatus(reply) = "OK" THEN "OK" ELSE "Fatal")
    /\ UNCHANGED <<currentId, clients, driver, call, service, reply>>

\* Any status but fmi2OK frees the instance; the engine is given NULL.
ReturnInstance ==
    /\ pc = "replied" /\ call.cmd = "Instantiate"
    /\ IF GetStatus(reply) = "OK"
       THEN /\ known' = known \cup {call.on}
            /\ UNCHANGED <<clients, driver>>
       ELSE /\ clients' = clients \ {call.on}
            /\ driver' = [driver EXCEPT ![call.on] = "ended"]
            /\ UNCHANGED known
    /\ result' = NoValues(IF GetStatus(reply) = "OK" THEN "OK" ELSE "Fatal")
    /\ pc' = "idle"
    /\ UNCHANGED <<currentId, call, service, reply>>

-----------------------------------------------------------------------------
EngineCalls ==
    \/ \E h \in Handles \cup {Null}, cmd \in Commands :
        \E n \in Outputs(cmd), fits \in {TRUE, cmd \notin LongRequests} :
            Invoke(h, cmd, n, fits)
    \/ \E h \in Handles \ clients :
        \/ \E created, launched \in BOOLEAN : Instantiate(h, created, launched)
        \/ InstantiateTooLong(h)
    \/ \E h \in Handles \cup {Null} : FreeInstance(h)

DriverServes ==
    \/ \E status \in Statuses, n \in Counts, valid, fits \in BOOLEAN :
        Serve(status, n, valid, fits)
    \/ Reject

Next ==
    \/ EngineCalls \/ Return \/ ReturnInstance
    \/ DriverServes
    \/ \E throws \in BOOLEAN : LeaveUnanswered(throws)

Spec == Init /\ [][Next]_vars

\* A service that is called returns, or fails to, and so does the engine's
\* thread once it has its reply; the engine need not call.
FairSpec ==
    Spec /\ WF_vars(DriverServes) /\ WF_vars(Return) /\ WF_vars(ReturnInstance)

-----------------------------------------------------------------------------
TypeOK ==
    /\ currentId \in 0..MaxInstances
    /\ clients \subseteq Handles \cup {Null} /\ known \subseteq Handles
    /\ driver \in [Handles -> {"none", "running", "dead", "ended"}]
    /\ pc \in {"idle", "sent", "replied", "unanswered"}
    /\ call \in Call /\ service \in Service /\ reply \in Reply /\ result \in Result

(***************************************************************************)
(* The status an FMI function returns for a command that is answered with  *)
(* a status is the one the service returned for this very call, and        *)
(* fmi2Fatal if the service never saw it; fmi2SetupExperiment on an        *)
(* unknown component is the exception.                                     *)
(***************************************************************************)
StatusIsTheServices ==
    pc = "idle" /\ call.cmd \in StatusCommands =>
        \/ service.ran /\ result.status = service.status
        \/ ~service.ran /\ result.status = "Fatal"
        \/ call.cmd = "SetupExperiment" /\ ~Registered(call.on)

(***************************************************************************)
(* A getter or query that returns fmi2OK has given the caller every value  *)
(* the service returned, if the reply was short enough.  For strings the   *)
(* length does not matter: a reply that is too long fails.                 *)
(***************************************************************************)
Delivered == service.ran /\ result.n = service.n
OkMeansDelivered ==
    pc = "idle" /\ result.status = "OK" /\ call.cmd \in Getters \cup Queries =>
        Delivered \/ (reply = Defaults /\ call.cmd \in LongReplies \ {"GetString"})

(***************************************************************************)
(* " Returning FATAL", logs ProtocolDriver.run of a reply that is too      *)
(* long: a function that could not give its caller all the values the      *)
(* service returned does not return fmi2OK.                                *)
(***************************************************************************)
OversizedReplyIsFatal ==
    pc = "idle" /\ service.ran /\ result.n < service.n => result.status = "Fatal"

(***************************************************************************)
(* No call reaches the service of an instance that has been freed, and one *)
(* that the engine was given stays usable until then.                      *)
(***************************************************************************)
OnlyLiveInstancesCalled ==
    /\ pc # "idle" => Registered(call.on) /\ driver[call.on] # "ended"
    /\ \A h \in known : h \in clients <=> driver[h] # "ended"

(***************************************************************************)
(* FmuProxy::send waits INFINITE.  So a call returns, unless the JVM never *)
(* came up or the service left the call unanswered: then the engine hangs. *)
(***************************************************************************)
CallReturns ==
    pc # "idle" ~> \/ pc = "idle"
                   \/ pc = "unanswered"
                   \/ driver[call.on] = "none"

-----------------------------------------------------------------------------
(* The inductive invariant behind the safety properties.                   *)

\* The reply in flight is the service's, cut down to nothing or refused.
ReplyIsTheServices ==
    pc = "replied" =>
        \/ /\ service.ran /\ reply.status = service.status
           /\ reply.n = service.n
        \/ /\ service.ran /\ reply = Defaults
           /\ call.cmd \in LongReplies
        \/ /\ ~service.ran /\ reply.status = "Fatal"
           /\ call.cmd \in StringRequests

\* A call asks for as many values as its command allows, and the thread of a
\* driver has ended only if the call that ended it waits for ever.
Answerable ==
    /\ call.n \in Outputs(call.cmd)
    /\ pc # "unanswered" => \A h \in Handles : driver[h] # "dead"

IInv ==
    /\ TypeOK
    /\ pc = "sent" => ~service.ran
    /\ ReplyIsTheServices
    /\ StatusIsTheServices
    /\ OkMeansDelivered
    /\ OnlyLiveInstancesCalled
    /\ Answerable
=============================================================================
