----------------------------- MODULE FmuSession -----------------------------
(***************************************************************************)
(* One instance of the FMU from fmi2Instantiate to fmi2FreeInstance: the   *)
(* thread of the engine that calls, the callback thread fmi2Instantiate    *)
(* starts for the FMU's log messages, and the thread of the JVM that       *)
(* serves the calls and logs while it does.  The callback thread uses the  *)
(* container that fmi2FreeInstance deletes, and it is started only when    *)
(* the service has already answered Instantiate.                           *)
(*                                                                         *)
(* The command channel carries one call or one reply, as Rpc allows; the   *)
(* log channel is reduced to its two semaphores and to the number of the   *)
(* message in the slot, which is written and read at once (IpcChannel has  *)
(* its detail, NamedIpc how its ends find each other).                     *)
(***************************************************************************)
EXTENDS Naturals, Sequences

CONSTANTS
    MaxLogs,      \* bound on the log messages
    JvmMayDie     \* may the JVM end at any time?

ASSUME SessionAssumption == MaxLogs \in Nat /\ JvmMayDie \in BOOLEAN

VARIABLES
    engine,      \* the thread that calls the FMI functions
    loggingOn,   \* loggingOn, which the service gets too
    logger,      \* is there a logger to call?
    container,   \* the FmuContainer
    active,      \* FmuContainer.active
    callback,    \* the thread of callbackThreadFunc
    request,     \* the command channel: the engine's message
    reply,       \* the command channel: the service's answer
    jvm,         \* the FMU's JVM
    service,     \* the call the service is in, or that its thread has ended
    unanswered,  \* has the driver left a call without its reply?
    logServer,   \* the LogProtocolDriver and its g_server
    log,         \* the service's position in LogProtocolDriver.log
    avail,       \* log channel: the semaphore avail
    signal,      \* log channel: the semaphore signal
    logs,        \* log channel: number of the latest message
    slot,        \* log channel: the message in the slot, 0 for what is none
    given,       \* what the logger was called with, 0 for what was not logged
    gaveUp       \* has a log given up waiting?

engineVars == <<engine, loggingOn, logger, container, active>>
commandVars == <<request, reply>>
jvmVars == <<jvm, service, unanswered, logServer>>
logVars == <<log, avail, signal, logs, slot, given, gaveUp>>
vars == <<engineVars, callback, commandVars, jvmVars, logVars>>

EngineStates ==
    {"new", "created", "launched", "instantiating", "ready", "calling",
     "freeing", "joining", "deleting", "freed", "null"}
CallbackStates ==
    {"none", "connecting", "connect", "retry", "serving", "get", "logger",
     "reply", "leaving", "ended"}
Calls == {"instantiate", "call", "free"}

Init ==
    /\ engine = "new" /\ loggingOn \in BOOLEAN /\ logger \in BOOLEAN
    /\ container = "live" /\ active = TRUE
    /\ callback = "none"
    /\ request = "none" /\ reply = "none"
    /\ jvm = "off" /\ service = "idle" /\ unanswered = FALSE /\ logServer = "none"
    /\ log = "no" /\ avail = 0 /\ signal = 0 /\ logs = 0 /\ slot = 0
    /\ given = <<>> /\ gaveUp = FALSE

-----------------------------------------------------------------------------
(* fmi2Instantiate                                                         *)

Initialize ==
    /\ engine = "new"
    /\ engine' = "created"
    /\ UNCHANGED <<loggingOn, logger, container, active, callback, commandVars, jvmVars, logVars>>

\* create() fails: NULL, and the container stays in g_clients.
InitializeFails ==
    /\ engine = "new"
    /\ engine' = "null"
    /\ UNCHANGED <<loggingOn, logger, container, active, callback, commandVars, jvmVars, logVars>>

\* The result of launch() is not looked at.
Launch ==
    /\ engine = "created"
    /\ engine' = "launched"
    /\ jvm' \in {"off", "starting"}
    /\ UNCHANGED <<loggingOn, logger, container, active, callback, commandVars,
                   service, unanswered, logServer, logVars>>

SendInstantiate ==
    /\ engine = "launched"
    /\ engine' = "instantiating" /\ request' = "instantiate"
    /\ UNCHANGED <<loggingOn, logger, container, active, callback, reply, jvmVars, logVars>>

\* The service has accepted the instance: now the callback thread is started.
Instantiated ==
    /\ engine = "instantiating" /\ reply = "ok"
    /\ engine' = "ready" /\ reply' = "none"
    /\ callback' = IF loggingOn /\ logger THEN "connecting" ELSE callback
    /\ UNCHANGED <<loggingOn, logger, container, active, request, jvmVars, logVars>>

\* The service has refused it: fmi2FreeInstance, and NULL.
Refused ==
    /\ engine = "instantiating" /\ reply = "refused"
    /\ engine' = "freeing" /\ reply' = "none" /\ request' = "free"
    /\ UNCHANGED <<loggingOn, logger, container, active, callback, jvmVars, logVars>>

-----------------------------------------------------------------------------
(* The other FMI functions, and fmi2FreeInstance                           *)

Call ==
    /\ engine = "ready"
    /\ engine' = "calling" /\ request' = "call"
    /\ UNCHANGED <<loggingOn, logger, container, active, callback, reply, jvmVars, logVars>>

Return ==
    /\ engine = "calling" /\ reply # "none"
    /\ engine' = "ready" /\ reply' = "none"
    /\ UNCHANGED <<loggingOn, logger, container, active, callback, request, jvmVars, logVars>>

\* FmuProxy::fmi2FreeInstance sends and waits 1 ms for an answer that is never
\* sent.
Free ==
    /\ engine = "ready"
    /\ engine' = "freeing" /\ request' = "free"
    /\ UNCHANGED <<loggingOn, logger, container, active, callback, reply, jvmVars, logVars>>

Deactivate ==
    /\ engine = "freeing"
    /\ engine' = "joining" /\ active' = FALSE
    /\ UNCHANGED <<loggingOn, logger, container, callback, commandVars, jvmVars, logVars>>

\* Fault: the callback thread is told to stop, but not waited for.
JoinCallbackSkipped ==
    /\ engine = "joining"
    /\ engine' = "deleting"
    /\ UNCHANGED <<loggingOn, logger, container, active, callback, commandVars, jvmVars, logVars>>

\* callbackThread->join(), if there is one.
JoinCallback ==
    /\ engine = "joining" /\ callback \in {"none", "ended"}
    /\ engine' = "deleting"
    /\ UNCHANGED <<loggingOn, logger, container, active, callback, commandVars, jvmVars, logVars>>

\* The container leaves g_clients and is deleted, with its proxy.
DeleteContainer ==
    /\ engine = "deleting"
    /\ engine' = "freed" /\ container' = "deleted"
    /\ UNCHANGED <<loggingOn, logger, active, callback, commandVars, jvmVars, logVars>>

-----------------------------------------------------------------------------
(* callbackThreadFunc                                                      *)

\* Fault: the thread tries to connect until it succeeds.
WhileNotConnectedForever ==
    /\ callback = "connecting"
    /\ callback' = "connect"
    /\ UNCHANGED <<engineVars, commandVars, jvmVars, logVars>>

\* while (container->active && !success)
WhileNotConnected ==
    /\ callback = "connecting"
    /\ callback' = IF active THEN "connect" ELSE "leaving"
    /\ UNCHANGED <<engineVars, commandVars, jvmVars, logVars>>

Connect ==
    /\ callback = "connect"
    /\ callback' = IF logServer = "up" THEN "serving" ELSE "retry"
    /\ UNCHANGED <<engineVars, commandVars, jvmVars, logVars>>

\* The second's sleep between two attempts.
RetryConnect ==
    /\ callback = "retry"
    /\ callback' = "connecting"
    /\ UNCHANGED <<engineVars, commandVars, jvmVars, logVars>>

\* while (container->active)
WhileActive ==
    /\ callback = "serving"
    /\ callback' = IF active THEN "get" ELSE "leaving"
    /\ UNCHANGED <<engineVars, commandVars, jvmVars, logVars>>

GetMessage ==
    /\ callback = "get"
    /\ \/ avail > 0 /\ avail' = avail - 1 /\ callback' = "logger"
       \/ avail = 0 /\ callback' = "serving" /\ UNCHANGED avail
    /\ UNCHANGED <<engineVars, commandVars, jvmVars, log, signal, logs, slot, given, gaveUp>>

\* The engine's logger is called with what the slot holds: a message, or the
\* empty reply to an earlier one, or a mixture of messages.
CallLogger ==
    /\ callback = "logger"
    /\ given' = Append(given, slot)
    /\ callback' = "reply"
    /\ UNCHANGED <<engineVars, commandVars, jvmVars, log, avail, signal, logs, slot, gaveUp>>

\* Fault: the empty reply leaves the message in the slot as it is.
SendReplyKeepsMessage ==
    /\ callback = "reply"
    /\ signal' = signal + 1
    /\ callback' = "serving"
    /\ UNCHANGED <<engineVars, commandVars, jvmVars, log, avail, logs, slot, given, gaveUp>>

\* The empty reply overwrites what the slot holds.
SendReply ==
    /\ callback = "reply"
    /\ slot' = 0 /\ signal' = signal + 1
    /\ callback' = "serving"
    /\ UNCHANGED <<engineVars, commandVars, jvmVars, log, avail, logs, given, gaveUp>>

DeleteClient ==
    /\ callback = "leaving"
    /\ callback' = "ended"
    /\ UNCHANGED <<engineVars, commandVars, jvmVars, logVars>>

-----------------------------------------------------------------------------
(* The JVM                                                                 *)

ComeUp ==
    /\ jvm = "starting"
    /\ jvm' = "up"
    /\ UNCHANGED <<engineVars, callback, commandVars, service, unanswered, logServer, logVars>>

JvmDies ==
    /\ JvmMayDie /\ jvm \in {"starting", "up"}
    /\ jvm' = "dead"
    /\ UNCHANGED <<engineVars, callback, commandVars, service, unanswered, logServer, logVars>>

TakeRequest ==
    /\ jvm = "up" /\ service = "idle" /\ request # "none"
    /\ service' = request /\ request' = "none"
    /\ UNCHANGED <<engineVars, callback, reply, jvm, unanswered, logServer, logVars>>

\* serverStart creates the server of the log channel, or fails to.
StartLogServer ==
    /\ jvm = "up" /\ service = "instantiate" /\ loggingOn /\ logServer = "none"
    /\ logServer' \in {"up", "failed"}
    /\ UNCHANGED <<engineVars, callback, commandVars, jvm, service, unanswered, logVars>>

\* serverStart deletes a server that could not be created: ~IpcServer joins
\* the thread that create() has not started, through a null pointer.
DeleteFailedServer ==
    /\ jvm = "up" /\ logServer = "failed"
    /\ jvm' = "dead"
    /\ UNCHANGED <<engineVars, callback, commandVars, service, unanswered, logServer, logVars>>

InService == jvm = "up" /\ service \in Calls /\ logServer # "failed" /\ log = "no"

\* The message is written into the slot.  The callback thread may be reading
\* the slot in the meantime, and is then left with a mixture.
Put(n) == slot' = n \/ (callback = "logger" /\ slot' = 0)

\* Fault: log sends its message and does not wait.
BeginLogDoesNotWait ==
    /\ InService /\ logServer = "up" /\ logs < MaxLogs
    /\ logs' = logs + 1 /\ Put(logs + 1) /\ avail' = avail + 1
    /\ UNCHANGED <<engineVars, callback, commandVars, jvmVars, log, signal, given, gaveUp>>

\* LogProtocolDriver.log, from within any call.
BeginLog ==
    /\ InService /\ logServer = "up" /\ logs < MaxLogs
    /\ log' = "wait"
    /\ logs' = logs + 1 /\ Put(logs + 1) /\ avail' = avail + 1
    /\ UNCHANGED <<engineVars, callback, commandVars, jvmVars, signal, given, gaveUp>>

LogAnswered ==
    /\ jvm = "up" /\ log = "wait" /\ signal > 0
    /\ log' = "no" /\ signal' = signal - 1
    /\ UNCHANGED <<engineVars, callback, commandVars, jvmVars, avail, logs, slot, given, gaveUp>>

\* Fault: log waits INFINITE, as the calls of FmuProxy do.
LogGivesUpNever ==
    /\ jvm = "up" /\ log = "wait"
    /\ UNCHANGED vars

\* After 20 ms, or at once when the deadline is not valid (TimedWait); the
\* permit may be there all the same.
LogGivesUp ==
    /\ jvm = "up" /\ log = "wait"
    /\ log' = "no" /\ gaveUp' = TRUE
    /\ UNCHANGED <<engineVars, callback, commandVars, jvmVars, avail, signal, logs, slot, given>>

\* LogProtocolDriver.close when the instance is freed.
CloseLog ==
    /\ InService /\ service = "free" /\ logServer = "up"
    /\ logServer' = "gone"
    /\ UNCHANGED <<engineVars, callback, commandVars, jvm, service, unanswered, logVars>>

\* close() leaves `connected` as it is: a later log uses g_server, now NULL.
LogAfterClose ==
    /\ InService /\ logServer = "gone"
    /\ jvm' = "dead"
    /\ UNCHANGED <<engineVars, callback, commandVars, service, unanswered, logServer, logVars>>

\* The service returns, or the request cannot be decoded, and the driver
\* replies; not to a free.
Respond ==
    /\ InService
    /\ service' = "idle"
    /\ IF service = "free" THEN UNCHANGED reply ELSE reply' \in {"ok", "refused"}
    /\ UNCHANGED <<engineVars, callback, request, jvm, unanswered, logServer, logVars>>

\* The service returns no reply: "deadlocking do not know how to answer".
LeaveUnanswered ==
    /\ InService /\ service # "free"
    /\ service' = "idle" /\ unanswered' = TRUE
    /\ UNCHANGED <<engineVars, callback, commandVars, jvm, logServer, logVars>>

\* The driver only catches what parseFrom throws: any other exception of the
\* service ends the driver's thread, and the JVM lives on.
ServiceThrows ==
    /\ InService
    /\ service' = "ended" /\ unanswered' = (service # "free")
    /\ UNCHANGED <<engineVars, callback, commandVars, jvm, logServer, logVars>>

-----------------------------------------------------------------------------
EngineSteps ==
    \/ Initialize \/ InitializeFails \/ Launch \/ SendInstantiate
    \/ Instantiated \/ Refused \/ Return
    \/ Deactivate \/ JoinCallback \/ DeleteContainer

EngineNext == EngineSteps \/ Call \/ Free

CallbackNext ==
    \/ WhileNotConnected \/ Connect \/ RetryConnect \/ WhileActive
    \/ GetMessage \/ CallLogger \/ SendReply \/ DeleteClient

LogEnds == LogAnswered \/ LogGivesUp

ServiceEnds ==
    \/ ComeUp \/ TakeRequest \/ DeleteFailedServer
    \/ Respond \/ LeaveUnanswered \/ ServiceThrows

JvmNext ==
    \/ ServiceEnds \/ LogEnds \/ JvmDies
    \/ StartLogServer \/ BeginLog \/ CloseLog \/ LogAfterClose

Next == EngineNext \/ CallbackNext \/ JvmNext

Spec == Init /\ [][Next]_vars

(***************************************************************************)
(* A function that has been called goes on, the callback thread runs (the  *)
(* logger returns), and so does the JVM (the service returns or throws).   *)
(* Nobody has to call, to log or to free.                                  *)
(***************************************************************************)
FairSpec ==
    /\ Spec
    /\ WF_vars(EngineSteps) /\ WF_vars(CallbackNext)
    /\ WF_vars(ServiceEnds) /\ WF_vars(LogEnds)

-----------------------------------------------------------------------------
(* Safety.                                                                 *)

\* The type invariant.
TypeOK ==
    /\ engine \in EngineStates /\ loggingOn \in BOOLEAN /\ logger \in BOOLEAN
    /\ container \in {"live", "deleted"} /\ active \in BOOLEAN
    /\ callback \in CallbackStates
    /\ request \in Calls \cup {"none"} /\ reply \in {"none", "ok", "refused"}
    /\ jvm \in {"off", "starting", "up", "dead"} /\ service \in Calls \cup {"idle", "ended"}
    /\ unanswered \in BOOLEAN
    /\ logServer \in {"none", "up", "failed", "gone"} /\ log \in {"no", "wait"}
    /\ avail \in Nat /\ signal \in Nat /\ logs \in Nat /\ slot \in Nat
    /\ given \in Seq(Nat) /\ gaveUp \in BOOLEAN

(***************************************************************************)
(* fmi2FreeInstance deletes the container only when the callback thread,   *)
(* whose loops and logger calls use it, has ended.                         *)
(***************************************************************************)
NoLogAfterFree == container = "deleted" => callback \in {"none", "ended"}

(***************************************************************************)
(* As long as no log has given up, all that the service has logged during  *)
(* a call is passed to the engine's logger, message by message, before the *)
(* call returns.                                                           *)
(***************************************************************************)
LogsBeforeReturn ==
    engine = "ready" /\ ~gaveUp =>
        Len(given) = logs /\ \A i \in DOMAIN given : given[i] = i

\* What is left here of the log channel, as the service sees it.
D == INSTANCE Delivery WITH sent <- logs, waiting <- log = "wait"

(***************************************************************************)
(* What is left of the log channel still promises what the whole channel   *)
(* does: the logger gets each message once and before the log returns,     *)
(* until one gives up; from then on each at most once and in order, with   *)
(* something that was never logged in the place of those that are lost.    *)
(***************************************************************************)
ImplementsDelivery == D!Safe

\* At most how many steps the callback thread still takes once it is to stop.
StepsLeft ==
    [none |-> 0, ended |-> 0, leaving |-> 1, connecting |-> 2, serving |-> 2,
     retry |-> 3, reply |-> 3, connect |-> 4, logger |-> 4, get |-> 5][callback]

(***************************************************************************)
(* Once fmi2FreeInstance has told it to stop, the callback thread is never *)
(* told otherwise and can only come closer to its end, by at most five     *)
(* steps and one more call of the logger, whatever the JVM does.           *)
(***************************************************************************)
CallbackWindsDown ==
    [][~active => ~active' /\ (callback' = callback \/ StepsLeft' < StepsLeft)]_vars

-----------------------------------------------------------------------------
(* The inductive invariant.                                                *)

\* How far the instance is, and what is there of it.
Stages ==
    /\ container = "deleted" => engine = "freed"
    /\ callback # "none" => engine \in {"ready", "calling", "freeing", "joining", "deleting", "freed"}
    /\ engine \in {"deleting", "freed"} => callback \in {"none", "ended"}
    /\ ~active => engine \in {"joining", "deleting", "freed"}

\* Call, service and reply take turns.
Turns ==
    /\ engine \notin {"instantiating", "calling"} =>
        /\ reply = "none" /\ request \in {"none", "free"}
        /\ service \in {"idle", "free", "ended"}
    /\ engine \in {"new", "created", "launched", "ready", "null"} =>
        request = "none" /\ service = "idle"
    /\ request # "none" => service = "idle" /\ reply = "none"
    /\ reply # "none" => service = "idle"
    /\ service \in {"idle", "ended"} => log = "no"

(***************************************************************************)
(* A call that waits for its reply is in the channel or with the service,  *)
(* or its reply is in the channel, unless the service has returned none or *)
(* thrown: then the call is nowhere, and the engine waits for ever.        *)
(***************************************************************************)
CallPlaces ==
    /\ engine \in {"instantiating", "calling"} =>
        /\ request # "none" \/ service \in Calls \/ reply # "none" \/ unanswered
        /\ request # "free" /\ service # "free"
    /\ unanswered =>
        /\ engine \in {"instantiating", "calling"}
        /\ request = "none" /\ service \in {"idle", "ended"} /\ reply = "none"

(***************************************************************************)
(* For each message of the log there is one call of the logger, made or    *)
(* still to be made.  What the slot holds is the latest message, which the *)
(* logger has not been given, or nothing, unless the reply to it is about  *)
(* to be written.                                                          *)
(***************************************************************************)
LogsCounted ==
    /\ Len(given) + avail + (IF callback = "logger" THEN 1 ELSE 0) = logs
    /\ slot \in {0, logs}
    /\ \A i \in DOMAIN given :
        given[i] <= logs /\ (slot # 0 /\ callback # "reply" => given[i] < slot)

\* As long as no log has given up, the message is at exactly one place.
LogPlaces ==
    /\ \A i \in DOMAIN given : given[i] = i
    /\ log = "no" => avail = 0 /\ signal = 0 /\ callback \notin {"logger", "reply"}
    /\ log = "wait" =>
        \/ avail = 1 /\ signal = 0 /\ callback \notin {"logger", "reply"} /\ slot = logs
        \/ avail = 0 /\ signal = 0 /\ callback = "logger" /\ slot = logs
        \/ avail = 0 /\ signal = 0 /\ callback = "reply"
        \/ avail = 0 /\ signal = 1 /\ callback \notin {"logger", "reply"}

IInv ==
    /\ TypeOK
    /\ Stages
    /\ Turns
    /\ CallPlaces
    /\ LogsCounted
    /\ ~gaveUp => LogPlaces

-----------------------------------------------------------------------------
(* Liveness.                                                               *)

(***************************************************************************)
(* fmi2FreeInstance returns, whatever the callback thread is doing:        *)
(* connected or still trying to, with the JVM alive or dead.               *)
(***************************************************************************)
FreeReturns == engine = "freeing" ~> engine = "freed"

(***************************************************************************)
(* fmi2Instantiate and the calls return while the JVM lives and the        *)
(* service answers them, although it may log where nobody listens: in      *)
(* Instantiate, to which the callback thread is only started after the     *)
(* reply.                                                                  *)
(***************************************************************************)
Calling == engine \in {"instantiating", "calling"}
CallsReturn ==
    Calling /\ jvm = "up" ~> ~Calling \/ jvm = "dead" \/ unanswered

-----------------------------------------------------------------------------
(***************************************************************************)
(* A log server that cannot be created is tried again and then given up    *)
(* with an exception ("Failed to connect, giving up, now"): the JVM, which *)
(* nothing else brings down here, is still there to do so.                 *)
(***************************************************************************)
LogServerGivesUp == logServer = "failed" /\ ~JvmMayDie => jvm = "up"
=============================================================================
