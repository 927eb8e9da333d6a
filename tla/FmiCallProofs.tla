--------------------------- MODULE FmiCallProofs ---------------------------
(***************************************************************************)
(* The safety properties of FmiCall, for any number of instances and of    *)
(* values, from its inductive invariant IInv.                              *)
(***************************************************************************)
EXTENDS FmiCall, WeakFairness, TLAPS

\* The commands are of three kinds, and an array asks for a count of values.
LEMMA CommandFacts ==
    /\ \A c \in StatusCommands : c \notin Getters \cup Queries /\ c # "Instantiate"
    /\ \A c \in Getters \cup Queries : c # "Instantiate" /\ c # "SetupExperiment"
    /\ \A c \in LongReplies : c \in Getters \cup Queries
    /\ \A c \in StringRequests : c \in StatusCommands \cup {"Instantiate"}
    /\ \A c \in Commands : Outputs(c) \subseteq Counts
BY BoundsAssumption DEF StatusCommands, Setters, Getters, Queries, LongReplies,
    StringRequests, Commands, Outputs, Counts

\* The records the actions build are records of the right kind.
LEMMA RecordFacts ==
    /\ NotRun \in Service /\ Defaults \in Reply /\ Refusal \in Reply
    /\ \A s \in Statuses : NoValues(s) \in Result
    /\ \A c \in Commands, r \in Reply : Parsed(c, r) \in Result
    /\ \A r \in Reply : GetStatus(r) = r.status /\ GetStatus(r) \in Statuses
BY BoundsAssumption DEF NotRun, Service, Defaults, Refusal, Reply, NoValues, Result, Parsed,
    GetStatus, Statuses, Counts

\* The initial state satisfies the invariant: nothing is known or running.
LEMMA InitIInv == Init => IInv
BY BoundsAssumption DEF Init, IInv, TypeOK, ReplyIsTheServices,
    StatusIsTheServices, OkMeansDelivered, OnlyLiveInstancesCalled, Answerable, Outputs,
    Call, Service, Reply, Result, NotRun, Defaults, NoValues, Statuses, Counts, Handles, Null,
    Commands, StatusCommands, Setters, Getters, Queries

USE DEF engineVars

\* Looking a component up and sending a request keeps the invariant.
LEMMA InvokeStep ==
    ASSUME IInv, NEW h \in Handles \cup {Null}, NEW cmd \in Commands,
           NEW n \in Outputs(cmd), NEW fits \in BOOLEAN, Invoke(h, cmd, n, fits)
    PROVE  IInv'
<1>1. call' = [cmd |-> cmd, on |-> h, n |-> n] /\ call' \in Call
  BY CommandFacts DEF Invoke, Call
<1>2. TypeOK'
  BY <1>1, RecordFacts DEF IInv, TypeOK, Invoke, Returns, Statuses
<1>3. StatusIsTheServices' /\ OkMeansDelivered'
  BY <1>1, CommandFacts
  DEF StatusIsTheServices, OkMeansDelivered, Invoke, Returns, NoValues, NotRun, Registered
<1>4. OnlyLiveInstancesCalled'
  BY <1>1 DEF IInv, OnlyLiveInstancesCalled, Invoke, Returns, Registered, TypeOK
<1>5. Answerable'
  BY <1>1 DEF IInv, Answerable, Invoke, Returns
<1> QED
  BY <1>2, <1>3, <1>4, <1>5
  DEF IInv, ReplyIsTheServices, Invoke, Returns, NotRun

\* So does fmi2Instantiate, which takes an address that no container has now.
LEMMA InstantiateStep ==
    ASSUME IInv, NEW h \in Handles \ clients,
           NEW created \in BOOLEAN, NEW launched \in BOOLEAN,
           Instantiate(h, created, launched) \/ InstantiateTooLong(h)
    PROVE  IInv'
<1>1. /\ currentId' \in 0..MaxInstances /\ h \in Handles /\ h # Null
      /\ call' = [cmd |-> "Instantiate", on |-> h, n |-> 0] /\ call' \in Call
      /\ service' = NotRun
  BY BoundsAssumption
  DEF IInv, TypeOK, Instantiate, InstantiateTooLong, Handles, Null, Call, Counts
<1>2. TypeOK'
  <2>1. driver' \in [Handles -> {"none", "running", "dead", "ended"}]
    BY <1>1 DEF IInv, TypeOK, Instantiate, InstantiateTooLong
  <2>2. currentId' \in 0..MaxInstances /\ clients' \subseteq Handles \cup {Null}
    BY <1>1, BoundsAssumption DEF IInv, TypeOK, Instantiate, InstantiateTooLong
  <2>3. pc' \in {"idle", "sent", "replied", "unanswered"} /\ result' \in Result
    BY RecordFacts DEF IInv, TypeOK, Instantiate, InstantiateTooLong, Returns, Statuses
  <2> QED
    BY <1>1, <2>1, <2>2, <2>3, RecordFacts
    DEF IInv, TypeOK, Instantiate, InstantiateTooLong
<1>3. StatusIsTheServices' /\ OkMeansDelivered'
  BY <1>1, CommandFacts DEF StatusIsTheServices, OkMeansDelivered
<1>4. OnlyLiveInstancesCalled'
  <2>1. \A k \in known : k # h => /\ driver'[k] = driver[k]
                                   /\ (k \in clients' <=> k \in clients)
    BY <1>1 DEF IInv, TypeOK, Instantiate, InstantiateTooLong
  <2>2. h \in clients' <=> driver'[h] # "ended"
    BY <1>1 DEF IInv, TypeOK, Instantiate, InstantiateTooLong
  <2>3. pc' # "idle" => h \in clients' /\ driver'[h] # "ended"
    BY <1>1 DEF IInv, TypeOK, Instantiate, InstantiateTooLong, Returns
  <2>4. known' = known
    BY DEF Instantiate, InstantiateTooLong
  <2>5. \A k \in known' : k \in clients' <=> driver'[k] # "ended"
    <3> SUFFICES ASSUME NEW k \in known PROVE k \in clients' <=> driver'[k] # "ended"
      BY <2>4
    <3>1. CASE k = h
      BY <2>2, <3>1
    <3>2. CASE k # h
      <4>1. driver'[k] = driver[k] /\ (k \in clients' <=> k \in clients)
        BY <2>1, <3>2
      <4> QED
        BY <4>1 DEF IInv, OnlyLiveInstancesCalled
    <3> QED
      BY <3>1, <3>2
  <2>6. pc' # "idle" => Registered(call.on)' /\ (driver[call.on] # "ended")'
    BY <1>1, <2>3 DEF Registered
  <2> QED
    BY <2>5, <2>6 DEF OnlyLiveInstancesCalled
<1>5. Answerable'
  BY <1>1
  DEF IInv, TypeOK, Answerable, Instantiate, InstantiateTooLong, Outputs, Getters, Queries
<1> QED
  BY <1>1, <1>2, <1>3, <1>4, <1>5
  DEF IInv, ReplyIsTheServices, Instantiate, InstantiateTooLong, Returns, NotRun

\* So does fmi2FreeInstance, which takes the component out of g_clients.
LEMMA FreeInstanceStep ==
    ASSUME IInv, NEW h \in Handles \cup {Null}, FreeInstance(h)
    PROVE  IInv'
<1>1. TypeOK'
  BY DEF IInv, TypeOK, FreeInstance
<1>2. StatusIsTheServices' /\ OkMeansDelivered'
  BY DEF IInv, StatusIsTheServices, OkMeansDelivered, Delivered, Registered, FreeInstance
<1>3. OnlyLiveInstancesCalled'
  BY DEF IInv, TypeOK, OnlyLiveInstancesCalled, FreeInstance, Handles, Null
<1>4. Answerable'
  BY DEF IInv, TypeOK, Answerable, FreeInstance
<1> QED BY <1>1, <1>2, <1>3, <1>4 DEF IInv, ReplyIsTheServices, FreeInstance

\* So does the FMU's side, whatever becomes of the request there.
LEMMA DriverStep ==
    ASSUME IInv, DriverServes \/ \E throws \in BOOLEAN : LeaveUnanswered(throws)
    PROVE  IInv'
<1>1. CASE DriverServes
  <2>1. /\ TypeOK' /\ ReplyIsTheServices'
    <3>1. CASE Reject
      BY <3>1, RecordFacts
      DEF IInv, TypeOK, ReplyIsTheServices, Reject, Serving, Refusal
    <3>2. ASSUME NEW status \in Statuses, NEW n \in Counts, NEW valid \in BOOLEAN,
                 NEW fits \in BOOLEAN, Serve(status, n, valid, fits)
          PROVE  TypeOK' /\ ReplyIsTheServices'
      BY <3>2, RecordFacts
      DEF IInv, TypeOK, ReplyIsTheServices, Serve, Serving, Service, Reply
    <3> QED BY <1>1, <3>1, <3>2 DEF DriverServes
  <2>2. pc' = "replied" /\ pc = "sent" /\ UNCHANGED <<engineVars, driver, call, result>>
    BY <1>1 DEF DriverServes, Serve, Reject, Serving
  <2> QED
    BY <2>1, <2>2
    DEF IInv, StatusIsTheServices, OkMeansDelivered,
        OnlyLiveInstancesCalled, Registered, Answerable
<1>2. ASSUME NEW throws \in BOOLEAN, LeaveUnanswered(throws) PROVE IInv'
  <2>1. pc = "sent" /\ call.on \in Handles /\ driver[call.on] # "ended"
    BY <1>2
    DEF IInv, TypeOK, LeaveUnanswered, Serving, OnlyLiveInstancesCalled, Registered
  <2>2. TypeOK' /\ OnlyLiveInstancesCalled'
    BY <1>2, <2>1
    DEF IInv, TypeOK, LeaveUnanswered, OnlyLiveInstancesCalled, Registered
  <2> QED
    BY <1>2, <2>2
    DEF IInv, ReplyIsTheServices, StatusIsTheServices, OkMeansDelivered,
        LeaveUnanswered, Answerable
<1> QED BY <1>1, <1>2

\* So does the engine's side when it has the reply.
LEMMA ReturnStep ==
    ASSUME IInv, Return \/ ReturnInstance
    PROVE  IInv'
<1>1. CASE Return
  <2>1. /\ pc = "replied" /\ pc' = "idle" /\ call.cmd \in Commands
        /\ result' = Parsed(call.cmd, reply) /\ UNCHANGED <<call, service, reply>>
    BY <1>1 DEF Return, IInv, TypeOK, Call
  <2>2. TypeOK'
    BY <1>1, <2>1, RecordFacts DEF IInv, TypeOK, Return
  <2>3. StatusIsTheServices'
    BY <2>1, CommandFacts
    DEF IInv, StatusIsTheServices, ReplyIsTheServices, Parsed, GetStatus, NoValues
  <2>4. OkMeansDelivered'
    BY <2>1, CommandFacts
    DEF IInv, OkMeansDelivered, ReplyIsTheServices, Delivered, Parsed, NoValues, Defaults
  <2> QED
    BY <1>1, <2>1, <2>2, <2>3, <2>4
    DEF IInv, ReplyIsTheServices, OnlyLiveInstancesCalled, Return, Answerable
<1>2. CASE ReturnInstance
  <2>1. /\ pc = "replied" /\ pc' = "idle" /\ call.cmd = "Instantiate"
        /\ call.on \in clients /\ call.on \in Handles /\ driver[call.on] # "ended"
        /\ UNCHANGED <<call, service, reply>>
    BY <1>2
    DEF IInv, TypeOK, ReturnInstance, OnlyLiveInstancesCalled, Registered, Call
  <2>2. TypeOK'
    BY <1>2, <2>1, RecordFacts DEF IInv, TypeOK, ReturnInstance, Statuses
  <2>3. OnlyLiveInstancesCalled'
    BY <1>2, <2>1 DEF IInv, TypeOK, OnlyLiveInstancesCalled, ReturnInstance
  <2>4. Answerable'
    BY <1>2, <2>1 DEF IInv, TypeOK, Answerable, ReturnInstance
  <2> QED
    BY <2>1, <2>2, <2>3, <2>4, CommandFacts
    DEF IInv, StatusIsTheServices, OkMeansDelivered, ReplyIsTheServices
<1> QED BY <1>1, <1>2

\* Every step preserves the inductive invariant.
LEMMA StepIInv == IInv /\ [Next]_vars => IInv'
<1> SUFFICES ASSUME IInv, [Next]_vars PROVE IInv' OBVIOUS
<1>1. CASE EngineCalls
  <2>1. ASSUME NEW h \in Handles \cup {Null}, NEW cmd \in Commands,
               NEW n \in Outputs(cmd), NEW fits \in {TRUE, cmd \notin LongRequests},
               Invoke(h, cmd, n, fits)
        PROVE  IInv'
    BY <2>1, InvokeStep
  <2>2. ASSUME NEW h \in Handles \ clients,
               \/ \E created, launched \in BOOLEAN : Instantiate(h, created, launched)
               \/ InstantiateTooLong(h)
        PROVE  IInv'
    BY <2>2, InstantiateStep
  <2> QED BY <1>1, <2>1, <2>2, FreeInstanceStep DEF EngineCalls
<1>2. CASE DriverServes \/ \E throws \in BOOLEAN : LeaveUnanswered(throws)
  BY <1>2, DriverStep
<1>3. CASE Return \/ ReturnInstance
  BY <1>3, ReturnStep
<1>4. CASE UNCHANGED vars
  BY <1>4
  DEF vars, IInv, TypeOK, ReplyIsTheServices, StatusIsTheServices,
      OkMeansDelivered, Delivered, OnlyLiveInstancesCalled, Registered, Answerable
<1> QED BY <1>1, <1>2, <1>3, <1>4 DEF Next

\* IInv, and with it the type invariant, holds in every reachable state.
THEOREM InvariantCorrect == Spec => []IInv
BY InitIInv, StepIInv, PTL DEF Spec

\* StatusIsTheServices: FmuProxy::sendRetStatus and fmu.cpp give the engine
\* the status that the service returned for this very call.
THEOREM StatusCorrect == Spec => []StatusIsTheServices
<1>1. IInv => StatusIsTheServices BY DEF IInv
<1> QED BY <1>1, InvariantCorrect, PTL

\* OkMeansDelivered: the getters of FmuProxy that return fmi2OK have delivered
\* what the service returned, except when its reply was too long.
THEOREM DeliveryCorrect == Spec => []OkMeansDelivered
<1>1. IInv => OkMeansDelivered BY DEF IInv
<1> QED BY <1>1, InvariantCorrect, PTL

\* OnlyLiveInstancesCalled: g_clients keeps calls from instances that have
\* been freed, and has every instance that the engine may still call.
THEOREM LiveInstances == Spec => []OnlyLiveInstancesCalled
<1>1. IInv => OnlyLiveInstancesCalled BY DEF IInv
<1> QED BY <1>1, InvariantCorrect, PTL

-----------------------------------------------------------------------------
(* The calls return.                                                       *)

\* The fairness of FairSpec, with the guards written out.
DriverRuns ==
    WeaklyFair(Serving /\ call.n \in Outputs(call.cmd), DriverServes, vars)
EngineRuns ==
    /\ WeaklyFair(pc = "replied" /\ call.cmd # "Instantiate", Return, vars)
    /\ WeaklyFair(pc = "replied" /\ call.cmd = "Instantiate", ReturnInstance, vars)

\* A request that a driver has, a reply to a function, and one to an instance.
Sent == pc = "sent" /\ driver[call.on] = "running"
Replied == pc = "replied" /\ call.cmd # "Instantiate"
Accepted == pc = "replied" /\ call.cmd = "Instantiate"
Over == pc = "idle" \/ pc = "unanswered"

\* A call in progress stays the engine's only one and can only go on.
LEMMA CallStep ==
    IInv /\ [Next]_vars =>
        /\ Sent => Sent' \/ Replied' \/ Accepted' \/ Over'
        /\ Replied => Replied' \/ Over'
        /\ Accepted => Accepted' \/ Over'
<1> SUFFICES ASSUME IInv, [Next]_vars
    PROVE  /\ Sent => Sent' \/ Replied' \/ Accepted' \/ Over'
           /\ Replied => Replied' \/ Over'
           /\ Accepted => Accepted' \/ Over'
  OBVIOUS
<1>1. CASE EngineCalls
  BY <1>1
  DEF EngineCalls, Invoke, Instantiate, InstantiateTooLong, FreeInstance, Sent, Replied, Accepted
<1>2. CASE DriverServes
  BY <1>2 DEF DriverServes, Serve, Reject, Serving, Sent, Replied, Accepted
<1>3. CASE \E throws \in BOOLEAN : LeaveUnanswered(throws)
  BY <1>3 DEF LeaveUnanswered, Serving, Replied, Accepted, Over
<1>4. CASE Return \/ ReturnInstance
  BY <1>4 DEF Return, ReturnInstance, Sent, Over
<1>5. CASE UNCHANGED vars
  BY <1>5 DEF vars, Sent, Replied, Accepted, Over
<1> QED
  BY <1>1, <1>2, <1>3, <1>4, <1>5 DEF Next

\* CallReturns: FmuProxy::send gets its reply, and the FMI function returns,
\* when there is a JVM and the service does not leave the call unanswered.
THEOREM CallEnds == Spec /\ DriverRuns /\ EngineRuns => CallReturns
<1>1. IInv /\ [Next]_vars =>
        /\ Sent => Sent' \/ Replied' \/ Accepted' \/ Over'
        /\ Replied => Replied' \/ Over'
        /\ Accepted => Accepted' \/ Over'
  BY CallStep
<1>2. /\ Sent /\ DriverServes => Replied' \/ Accepted'
      /\ Replied /\ Return => Over'
      /\ Accepted /\ ReturnInstance => Over'
  BY DEF DriverServes, Serve, Reject, Return, ReturnInstance, Replied, Accepted, Over
<1>3. IInv => /\ pc # "idle" => \/ Sent \/ Replied \/ Accepted \/ Over
                                \/ driver[call.on] = "none"
              /\ Sent => Serving /\ call.n \in Outputs(call.cmd)
  <2>1. ASSUME IInv, pc = "sent" PROVE driver[call.on] \in {"none", "running"}
    BY <2>1 DEF IInv, TypeOK, OnlyLiveInstancesCalled, Answerable, Registered
  <2> QED
    BY <2>1 DEF IInv, TypeOK, Answerable, Serving, Sent, Replied, Accepted, Over
<1>4. /\ Replied => pc = "replied" /\ call.cmd # "Instantiate"
      /\ Accepted => pc = "replied" /\ call.cmd = "Instantiate"
      /\ Over <=> pc = "idle" \/ pc = "unanswered"
  BY DEF Replied, Accepted, Over
<1> QED
  BY <1>1, <1>2, <1>3, <1>4, InvariantCorrect, PTL
     DEF Spec, DriverRuns, EngineRuns, WeaklyFair, CallReturns
=============================================================================
