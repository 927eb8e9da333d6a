-------------------------- MODULE FmuSessionProofs --------------------------
(***************************************************************************)
(* Proofs about FmuSession, for any number of log messages.  One lemma per *)
(* part of the inductive invariant; the actions are taken actor by actor.  *)
(***************************************************************************)
EXTENDS FmuSession, WeakFairness, SequenceTheorems, TLAPS

\* What a call of the logger adds to the history of calls.
LEMMA GivenOneMore ==
    ASSUME TypeOK, CallLogger
    PROVE  /\ given' \in Seq(Nat) /\ Len(given) \in Nat
           /\ Len(given') = Len(given) + 1
           /\ DOMAIN given = 1..Len(given) /\ DOMAIN given' = 1..(Len(given) + 1)
           /\ \A i \in 1..Len(given) : given'[i] = given[i]
           /\ given'[Len(given) + 1] = slot
<1>1. given \in Seq(Nat) /\ slot \in Nat /\ given' = Append(given, slot)
  BY DEF TypeOK, CallLogger
<1> QED
  BY <1>1

\* Every step keeps the values of the state of the right kind.
LEMMA TypeStep == ASSUME TypeOK, Next PROVE TypeOK'
<1> USE DEF TypeOK, EngineStates, CallbackStates, Calls,
        engineVars, commandVars, jvmVars, logVars
<1>1. CASE EngineNext
  <2>1. CASE Initialize
    BY <2>1 DEF Initialize
  <2>2. CASE InitializeFails
    BY <2>2 DEF InitializeFails
  <2>3. CASE Launch
    BY <2>3 DEF Launch
  <2>4. CASE SendInstantiate
    BY <2>4 DEF SendInstantiate
  <2>5. CASE Instantiated
    BY <2>5 DEF Instantiated
  <2>6. CASE Refused
    BY <2>6 DEF Refused
  <2>7. CASE Return
    BY <2>7 DEF Return
  <2>8. CASE Deactivate
    <3>1. active' \in BOOLEAN
      BY <2>8, Zenon DEF Deactivate
    <3> QED
      BY <2>8, <3>1 DEF Deactivate
  <2>9. CASE JoinCallback
    BY <2>9 DEF JoinCallback
  <2>10. CASE DeleteContainer
    BY <2>10 DEF DeleteContainer
  <2>11. CASE Call
    BY <2>11 DEF Call
  <2>12. CASE Free
    BY <2>12 DEF Free
  <2> QED
    BY <1>1, <2>1, <2>2, <2>3, <2>4, <2>5, <2>6, <2>7, <2>8, <2>9, <2>10,
       <2>11, <2>12
       DEF EngineNext, EngineSteps
<1>2. CASE CallbackNext
  <2>1. CASE WhileNotConnected
    BY <2>1 DEF WhileNotConnected
  <2>2. CASE Connect
    BY <2>2 DEF Connect
  <2>3. CASE RetryConnect
    BY <2>3 DEF RetryConnect
  <2>4. CASE WhileActive
    BY <2>4 DEF WhileActive
  <2>5. CASE GetMessage
    BY <2>5 DEF GetMessage
  <2>6. CASE CallLogger
    BY <2>6, GivenOneMore DEF CallLogger
  <2>7. CASE SendReply
    BY <2>7 DEF SendReply
  <2>8. CASE DeleteClient
    BY <2>8 DEF DeleteClient
  <2> QED
    BY <1>2, <2>1, <2>2, <2>3, <2>4, <2>5, <2>6, <2>7, <2>8
       DEF CallbackNext
<1>3. CASE JvmNext
  <2>1. CASE ComeUp
    BY <2>1 DEF ComeUp
  <2>2. CASE JvmDies
    BY <2>2 DEF JvmDies
  <2>3. CASE TakeRequest
    BY <2>3 DEF TakeRequest
  <2>4. CASE StartLogServer
    BY <2>4 DEF StartLogServer
  <2>5. CASE DeleteFailedServer
    BY <2>5 DEF DeleteFailedServer
  <2>6. CASE BeginLog
    BY <2>6 DEF BeginLog, Put, InService
  <2>7. CASE LogAnswered
    BY <2>7 DEF LogAnswered
  <2>8. CASE LogGivesUp
    BY <2>8 DEF LogGivesUp
  <2>9. CASE CloseLog
    BY <2>9 DEF CloseLog, InService
  <2>10. CASE LogAfterClose
    BY <2>10 DEF LogAfterClose, InService
  <2>11. CASE Respond
    BY <2>11 DEF Respond, InService
  <2>12. CASE LeaveUnanswered
    <3>1. unanswered' \in BOOLEAN
      BY <2>12, Zenon DEF LeaveUnanswered
    <3> QED
      BY <2>12, <3>1 DEF LeaveUnanswered
  <2>13. CASE ServiceThrows
    <3>1. unanswered' \in BOOLEAN
      BY <2>13, Zenon DEF ServiceThrows
    <3> QED
      BY <2>13, <3>1 DEF ServiceThrows
  <2> QED
    BY <1>3, <2>1, <2>2, <2>3, <2>4, <2>5, <2>6, <2>7, <2>8, <2>9, <2>10,
       <2>11, <2>12, <2>13
       DEF JvmNext, ServiceEnds, LogEnds
<1> QED
  BY <1>1, <1>2, <1>3 DEF Next

\* Every step leaves the container to the callback thread while that runs: it
\* starts once, when Instantiate is answered, and is joined before the end.
LEMMA StagesStep == ASSUME TypeOK, Stages, Next PROVE Stages'
<1> USE DEF Stages, engineVars, commandVars, jvmVars, logVars
<1>1. CASE EngineNext
  <2>1. CASE Initialize
    BY <2>1 DEF Initialize
  <2>2. CASE InitializeFails
    BY <2>2 DEF InitializeFails
  <2>3. CASE Launch
    BY <2>3 DEF Launch
  <2>4. CASE SendInstantiate
    BY <2>4 DEF SendInstantiate
  <2>5. CASE Instantiated
    BY <2>5 DEF Instantiated
  <2>6. CASE Refused
    BY <2>6 DEF Refused
  <2>7. CASE Return
    BY <2>7 DEF Return
  <2>8. CASE Deactivate
    BY <2>8 DEF Deactivate
  <2>9. CASE JoinCallback
    BY <2>9 DEF JoinCallback
  <2>10. CASE DeleteContainer
    BY <2>10 DEF DeleteContainer
  <2>11. CASE Call
    BY <2>11 DEF Call
  <2>12. CASE Free
    BY <2>12 DEF Free
  <2> QED
    BY <1>1, <2>1, <2>2, <2>3, <2>4, <2>5, <2>6, <2>7, <2>8, <2>9, <2>10,
       <2>11, <2>12
       DEF EngineNext, EngineSteps
<1>2. CASE CallbackNext
  <2>1. CASE WhileNotConnected
    BY <2>1 DEF WhileNotConnected
  <2>2. CASE Connect
    BY <2>2 DEF Connect
  <2>3. CASE RetryConnect
    BY <2>3 DEF RetryConnect
  <2>4. CASE WhileActive
    BY <2>4 DEF WhileActive
  <2>5. CASE GetMessage
    BY <2>5 DEF GetMessage
  <2>6. CASE CallLogger
    BY <2>6 DEF CallLogger
  <2>7. CASE SendReply
    BY <2>7 DEF SendReply
  <2>8. CASE DeleteClient
    BY <2>8 DEF DeleteClient
  <2> QED
    BY <1>2, <2>1, <2>2, <2>3, <2>4, <2>5, <2>6, <2>7, <2>8
       DEF CallbackNext
<1>3. CASE JvmNext
  BY <1>3 DEF JvmNext, ServiceEnds, LogEnds, ComeUp, JvmDies, TakeRequest,
         StartLogServer, DeleteFailedServer, BeginLog, LogAnswered,
         LogGivesUp, CloseLog, LogAfterClose, Respond, LeaveUnanswered, ServiceThrows, InService
<1> QED
  BY <1>1, <1>2, <1>3 DEF Next

\* Every step hands the turn on: one call, its service and its reply.
LEMMA TurnsStep == ASSUME TypeOK, Turns, Next PROVE Turns'
<1> USE DEF TypeOK, Turns, Calls, engineVars, commandVars, jvmVars, logVars
<1>1. CASE EngineNext
  <2>1. CASE Initialize
    BY <2>1 DEF Initialize
  <2>2. CASE InitializeFails
    BY <2>2 DEF InitializeFails
  <2>3. CASE Launch
    BY <2>3 DEF Launch
  <2>4. CASE SendInstantiate
    BY <2>4 DEF SendInstantiate
  <2>5. CASE Instantiated
    BY <2>5 DEF Instantiated
  <2>6. CASE Refused
    BY <2>6 DEF Refused
  <2>7. CASE Return
    BY <2>7 DEF Return
  <2>8. CASE Deactivate
    BY <2>8 DEF Deactivate
  <2>9. CASE JoinCallback
    BY <2>9 DEF JoinCallback
  <2>10. CASE DeleteContainer
    BY <2>10 DEF DeleteContainer
  <2>11. CASE Call
    BY <2>11 DEF Call
  <2>12. CASE Free
    BY <2>12 DEF Free
  <2> QED
    BY <1>1, <2>1, <2>2, <2>3, <2>4, <2>5, <2>6, <2>7, <2>8, <2>9, <2>10,
       <2>11, <2>12
       DEF EngineNext, EngineSteps
<1>2. CASE CallbackNext
  BY <1>2 DEF CallbackNext, WhileNotConnected, Connect, RetryConnect,
         WhileActive, GetMessage, CallLogger, SendReply, DeleteClient
<1>3. CASE JvmNext
  <2>1. CASE ComeUp
    BY <2>1 DEF ComeUp
  <2>2. CASE JvmDies
    BY <2>2 DEF JvmDies
  <2>3. CASE TakeRequest
    BY <2>3 DEF TakeRequest
  <2>4. CASE StartLogServer
    BY <2>4 DEF StartLogServer
  <2>5. CASE DeleteFailedServer
    BY <2>5 DEF DeleteFailedServer
  <2>6. CASE BeginLog
    BY <2>6 DEF BeginLog, InService
  <2>7. CASE LogAnswered
    BY <2>7 DEF LogAnswered
  <2>8. CASE LogGivesUp
    BY <2>8 DEF LogGivesUp
  <2>9. CASE CloseLog
    BY <2>9 DEF CloseLog, InService
  <2>10. CASE LogAfterClose
    BY <2>10 DEF LogAfterClose, InService
  <2>11. CASE Respond
    BY <2>11 DEF Respond, InService
  <2>12. CASE LeaveUnanswered
    BY <2>12 DEF LeaveUnanswered, InService
  <2>13. CASE ServiceThrows
    BY <2>13 DEF ServiceThrows, InService
  <2> QED
    BY <1>3, <2>1, <2>2, <2>3, <2>4, <2>5, <2>6, <2>7, <2>8, <2>9, <2>10,
       <2>11, <2>12, <2>13
       DEF JvmNext, ServiceEnds, LogEnds
<1> QED
  BY <1>1, <1>2, <1>3 DEF Next

\* A call is handed from the one place to the next.
LEMMA CallPlacesStep == ASSUME TypeOK, Turns, CallPlaces, Next PROVE CallPlaces'
<1> USE DEF TypeOK, Turns, CallPlaces, engineVars, commandVars, jvmVars, logVars
<1>1. CASE EngineNext
  <2>1. CASE Initialize
    BY <2>1 DEF Initialize
  <2>2. CASE InitializeFails
    BY <2>2 DEF InitializeFails
  <2>3. CASE Launch
    BY <2>3 DEF Launch
  <2>4. CASE SendInstantiate
    BY <2>4 DEF SendInstantiate
  <2>5. CASE Instantiated
    BY <2>5 DEF Instantiated
  <2>6. CASE Refused
    BY <2>6 DEF Refused
  <2>7. CASE Return
    BY <2>7 DEF Return
  <2>8. CASE Deactivate
    BY <2>8 DEF Deactivate
  <2>9. CASE JoinCallback
    BY <2>9 DEF JoinCallback
  <2>10. CASE DeleteContainer
    BY <2>10 DEF DeleteContainer
  <2>11. CASE Call
    BY <2>11 DEF Call
  <2>12. CASE Free
    BY <2>12 DEF Free
  <2> QED
    BY <1>1, <2>1, <2>2, <2>3, <2>4, <2>5, <2>6, <2>7, <2>8, <2>9, <2>10,
       <2>11, <2>12
       DEF EngineNext, EngineSteps
<1>2. CASE CallbackNext
  BY <1>2 DEF CallbackNext, WhileNotConnected, Connect, RetryConnect,
         WhileActive, GetMessage, CallLogger, SendReply, DeleteClient
<1>3. CASE JvmNext
  <2>1. CASE ComeUp
    BY <2>1 DEF ComeUp
  <2>2. CASE JvmDies
    BY <2>2 DEF JvmDies
  <2>3. CASE TakeRequest
    BY <2>3 DEF TakeRequest, Calls
  <2>4. CASE StartLogServer
    BY <2>4 DEF StartLogServer
  <2>5. CASE DeleteFailedServer
    BY <2>5 DEF DeleteFailedServer
  <2>6. CASE BeginLog
    BY <2>6 DEF BeginLog, InService
  <2>7. CASE LogAnswered
    BY <2>7 DEF LogAnswered
  <2>8. CASE LogGivesUp
    BY <2>8 DEF LogGivesUp
  <2>9. CASE CloseLog
    BY <2>9 DEF CloseLog, InService
  <2>10. CASE LogAfterClose
    BY <2>10 DEF LogAfterClose, InService
  <2>11. CASE Respond
    <3>1. ~unanswered
      BY <2>11, Zenon DEF Respond, InService, Calls
    <3> QED
      BY <2>11, <3>1 DEF Respond, InService, Calls
  <2>12. CASE LeaveUnanswered
    <3>1. unanswered' /\ service # "free" /\ service \in Calls
      BY <2>12, Zenon DEF LeaveUnanswered, InService
    <3> QED
      BY <2>12, <3>1 DEF LeaveUnanswered, Calls
  <2>13. CASE ServiceThrows
    <3>1. unanswered' <=> service # "free"
      BY <2>13, Zenon DEF ServiceThrows
    <3> QED
      BY <2>13, <3>1 DEF ServiceThrows, InService, Calls
  <2> QED
    BY <1>3, <2>1, <2>2, <2>3, <2>4, <2>5, <2>6, <2>7, <2>8, <2>9, <2>10,
       <2>11, <2>12, <2>13
       DEF JvmNext, ServiceEnds, LogEnds
<1> QED
  BY <1>1, <1>2, <1>3 DEF Next

\* Every step that has to do with the log keeps count of its messages.
LEMMA LogsCountedStep ==
    ASSUME TypeOK, Stages, LogsCounted, Next PROVE LogsCounted'
<1>1. /\ Len(given) \in Nat /\ DOMAIN given = 1..Len(given)
      /\ \A i \in DOMAIN given : given[i] \in Nat
      /\ avail \in Nat /\ logs \in Nat /\ slot \in Nat
  BY DEF TypeOK
<1>2. ASSUME UNCHANGED <<avail, logs, slot, given>>,
             callback = callback' \/ {callback, callback'} \cap {"logger", "reply"} = {}
      PROVE  LogsCounted'
  BY <1>2 DEF LogsCounted
<1>3. CASE EngineNext
  <2>1. callback' = callback \/ (engine = "instantiating" /\ callback' = "connecting")
    BY <1>3 DEF EngineNext, EngineSteps, Initialize, InitializeFails, Launch,
       SendInstantiate, Instantiated, Refused, Return, Deactivate, JoinCallback,
       DeleteContainer, Call, Free
  <2>2. engine = "instantiating" => callback = "none"
    BY DEF Stages
  <2>3. UNCHANGED logVars
    BY <1>3 DEF EngineNext, EngineSteps, Initialize, InitializeFails, Launch,
       SendInstantiate, Instantiated, Refused, Return, Deactivate, JoinCallback,
       DeleteContainer, Call, Free
  <2> QED
    BY <1>2, <2>1, <2>2, <2>3 DEF logVars
<1>4. CASE WhileNotConnected \/ Connect \/ RetryConnect \/ WhileActive \/ DeleteClient
  BY <1>2, <1>4 DEF WhileNotConnected, Connect, RetryConnect, WhileActive,
     DeleteClient, logVars
<1>5. CASE GetMessage
  BY <1>1, <1>5 DEF GetMessage, LogsCounted
<1>6. CASE CallLogger
  <2>1. /\ Len(given') = Len(given) + 1 /\ DOMAIN given' = 1..(Len(given) + 1)
        /\ \A i \in 1..Len(given) : given'[i] = given[i]
        /\ given'[Len(given) + 1] = slot
    BY <1>6, GivenOneMore
  <2>2. \A i \in DOMAIN given' : given'[i] <= logs
    BY <1>1, <2>1 DEF LogsCounted
  <2> QED
    BY <1>1, <1>6, <2>1, <2>2 DEF CallLogger, LogsCounted
<1>7. CASE SendReply
  BY <1>1, <1>7 DEF SendReply, LogsCounted
<1>8. CASE BeginLog
  <2>1. /\ logs' = logs + 1 /\ avail' = avail + 1 /\ UNCHANGED <<callback, given>>
        /\ slot' = logs + 1 \/ slot' = 0
    BY <1>8 DEF BeginLog, Put
  <2> QED
    BY <1>1, <2>1 DEF LogsCounted
<1>9. ASSUME JvmNext, ~BeginLog PROVE UNCHANGED <<callback, avail, logs, slot, given>>
  BY <1>9 DEF JvmNext, ServiceEnds, LogEnds, ComeUp, JvmDies, TakeRequest,
     StartLogServer, DeleteFailedServer, LogAnswered, LogGivesUp, CloseLog,
     LogAfterClose, Respond, LeaveUnanswered, ServiceThrows, logVars
<1> QED
  BY <1>2, <1>3, <1>4, <1>5, <1>6, <1>7, <1>8, <1>9 DEF Next, CallbackNext

\* Every step moves a log message at most one place on, until one gives up.
LEMMA LogPlacesStep ==
    ASSUME TypeOK, Stages, Turns, LogsCounted, ~gaveUp => LogPlaces, Next
    PROVE  (~gaveUp => LogPlaces)'
<1> /\ Len(given) + avail + (IF callback = "logger" THEN 1 ELSE 0) = logs
    /\ Len(given) \in Nat
  BY DEF TypeOK, LogsCounted
<1> USE DEF TypeOK, Stages, Turns, LogPlaces, engineVars, commandVars, jvmVars, logVars
<1>1. CASE EngineNext
  <2>1. CASE Initialize
    BY <2>1 DEF Initialize
  <2>2. CASE InitializeFails
    BY <2>2 DEF InitializeFails
  <2>3. CASE Launch
    BY <2>3 DEF Launch
  <2>4. CASE SendInstantiate
    BY <2>4 DEF SendInstantiate
  <2>5. CASE Instantiated
    BY <2>5 DEF Instantiated
  <2>6. CASE Refused
    BY <2>6 DEF Refused
  <2>7. CASE Return
    BY <2>7 DEF Return
  <2>8. CASE Deactivate
    BY <2>8 DEF Deactivate
  <2>9. CASE JoinCallback
    BY <2>9 DEF JoinCallback
  <2>10. CASE DeleteContainer
    BY <2>10 DEF DeleteContainer
  <2>11. CASE Call
    BY <2>11 DEF Call
  <2>12. CASE Free
    BY <2>12 DEF Free
  <2> QED
    BY <1>1, <2>1, <2>2, <2>3, <2>4, <2>5, <2>6, <2>7, <2>8, <2>9, <2>10,
       <2>11, <2>12
       DEF EngineNext, EngineSteps
<1>2. CASE CallbackNext
  <2>1. CASE WhileNotConnected
    BY <2>1 DEF WhileNotConnected
  <2>2. CASE Connect
    BY <2>2 DEF Connect
  <2>3. CASE RetryConnect
    BY <2>3 DEF RetryConnect
  <2>4. CASE WhileActive
    BY <2>4 DEF WhileActive
  <2>5. CASE GetMessage
    BY <2>5 DEF GetMessage
  <2>6. CASE CallLogger
    <3>1. /\ DOMAIN given' = 1..(Len(given) + 1) /\ DOMAIN given = 1..Len(given)
          /\ \A i \in 1..Len(given) : given'[i] = given[i]
          /\ given'[Len(given) + 1] = slot
      BY <2>6, GivenOneMore
    <3>2. ~gaveUp => slot = Len(given) + 1
      BY <2>6 DEF CallLogger
    <3>3. ~gaveUp => \A i \in DOMAIN given' : given'[i] = i
      BY <3>1, <3>2
    <3> QED
      BY <2>6, <3>3 DEF CallLogger
  <2>7. CASE SendReply
    BY <2>7 DEF SendReply
  <2>8. CASE DeleteClient
    BY <2>8 DEF DeleteClient
  <2> QED
    BY <1>2, <2>1, <2>2, <2>3, <2>4, <2>5, <2>6, <2>7, <2>8
       DEF CallbackNext
<1>3. CASE JvmNext
  <2>1. CASE ComeUp
    BY <2>1 DEF ComeUp
  <2>2. CASE JvmDies
    BY <2>2 DEF JvmDies
  <2>3. CASE TakeRequest
    BY <2>3 DEF TakeRequest
  <2>4. CASE StartLogServer
    BY <2>4 DEF StartLogServer
  <2>5. CASE DeleteFailedServer
    BY <2>5 DEF DeleteFailedServer
  <2>6. CASE BeginLog
    BY <2>6 DEF BeginLog, Put, InService
  <2>7. CASE LogAnswered
    BY <2>7 DEF LogAnswered
  <2>8. CASE LogGivesUp
    BY <2>8 DEF LogGivesUp
  <2>9. CASE CloseLog
    BY <2>9 DEF CloseLog, InService
  <2>10. CASE LogAfterClose
    BY <2>10 DEF LogAfterClose, InService
  <2>11. CASE Respond
    BY <2>11 DEF Respond, InService
  <2>12. CASE LeaveUnanswered
    BY <2>12 DEF LeaveUnanswered, InService
  <2>13. CASE ServiceThrows
    BY <2>13 DEF ServiceThrows, InService
  <2> QED
    BY <1>3, <2>1, <2>2, <2>3, <2>4, <2>5, <2>6, <2>7, <2>8, <2>9, <2>10,
       <2>11, <2>12, <2>13
       DEF JvmNext, ServiceEnds, LogEnds
<1> QED
  BY <1>1, <1>2, <1>3 DEF Next

\* In the beginning nobody has done anything.
LEMMA InitIInv == Init => IInv
<1>1. Init => active \in BOOLEAN /\ gaveUp \in BOOLEAN /\ unanswered \in BOOLEAN
  BY Zenon DEF Init
<1>2. Init => TypeOK
  BY <1>1 DEF Init, TypeOK, EngineStates, CallbackStates, Calls
<1>3. Init => Stages /\ Turns /\ CallPlaces
  <2>1. Init => active /\ ~unanswered
    BY Zenon DEF Init
  <2> QED
    BY <2>1 DEF Init, Stages, Turns, CallPlaces
<1>4. Init => LogsCounted /\ LogPlaces
  BY DEF Init, LogsCounted, LogPlaces
<1> QED
  BY <1>2, <1>3, <1>4 DEF IInv

\* Every step preserves the inductive invariant.
LEMMA StepIInv == IInv /\ [Next]_vars => IInv'
<1> SUFFICES ASSUME IInv, [Next]_vars PROVE IInv'
  OBVIOUS
<1>1. CASE Next
  BY <1>1, TypeStep, StagesStep, TurnsStep, CallPlacesStep, LogsCountedStep,
     LogPlacesStep DEF IInv
<1>2. CASE UNCHANGED vars
  BY <1>2 DEF vars, engineVars, commandVars, jvmVars, logVars,
     IInv, TypeOK, Stages, Turns, CallPlaces, LogsCounted, LogPlaces
<1> QED
  BY <1>1, <1>2

\* The inductive invariant holds in every reachable state.
THEOREM InvariantCorrect == Spec => []IInv
BY InitIInv, StepIInv, PTL DEF Spec

\* NoLogAfterFree: fmi2FreeInstance never deletes a container that the
\* callback thread still uses.
THEOREM ContainerOutlivesCallback == Spec => []NoLogAfterFree
<1>1. IInv => NoLogAfterFree
  BY DEF IInv, Stages, NoLogAfterFree
<1> QED
  BY <1>1, InvariantCorrect, PTL

\* LogsBeforeReturn: what the service logs in a call has reached the logger
\* when the call returns, as long as no log has given up.
THEOREM LogsInTime == Spec => []LogsBeforeReturn
<1>1. IInv => LogsBeforeReturn
  BY DEF IInv, TypeOK, Turns, LogsCounted, LogPlaces, LogsBeforeReturn
<1> QED
  BY <1>1, InvariantCorrect, PTL

\* A step of the session is a step of the delivery of its log messages, or
\* has nothing to do with them.
LEMMA DeliveryStep ==
    ASSUME IInv, [Next]_vars PROVE [D!Next]_D!deliveryVars
<1> USE DEF D!deliveryVars, engineVars, commandVars, jvmVars, logVars
<1>1. /\ ~gaveUp => LogPlaces
      /\ LogsCounted
      /\ logs \in Nat /\ Len(given) \in Nat /\ slot \in Nat
      /\ avail \in Nat /\ signal \in Nat
      /\ log \in {"no", "wait"}
  BY DEF IInv, TypeOK
<1>2. CASE CallLogger
  <2>1. Len(given) < logs /\ UNCHANGED <<logs, log, gaveUp>>
    BY <1>1, <1>2 DEF CallLogger, LogsCounted
  <2>2. CASE gaveUp /\ slot = 0
    BY <1>2, <2>1, <2>2 DEF CallLogger, D!Next, D!MakeUp
  <2>3. CASE gaveUp /\ slot # 0
    <3>1. slot \in 1..logs /\ \A i \in DOMAIN given : given[i] < slot
      BY <1>1, <1>2, <2>3 DEF CallLogger, LogsCounted
    <3> QED
      BY <1>2, <2>1, <2>3, <3>1 DEF CallLogger, D!Next, D!DeliverLate
  <2>4. CASE ~gaveUp
    <3>1. log = "wait" /\ slot = logs /\ avail = 0
      BY <1>1, <1>2, <2>4 DEF CallLogger, LogPlaces
    <3>2. Len(given) = logs - 1
      BY <1>1, <1>2, <3>1 DEF CallLogger, LogsCounted
    <3> QED
      BY <1>2, <2>1, <2>4, <3>1, <3>2 DEF CallLogger, D!Next, D!DeliverNext
  <2> QED
    BY <2>2, <2>3, <2>4
<1>3. CASE BeginLog
  BY <1>3 DEF BeginLog, InService, D!Next, D!Send
<1>4. CASE LogAnswered
  <2>1. gaveUp \/ Len(given) = logs
    BY <1>1, <1>4 DEF LogAnswered, LogPlaces, LogsCounted
  <2> QED
    BY <1>4, <2>1 DEF LogAnswered, D!Next, D!Answered
<1>5. CASE LogGivesUp
  <2>1. gaveUp' = TRUE
    BY <1>5 DEF LogGivesUp
  <2> QED
    BY <1>5, <2>1 DEF LogGivesUp, D!Next, D!ReturnWithout
<1>6. CASE EngineNext
  BY <1>6 DEF EngineNext, EngineSteps, Initialize, InitializeFails, Launch,
     SendInstantiate, Instantiated, Refused, Return, Deactivate, JoinCallback,
     DeleteContainer, Call, Free
<1>7. ASSUME CallbackNext, ~CallLogger PROVE UNCHANGED D!deliveryVars
  BY <1>7 DEF CallbackNext, WhileNotConnected, Connect, RetryConnect,
     WhileActive, GetMessage, SendReply, DeleteClient
<1>8. ASSUME JvmNext, ~BeginLog, ~LogEnds PROVE UNCHANGED D!deliveryVars
  BY <1>8 DEF JvmNext, ServiceEnds, ComeUp, JvmDies, TakeRequest,
     StartLogServer, DeleteFailedServer, CloseLog, LogAfterClose, Respond, LeaveUnanswered, ServiceThrows
<1>9. CASE UNCHANGED vars
  BY <1>9 DEF vars
<1> QED
  BY <1>2, <1>3, <1>4, <1>5, <1>6, <1>7, <1>8, <1>9 DEF Next, LogEnds

\* ImplementsDelivery: what FmuSession has of the log channel promises what the
\* whole channel does (ChannelDelivers): the engine's logger gets each message
\* once and before LogProtocolDriver.log returns, until one gives up, and each
\* at most once and in order from then on.
THEOREM SessionDelivers == Spec => ImplementsDelivery
<1>1. Init => D!Init
  <2>1. Init => ~gaveUp
    BY Zenon DEF Init
  <2> QED
    BY <2>1 DEF Init, D!Init
<1>2. IInv /\ [Next]_vars => [D!Next]_D!deliveryVars
  BY DeliveryStep
<1> QED
  BY <1>1, <1>2, InvariantCorrect, PTL DEF Spec, ImplementsDelivery, D!Safe

\* A thread that is to stop is not told otherwise, and each of its steps is one
\* of those it had left.
LEMMA WindDownStep ==
    ASSUME IInv, Next, ~active
    PROVE  ~active' /\ (callback' = callback \/ StepsLeft' < StepsLeft)
<1> USE DEF engineVars, commandVars, jvmVars, logVars
<1>1. CASE EngineNext
  <2>1. engine \in {"joining", "deleting", "freed"}
    BY Zenon DEF IInv, Stages
  <2>2. JoinCallback \/ DeleteContainer
    BY <1>1, <2>1 DEF EngineNext, EngineSteps, Initialize, InitializeFails,
       Launch, SendInstantiate, Instantiated, Refused, Return, Deactivate,
       Call, Free
  <2>3. callback' = callback /\ active' = active
    BY <2>2 DEF JoinCallback, DeleteContainer
  <2> QED
    BY <2>3, Zenon
<1>2. CASE CallbackNext
  <2>1. ~active'
    BY <1>2, Zenon DEF CallbackNext, WhileNotConnected, Connect, RetryConnect,
       WhileActive, GetMessage, CallLogger, SendReply, DeleteClient
  <2>2. \/ callback = "connecting" /\ callback' = "leaving"
        \/ callback = "connect" /\ callback' \in {"serving", "retry"}
        \/ callback = "retry" /\ callback' = "connecting"
        \/ callback = "serving" /\ callback' = "leaving"
        \/ callback = "get" /\ callback' \in {"logger", "serving"}
        \/ callback = "logger" /\ callback' = "reply"
        \/ callback = "reply" /\ callback' = "serving"
        \/ callback = "leaving" /\ callback' = "ended"
    BY <1>2 DEF CallbackNext, WhileNotConnected, Connect, RetryConnect,
       WhileActive, GetMessage, CallLogger, SendReply, DeleteClient
  <2> QED
    BY <2>1, <2>2 DEF StepsLeft
<1>3. CASE JvmNext
  <2>1. callback' = callback /\ active' = active
    BY <1>3 DEF JvmNext, ServiceEnds, LogEnds, ComeUp, JvmDies, TakeRequest,
       StartLogServer, DeleteFailedServer, BeginLog, LogAnswered, LogGivesUp,
       CloseLog, LogAfterClose, Respond, LeaveUnanswered, ServiceThrows
  <2> QED
    BY <2>1, Zenon
<1> QED
  BY <1>1, <1>2, <1>3 DEF Next

\* CallbackWindsDown: a callback thread that fmi2FreeInstance has told to stop
\* cannot keep it waiting in join() for more than five steps of its own.
THEOREM ThreadWindsDown == Spec => CallbackWindsDown
<1>1. IInv /\ [Next]_vars =>
        [~active => ~active' /\ (callback' = callback \/ StepsLeft' < StepsLeft)]_vars
  BY WindDownStep
<1> QED
  BY <1>1, InvariantCorrect, PTL DEF Spec, CallbackWindsDown

-----------------------------------------------------------------------------
(* fmi2FreeInstance returns.                                               *)

\* The fairness of the engine's and of the callback thread, with the guards
\* written out.
EngineRuns ==
    WeaklyFair(\/ engine \in {"new", "created", "launched", "freeing", "deleting"}
               \/ engine \in {"instantiating", "calling"} /\ reply # "none"
               \/ engine = "joining" /\ callback \in {"none", "ended"},
               EngineSteps, vars)

CallbackRuns == WeaklyFair(callback \notin {"none", "ended"}, CallbackNext, vars)

\* fmi2FreeInstance is in join(), for a thread with at most k steps to go.
Joins(k) == engine = "joining" /\ ~active /\ StepsLeft <= k

\* Until the thread has ended, nobody but the thread changes that.
LEMMA JoinStep ==
    ASSUME IInv, [Next]_vars, NEW k \in 0..5, Joins(k)
    PROVE  /\ Joins(k)' \/ engine' = "deleting"
           /\ k > 0 /\ CallbackNext => Joins(k - 1)'
<1>1. callback \in CallbackStates /\ callback' \in CallbackStates
  <2>1. TypeOK'
    BY TypeStep, StepIInv DEF IInv
  <2> QED
    BY <2>1 DEF IInv, TypeOK
<1>2. StepsLeft \in 0..5 /\ StepsLeft' \in 0..5
  BY <1>1 DEF StepsLeft, CallbackStates
<1>3. CASE UNCHANGED vars
  <2>1. UNCHANGED <<engine, active, callback>>
    BY <1>3 DEF vars, engineVars
  <2>2. ~CallbackNext
    BY <2>1 DEF CallbackNext, WhileNotConnected, Connect, RetryConnect, WhileActive,
       GetMessage, CallLogger, SendReply, DeleteClient
  <2> QED
    BY <2>1, <2>2 DEF Joins, StepsLeft
<1>4. CASE Next
  <2>1. ~active' /\ (callback' = callback \/ StepsLeft' < StepsLeft)
    BY <1>4, WindDownStep, Zenon DEF Joins
  <2>2. engine' \in {"joining", "deleting"}
    BY <1>4 DEF Joins, Next, EngineNext, EngineSteps, Initialize, InitializeFails,
       Launch, SendInstantiate, Instantiated, Refused, Return, Deactivate,
       JoinCallback, DeleteContainer, Call, Free,
       CallbackNext, WhileNotConnected, Connect, RetryConnect, WhileActive,
       GetMessage, CallLogger, SendReply, DeleteClient,
       JvmNext, ServiceEnds, LogEnds, ComeUp, JvmDies, TakeRequest,
       StartLogServer, DeleteFailedServer, BeginLog, LogAnswered, LogGivesUp,
       CloseLog, LogAfterClose, Respond, LeaveUnanswered, ServiceThrows, engineVars, commandVars, jvmVars, logVars
  <2>3. StepsLeft' <= k
    BY <1>2, <2>1 DEF Joins, StepsLeft
  <2>4. CallbackNext => engine' = engine /\ callback' # callback
    BY DEF CallbackNext, WhileNotConnected, Connect, RetryConnect, WhileActive,
       GetMessage, CallLogger, SendReply, DeleteClient, engineVars
  <2>5. Joins(k)' \/ engine' = "deleting"
    BY <2>1, <2>2, <2>3, Zenon DEF Joins
  <2>6. CallbackNext => StepsLeft' <= k - 1
    BY <1>2, <2>1, <2>4 DEF Joins
  <2>7. k > 0 /\ CallbackNext => Joins(k - 1)'
    BY <2>1, <2>4, <2>6, Zenon DEF Joins
  <2> QED
    BY <2>5, <2>7
<1> QED
  BY <1>3, <1>4

\* FreeReturns: the engine's thread comes out of fmi2FreeInstance, whatever the
\* callback thread was at when it was told to stop, and whatever the JVM does.
THEOREM FreeingEnds == Spec /\ EngineRuns /\ CallbackRuns => FreeReturns
<1> DEFINE Freeing == engine = "freeing"
           Joining == engine = "joining" /\ ~active
           Deleting == engine = "deleting"
           Freed == engine = "freed"
<1>1. IInv /\ [Next]_vars =>
        /\ Freeing => Freeing' \/ Joining'
        /\ Deleting => Deleting' \/ Freed'
  BY Zenon DEF Next, EngineNext, EngineSteps, Initialize, InitializeFails,
     Launch, SendInstantiate, Instantiated, Refused, Return, Deactivate,
     JoinCallback, DeleteContainer, Call, Free,
     CallbackNext, WhileNotConnected, Connect, RetryConnect, WhileActive,
     GetMessage, CallLogger, SendReply, DeleteClient,
     JvmNext, ServiceEnds, LogEnds, ComeUp, JvmDies, TakeRequest,
     StartLogServer, DeleteFailedServer, BeginLog, LogAnswered, LogGivesUp,
     CloseLog, LogAfterClose, Respond, LeaveUnanswered, ServiceThrows, vars, engineVars, commandVars, jvmVars, logVars
<1>2. IInv /\ [Next]_vars =>
        /\ Joins(5) => Joins(5)' \/ Deleting'
        /\ Joins(4) => Joins(4)' \/ Deleting'
        /\ Joins(3) => Joins(3)' \/ Deleting'
        /\ Joins(2) => Joins(2)' \/ Deleting'
        /\ Joins(1) => Joins(1)' \/ Deleting'
        /\ Joins(0) => Joins(0)' \/ Deleting'
  BY JoinStep
<1>3. IInv /\ [Next]_vars /\ CallbackNext =>
        /\ Joins(5) => Joins(4)'
        /\ Joins(4) => Joins(3)'
        /\ Joins(3) => Joins(2)'
        /\ Joins(2) => Joins(1)'
        /\ Joins(1) => Joins(0)'
  <2>1. ASSUME IInv, [Next]_vars, CallbackNext, NEW k \in 1..5, Joins(k) PROVE Joins(k - 1)'
    BY <2>1, JoinStep
  <2> QED
    BY <2>1, 5 - 1 = 4, 4 - 1 = 3, 3 - 1 = 2, 2 - 1 = 1, 1 - 1 = 0
<1>4. /\ Freeing /\ EngineSteps => Joining'
      /\ Joins(0) /\ EngineSteps => Deleting'
      /\ Deleting /\ EngineSteps => Freed'
  BY Zenon DEF Joins, EngineSteps, Initialize, InitializeFails,
     Launch, SendInstantiate, Instantiated, Refused, Return, Deactivate,
     JoinCallback, DeleteContainer
<1>5. TypeOK =>
        /\ Joining => Joins(5)
        /\ Joins(0) => engine = "joining" /\ callback \in {"none", "ended"}
        /\ Joins(5) \/ Joins(4) \/ Joins(3) \/ Joins(2) \/ Joins(1) =>
            Joins(0) \/ callback \notin {"none", "ended"}
  BY DEF TypeOK, Joins, StepsLeft, CallbackStates
<1>6. Freeing \/ Deleting =>
        engine \in {"new", "created", "launched", "freeing", "deleting"}
  OBVIOUS
<1>7. IInv => TypeOK
  BY DEF IInv
<1> QED
  BY <1>1, <1>2, <1>3, <1>4, <1>5, <1>6, <1>7, InvariantCorrect, PTL
     DEF Spec, EngineRuns, CallbackRuns, WeaklyFair, FreeReturns

-----------------------------------------------------------------------------
(* The calls return.                                                       *)

\* The fairness of the JVM's threads, with the guards written out.
ServiceRuns ==
    WeaklyFair(\/ jvm = "starting"
               \/ jvm = "up" /\ service = "idle" /\ request # "none"
               \/ jvm = "up" /\ logServer = "failed"
               \/ InService,
               ServiceEnds, vars)

LogRuns == WeaklyFair(jvm = "up" /\ log = "wait", LogEnds, vars)

\* The service does not log for ever.
LogsFinitely == <>[][~BeginLog]_vars

\* Where the call of an engine that waits is, as long as the JVM is up.
Pending == Calling /\ jvm = "up"
Requested == Pending /\ request # "none"
Serving == Pending /\ service \in Calls /\ log = "no"
Logging == Pending /\ service \in Calls /\ log = "wait"
Replied == Pending /\ reply # "none"
Settled == ~Calling \/ jvm = "dead" \/ unanswered

\* From each place a call goes to the next, or the JVM dies.
LEMMA PendingStep ==
    ASSUME IInv, Next
    PROVE  /\ Requested => Requested' \/ Serving' \/ Settled'
           /\ Serving => \/ Serving' \/ Replied' \/ Settled'
                         \/ BeginLog /\ Logging'
           /\ Logging => Logging' \/ Serving' \/ Settled'
           /\ Replied => Replied' \/ Settled'
<1> USE DEF Requested, Serving, Logging, Replied, Settled, Pending, Calling,
        engineVars, commandVars, jvmVars, logVars
<1>1. TypeOK /\ Turns
  BY DEF IInv
<1>2. CASE EngineNext
  BY <1>1, <1>2 DEF Turns, EngineNext, EngineSteps, Initialize, InitializeFails, Launch,
     SendInstantiate, Instantiated, Refused, Return, Deactivate, JoinCallback,
     DeleteContainer, Call, Free
<1>3. CASE CallbackNext
  BY <1>3 DEF CallbackNext, WhileNotConnected, Connect, RetryConnect,
     WhileActive, GetMessage, CallLogger, SendReply, DeleteClient
<1>4. CASE JvmNext
  <2> USE <1>1 DEF Turns, InService, CallPlaces, IInv
  <2>1. CASE TakeRequest
    BY <2>1 DEF TakeRequest, TypeOK, Calls
  <2>2. CASE Respond \/ LeaveUnanswered \/ ServiceThrows
    BY <2>2 DEF Respond, LeaveUnanswered, ServiceThrows
  <2>3. CASE BeginLog
    BY <2>3 DEF BeginLog
  <2>4. CASE LogEnds
    BY <2>4 DEF LogEnds, LogAnswered, LogGivesUp
  <2>5. CASE ComeUp \/ JvmDies \/ StartLogServer \/ DeleteFailedServer \/ CloseLog \/ LogAfterClose
    BY <2>5 DEF ComeUp, JvmDies, StartLogServer, DeleteFailedServer, CloseLog, LogAfterClose
  <2> QED
    BY <1>4, <2>1, <2>2, <2>3, <2>4, <2>5 DEF JvmNext, ServiceEnds
<1> QED
  BY <1>2, <1>3, <1>4 DEF Next

\* The thread that has the call can only move it on.
LEMMA PendingMove ==
    ASSUME IInv
    PROVE  /\ Requested /\ ServiceEnds => Serving' \/ Settled'
           /\ Serving /\ ServiceEnds => Replied' \/ Settled'
           /\ Logging /\ LogEnds => Serving'
           /\ Replied /\ EngineSteps => Settled'
<1> USE DEF Requested, Serving, Logging, Replied, Settled, Pending, Calling,
        engineVars, commandVars, jvmVars, logVars
<1>1. TypeOK /\ Turns /\ CallPlaces
  BY DEF IInv
<1>2. Requested /\ ServiceEnds => Serving' \/ Settled'
  BY <1>1 DEF Turns, TypeOK, Calls, ServiceEnds, ComeUp, TakeRequest, DeleteFailedServer,
     Respond, LeaveUnanswered, ServiceThrows, InService
<1>3. Serving /\ ServiceEnds => Replied' \/ Settled'
  <2>1. Serving => service \in Calls /\ service # "free"
    BY <1>1 DEF CallPlaces
  <2>2. Serving /\ (LeaveUnanswered \/ ServiceThrows) => unanswered'
    BY <2>1, Zenon DEF LeaveUnanswered, ServiceThrows
  <2>3. Serving => ~ComeUp /\ ~TakeRequest
    BY DEF ComeUp, TakeRequest, Calls
  <2>4. Serving /\ DeleteFailedServer => jvm' = "dead"
    BY DEF DeleteFailedServer
  <2>5. Serving /\ Respond => Replied'
    BY <1>1, <2>1 DEF Turns, Respond, InService, Calls
  <2> QED
    BY <2>2, <2>3, <2>4, <2>5 DEF ServiceEnds
<1>4. Logging /\ LogEnds => Serving'
  BY <1>1 DEF LogEnds, LogAnswered, LogGivesUp
<1>5. Replied /\ EngineSteps => Settled'
  BY <1>1 DEF EngineSteps, Initialize, InitializeFails, Launch,
     SendInstantiate, Instantiated, Refused, Return, Deactivate, JoinCallback,
     DeleteContainer
<1> QED
  BY <1>2, <1>3, <1>4, <1>5

\* CallsReturn: fmi2Instantiate and the calls return while the JVM lives and the
\* service answers, wherever it logs, as long as it does not log for ever.
THEOREM CallingEnds ==
    Spec /\ EngineRuns /\ ServiceRuns /\ LogRuns /\ LogsFinitely => CallsReturn
<1>1. IInv /\ [Next]_vars =>
        /\ Requested => Requested' \/ Serving' \/ Settled'
        /\ Serving => Serving' \/ Replied' \/ Settled' \/ Logging'
        /\ Serving /\ [~BeginLog]_vars => Serving' \/ Replied' \/ Settled'
        /\ Logging => Logging' \/ Serving' \/ Settled'
        /\ Replied => Replied' \/ Settled'
  <2>1. CASE Next
    <3>1. BeginLog => ~(UNCHANGED vars)
      BY DEF BeginLog, InService, vars, logVars
    <3> QED
      BY <2>1, <3>1, PendingStep
  <2>2. CASE UNCHANGED vars
    BY <2>2 DEF vars, engineVars, commandVars, jvmVars, logVars, Requested, Serving,
       Logging, Replied, Settled, Pending, Calling
  <2> QED
    BY <2>1, <2>2
<1>2. IInv =>
        /\ Requested /\ ServiceEnds => Serving' \/ Settled'
        /\ Serving /\ ServiceEnds => Replied' \/ Settled'
        /\ Logging /\ LogEnds => Serving'
        /\ Replied /\ EngineSteps => Settled'
  BY PendingMove
<1>3. IInv /\ Calling /\ jvm = "up" => Requested \/ Serving \/ Logging \/ Replied \/ Settled
  BY DEF IInv, TypeOK, CallPlaces, Calling, Pending, Requested, Serving, Logging, Replied, Settled
<1>4. IInv =>
        /\ Requested => jvm = "up" /\ service = "idle" /\ request # "none"
        /\ Serving => (jvm = "up" /\ logServer = "failed") \/ InService
        /\ Logging => jvm = "up" /\ log = "wait"
        /\ Replied => engine \in {"instantiating", "calling"} /\ reply # "none"
  BY DEF IInv, Turns, InService, Calling, Pending, Requested, Serving, Logging, Replied
<1>5. Settled <=> ~Calling \/ jvm = "dead" \/ unanswered
  BY DEF Settled
<1> QED
  BY <1>1, <1>2, <1>3, <1>4, <1>5, InvariantCorrect, PTL
     DEF Spec, EngineRuns, ServiceRuns, LogRuns, LogsFinitely, WeaklyFair, CallsReturn
=============================================================================
