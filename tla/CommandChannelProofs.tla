------------------------ MODULE CommandChannelProofs ------------------------
(***************************************************************************)
(* The command channel implements a remote procedure call.                 *)
(***************************************************************************)
EXTENDS CommandChannel, IpcChannelProofs

\* A channel whose waits have no timeout never counts a failed one.
LEMMA NeverGivesUp == Spec => [](gaveUp = 0)
<1>1. Init => gaveUp = 0
  BY DEF Init
<1>2. gaveUp = 0 /\ [Next]_vars => (gaveUp = 0)'
  BY CommandModeAssumption
     DEF Next, ServerNext, ClientNext, SendBegin, SendWrite, PostAvail,
     WaitSignal, GiveUpWait, Parse, GetMessage, ReadCmd, ReadSize, ReadBody, Serve,
     WriteReply, PostSignal, vars, slotVars, serverVars, clientVars
<1> QED
  BY <1>1, <1>2, PTL DEF Spec

\* A step of the command channel is a step of the remote procedure call it
\* implements, or changes nothing the caller and the service can see.
LEMMA RpcStep ==
    ASSUME IInv, gaveUp = 0, [Next]_vars PROVE [R!Next]_R!rpcVars
<1> USE CommandModeAssumption DEF R!rpcVars
<1>1. /\ InLockstep /\ PermitsConserved
      /\ Len(given) + avail + ClientReading + ServerWriting = sent
      /\ sent \in Nat /\ Len(given) \in Nat /\ avail \in Nat /\ signal \in Nat
      /\ spc \in ServerPositions /\ cpc \in ClientPositions
      /\ answer \in Tag /\ slot \in [Parts -> Tag] /\ got \in [Parts -> Tag]
  BY MaxSendsAssumption DEF IInv, TypeOK, MessagesConserved
<1>2. CASE SendBegin
  <2>1. answer.id = sent
    BY <1>1, <1>2 DEF SendBegin, InLockstep, Zeroed, Reply
  <2> QED
    BY <1>2, <2>1 DEF SendBegin, clientVars, R!Next, R!Call
<1>3. CASE Serve
  <2>1. Len(given) < sent /\ Len(given) + 1 = sent
    BY <1>1, <1>3 DEF Serve, PermitsConserved,
       ClientBusy, ClientReading, ServerWaiting, ServerWriting, ServerPositions
  <2>2. Len(given') = Len(given) + 1
    BY <1>3, GivenOneMore DEF IInv
  <2> QED
    BY <1>3, <2>1, <2>2 DEF Serve, serverVars, R!Next, R!Execute
<1>4. CASE Parse
  <2>1. Len(given) = sent
    BY <1>1, <1>4 DEF Parse, PermitsConserved,
       ClientBusy, ClientReading, ServerWaiting, ServerWriting, ClientPositions
  <2>2. answer.id < sent /\ Message(slot).id = sent
    BY <1>1, <1>4 DEF Parse, InLockstep, Parts, Reply, Message
  <2> QED
    BY <1>4, <2>1, <2>2 DEF Parse, clientVars, R!Next, R!Return
<1>5. CASE UNCHANGED <<sent, given, answer>>
  BY <1>5
<1> QED
  BY <1>2, <1>3, <1>4, <1>5 DEF Next, ServerNext, ClientNext, SendWrite, PostAvail,
     WaitSignal, GiveUpWait, GetMessage, ReadCmd, ReadSize, ReadBody, WriteReply, PostSignal,
     vars, slotVars, serverVars, clientVars

\* ImplementsRpcSafety: the command channel (no timeout, the reply is parsed)
\* implements a synchronous remote procedure call: FmuProxy::send makes one
\* call at a time, the FMU executes each exactly once, and the engine gets the
\* result of that execution.
THEOREM CommandChannelIsRpc == Spec => ImplementsRpcSafety
<1>1. Init => R!Init
  BY DEF Init, Zeroed, R!Init
<1>2. IInv /\ gaveUp = 0 /\ [Next]_vars => [R!Next]_R!rpcVars
  BY RpcStep
<1>3. Spec => [](gaveUp = 0)
  BY NeverGivesUp
<1> QED
  BY <1>1, <1>2, <1>3, InvariantCorrect, PTL DEF Spec, ImplementsRpcSafety, R!Safe

-----------------------------------------------------------------------------
(* A call returns.                                                         *)

\* How far the client is with the message of a send that waits.
At(p) == spc = "wait" /\ cpc = p
Asked == At("poll") /\ avail > 0
RepliesAll == At("write") /\ cwr = Parts
RepliesTwo == At("write") /\ cwr # Parts /\ ~LastOf(cwr)
RepliesOne == At("write") /\ LastOf(cwr)
Answered == spc = "wait" /\ signal > 0

\* A message that is waited for is at one of these places.
LEMMA WaitPlaces ==
    ASSUME IInv, gaveUp = 0, spc = "wait"
    PROVE  \/ Asked \/ At("cmd") \/ At("size") \/ At("body") \/ At("serve")
           \/ RepliesAll \/ RepliesTwo \/ RepliesOne \/ At("post") \/ Answered
BY DEF IInv, TypeOK, PermitsConserved, ServerWaiting, ClientBusy, ClientPositions,
   Asked, At, RepliesAll, RepliesTwo, RepliesOne, Answered

\* While it waits for the reply, the server leaves the client to its work.
LEMMA WaitStep ==
    ASSUME IInv, gaveUp = 0, spc = "wait", [Next]_vars, ~ClientNext
    PROVE  /\ Asked => Asked'
           /\ RepliesAll => RepliesAll'
           /\ RepliesTwo => RepliesTwo'
           /\ RepliesOne => RepliesOne'
           /\ \A p \in ClientPositions \ {"poll", "write"} : At(p) => At(p)'
<1>1. /\ avail \in Nat /\ signal \in Nat
      /\ avail + signal + ClientBusy = 1
  BY DEF IInv, TypeOK, PermitsConserved, ServerWaiting
<1>2. CASE ServerNext
  <2>1. signal > 0 /\ avail = 0 /\ cpc = "poll"
    BY <1>1, <1>2, CommandModeAssumption DEF ClientBusy, ServerNext, SendBegin,
       SendWrite, PostAvail, WaitSignal, GiveUpWait, Parse
  <2> QED
    BY <2>1 DEF Asked, At, RepliesAll, RepliesTwo, RepliesOne
<1>3. CASE UNCHANGED vars
  BY <1>3 DEF Asked, At, RepliesAll, RepliesTwo, RepliesOne, LastOf,
     vars, slotVars, serverVars, clientVars
<1> QED
  BY <1>2, <1>3 DEF Next

\* Each step the client takes brings the reply nearer.
LEMMA ClientStep ==
    ASSUME IInv, ClientNext
    PROVE  /\ Asked => At("cmd")'
           /\ At("cmd") => At("size")'
           /\ At("size") => At("body")'
           /\ At("body") => At("serve")'
           /\ At("serve") => RepliesAll'
           /\ RepliesAll => RepliesTwo' \/ RepliesOne' \/ At("post")'
           /\ RepliesTwo => RepliesOne' \/ At("post")'
           /\ RepliesOne => At("post")'
           /\ At("post") => Answered'
<1>1. signal \in Nat /\ cwr \in SUBSET Parts
  BY DEF IInv, TypeOK
<1>2. UNCHANGED spc
  BY DEF ClientNext, GetMessage, ReadCmd, ReadSize, ReadBody, Serve, WriteReply, PostSignal, serverVars
<1>3. CASE cpc # "write"
  BY <1>1, <1>2, <1>3 DEF Asked, At, RepliesAll, RepliesTwo, RepliesOne, Answered,
     ClientNext, GetMessage, ReadCmd, ReadSize, ReadBody, Serve, WriteReply, PostSignal
<1>4. CASE cpc = "write"
  <2>1. PICK p \in cwr : cwr' = cwr \ {p} /\ cpc' = IF cwr' = {} THEN "post" ELSE "write"
    BY <1>4 DEF ClientNext, GetMessage, ReadCmd, ReadSize, ReadBody, Serve, WriteReply, PostSignal
  <2>2. /\ cwr' # Parts
        /\ LastOf(cwr) => cwr' = {}
        /\ cwr # Parts => cwr' = {} \/ LastOf(cwr')
    BY <1>1, <2>1, CopyCounts
  <2> QED
    BY <1>2, <1>4, <2>1, <2>2 DEF Asked, At, RepliesAll, RepliesTwo, RepliesOne
<1> QED
  BY <1>3, <1>4

\* A send that waits gets its permit.
LEMMA WaitIsAnswered == Spec /\ ClientRuns => (spc = "wait" ~> Answered)
<1> DEFINE Inv == IInv /\ gaveUp = 0 /\ CopiesLeft
<1>1. Inv /\ spc = "wait" =>
        \/ Asked \/ At("cmd") \/ At("size") \/ At("body") \/ At("serve")
        \/ RepliesAll \/ RepliesTwo \/ RepliesOne \/ At("post") \/ Answered
  BY WaitPlaces
<1>2. Inv /\ spc = "wait" /\ [Next]_vars /\ ~ClientNext =>
        /\ Asked => Asked'
        /\ At("cmd") => At("cmd")'
        /\ At("size") => At("size")'
        /\ At("body") => At("body")'
        /\ At("serve") => At("serve")'
        /\ RepliesAll => RepliesAll'
        /\ RepliesTwo => RepliesTwo'
        /\ RepliesOne => RepliesOne'
        /\ At("post") => At("post")'
  BY WaitStep DEF ClientPositions
<1>3. Inv /\ ClientNext =>
        /\ Asked => At("cmd")'
        /\ At("cmd") => At("size")'
        /\ At("size") => At("body")'
        /\ At("body") => At("serve")'
        /\ At("serve") => RepliesAll'
        /\ RepliesAll => RepliesTwo' \/ RepliesOne' \/ At("post")'
        /\ RepliesTwo => RepliesOne' \/ At("post")'
        /\ RepliesOne => At("post")'
        /\ At("post") => Answered'
  BY ClientStep
<1>4. Inv /\ (Asked \/ At("cmd") \/ At("size") \/ At("body") \/ At("serve")
              \/ RepliesAll \/ RepliesTwo \/ RepliesOne \/ At("post")) =>
        spc = "wait" /\ ClientCanMove
  BY DEF Asked, At, RepliesAll, RepliesTwo, RepliesOne, CopiesLeft, ClientCanMove
<1>5. Spec => []Inv
  BY InvariantCorrect, NeverGivesUp, AlwaysCopiesLeft, PTL
<1> HIDE DEF Inv
<1> QED
  BY <1>1, <1>2, <1>3, <1>4, <1>5, PTL DEF Spec, ClientRuns, WeaklyFair

\* EverySendReturns, of the command channel: FmuProxy::send waits INFINITE, and
\* still returns if the engine's thread and the FMU's keep running, since the
\* reply is under way or at the client as long as it waits.
THEOREM CommandReturns == Spec /\ ServerRuns /\ ClientRuns => EverySendReturns
<1>1. TypeOK =>
        spc = "idle" \/ spc \in {"write", "post"} \/ spc = "wait" \/ spc = "parse"
  BY DEF TypeOK, ServerPositions
<1>2. Answered => spc = "parse" \/ (spc = "wait" /\ (signal > 0 \/ GiveUp))
  BY DEF Answered
<1>3. IInv => TypeOK
  BY DEF IInv
<1> QED
  BY <1>1, <1>2, <1>3, InvariantCorrect, SendWaits, WaitIsAnswered, WaitReturns, PTL
     DEF EverySendReturns

\* The fairness of Rpc's Execute and Return, with the guards written out.
RpcRuns ==
    /\ WeaklyFair(Len(given) < sent, R!Execute, R!rpcVars)
    /\ WeaklyFair(Len(given) = sent /\ answer.id < sent, R!Return, R!rpcVars)

\* Between two calls of FmuProxy, everything has been executed and returned.
LEMMA QuietWhenIdle ==
    ASSUME IInv, gaveUp = 0, spc = "idle" PROVE Len(given) = sent /\ answer.id = sent
<1>1. /\ InLockstep /\ PermitsConserved
      /\ Len(given) + avail + ClientReading + ServerWriting = sent
      /\ sent \in Nat /\ Len(given) \in Nat /\ avail \in Nat /\ signal \in Nat
      /\ cpc \in ClientPositions
  BY MaxSendsAssumption DEF IInv, TypeOK, MessagesConserved
<1>2. Len(given) = sent
  BY <1>1 DEF PermitsConserved, ClientBusy, ClientReading,
     ServerWaiting, ServerWriting, ClientPositions
<1> QED
  BY <1>1, <1>2, CommandModeAssumption DEF InLockstep, Zeroed, Reply

\* The fair half of ImplementsRpc: with both threads running, the channel also
\* has the fairness of the remote procedure call.  A call that has been made is
\* not left unexecuted for ever, nor an executed one unreturned.
THEOREM CommandChannelIsFairRpc ==
    Spec /\ ServerRuns /\ ClientRuns => ImplementsRpcSafety /\ RpcRuns
<1>1. IInv /\ gaveUp = 0 /\ spc = "idle" =>
        ~(Len(given) < sent) /\ ~(Len(given) = sent /\ answer.id < sent)
  <2>1. IInv => sent \in Nat
    BY MaxSendsAssumption DEF IInv, TypeOK
  <2> QED
    BY <2>1, QuietWhenIdle
<1>2. spc = "idle" \/ spc # "idle"
  OBVIOUS
<1> QED
  BY <1>1, <1>2, InvariantCorrect, NeverGivesUp, CommandReturns, CommandChannelIsRpc, PTL
     DEF EverySendReturns, RpcRuns, WeaklyFair
=============================================================================
