-------------------------- MODULE IpcChannelProofs --------------------------
(***************************************************************************)
(* Proofs about IpcChannel, for every bound on the number of sends and for *)
(* every mode of the channel.  Each part of the inductive invariant IInv   *)
(* has a lemma that says a step preserves it, given the parts before it;   *)
(* the theorems put the parts together.                                    *)
(***************************************************************************)
EXTENDS IpcChannel, WeakFairness, FiniteSetTheorems, SequenceTheorems, TLAPS

\* What a call of the service adds to the history of calls.
LEMMA GivenOneMore ==
    ASSUME TypeOK, Serve
    PROVE  /\ Number(got) \in 0..MaxSends
           /\ given' \in Seq(0..MaxSends) /\ Len(given) \in Nat
           /\ Len(given') = Len(given) + 1
           /\ DOMAIN given = 1..Len(given) /\ DOMAIN given' = 1..(Len(given) + 1)
           /\ \A i \in 1..Len(given) : given'[i] = given[i]
           /\ given'[Len(given) + 1] = Number(got)
<1>1. Number(got) \in 0..MaxSends
  BY MaxSendsAssumption DEF TypeOK, Tag, Parts, Number, Message, Torn
<1>2. given \in Seq(0..MaxSends) /\ given' = Append(given, Number(got))
  BY DEF TypeOK, Serve
<1> QED
  BY <1>1, <1>2

\* Every step keeps the values of the state of the right kind.
LEMMA TypeStep == ASSUME TypeOK, [Next]_vars PROVE TypeOK'
<1> USE MaxSendsAssumption DEF TypeOK, Tag, Parts, ServerPositions,
        ClientPositions, vars, slotVars, serverVars, clientVars
<1>1. CASE SendBegin
  BY <1>1 DEF SendBegin
<1>2. CASE SendWrite
  BY <1>2 DEF SendWrite, Request
<1>3. CASE PostAvail
  BY <1>3 DEF PostAvail
<1>4. CASE WaitSignal
  BY <1>4 DEF WaitSignal
<1>5. CASE GiveUpWait
  BY <1>5 DEF GiveUpWait
<1>6. CASE Parse
  BY <1>6 DEF Parse, Message, Torn
<1>7. CASE GetMessage
  BY <1>7 DEF GetMessage
<1>8. CASE ReadCmd \/ ReadSize
  <2>1. CASE ReadCmd
    BY <2>1 DEF ReadCmd
  <2>2. CASE ReadSize
    BY <2>2 DEF ReadSize
  <2> QED
    BY <1>8, <2>1, <2>2
<1>9. CASE ReadBody
  BY <1>9 DEF ReadBody
<1>10. CASE Serve
  BY <1>10, GivenOneMore DEF Serve
<1>11. CASE WriteReply
  BY <1>11 DEF WriteReply, Reply, Message, Torn
<1>12. CASE PostSignal
  BY <1>12 DEF PostSignal
<1>13. CASE UNCHANGED vars
  BY <1>13
<1> QED
  BY <1>1, <1>2, <1>3, <1>4, <1>5, <1>6, <1>7, <1>8, <1>9, <1>10, <1>11,
     <1>12, <1>13 DEF Next, ServerNext, ClientNext

\* Every step conserves the permits of the two semaphores.
LEMMA PermitsStep ==
    ASSUME TypeOK, PermitsConserved, [Next]_vars PROVE PermitsConserved'
<1> USE DEF TypeOK, PermitsConserved, ClientBusy, ServerWaiting,
        ClientPositions, vars, slotVars, serverVars, clientVars
<1>1. CASE SendBegin
  BY <1>1 DEF SendBegin
<1>2. CASE SendWrite
  BY <1>2 DEF SendWrite
<1>3. CASE PostAvail
  BY <1>3 DEF PostAvail
<1>4. CASE WaitSignal
  BY <1>4 DEF WaitSignal
<1>5. CASE GiveUpWait
  BY <1>5 DEF GiveUpWait
<1>6. CASE Parse
  BY <1>6 DEF Parse
<1>7. CASE GetMessage
  BY <1>7 DEF GetMessage
<1>8. CASE ReadCmd \/ ReadSize
  BY <1>8 DEF ReadCmd, ReadSize
<1>9. CASE ReadBody
  BY <1>9 DEF ReadBody
<1>10. CASE Serve
  BY <1>10 DEF Serve
<1>11. CASE WriteReply
  BY <1>11 DEF WriteReply
<1>12. CASE PostSignal
  BY <1>12 DEF PostSignal
<1>13. CASE UNCHANGED vars
  BY <1>13
<1> QED
  BY <1>1, <1>2, <1>3, <1>4, <1>5, <1>6, <1>7, <1>8, <1>9, <1>10, <1>11,
     <1>12, <1>13 DEF Next, ServerNext, ClientNext

\* Every step accounts for the messages sent, waiting and served.
LEMMA MessagesStep ==
    ASSUME TypeOK, NumbersOrdered, MessagesConserved, [Next]_vars
    PROVE  MessagesConserved'
<1> USE DEF TypeOK, ServerPositions, ClientPositions
<1>1. CASE Serve
  <2>1. /\ Len(given') = Len(given) + 1 /\ DOMAIN given' = 1..(Len(given) + 1)
        /\ DOMAIN given = 1..Len(given) /\ Len(given) \in Nat
        /\ \A i \in 1..Len(given) : given'[i] = given[i]
        /\ given'[Len(given) + 1] = Number(got)
    BY <1>1, GivenOneMore
  <2>2. Len(given') + avail' + ClientReading' + ServerWriting' = sent'
    BY <1>1, <2>1 DEF Serve, MessagesConserved, ClientReading, ServerWriting,
       slotVars, serverVars
  <2>3. Number(got) # 0 => \A i \in DOMAIN given : given[i] < Number(got)
    BY <1>1 DEF Serve, NumbersOrdered, HasRead, MayRead, Undelivered, Number, Message, Torn
  <2>4. \A i, j \in DOMAIN given' : i < j /\ given'[j] # 0 => given'[i] < given'[j]
    <3> SUFFICES ASSUME NEW i \in 1..(Len(given) + 1), NEW j \in 1..(Len(given) + 1),
                        i < j, given'[j] # 0
                 PROVE  given'[i] < given'[j]
      BY <2>1
    <3>1. CASE j = Len(given) + 1
      BY <2>1, <2>3, <3>1
    <3>2. CASE j # Len(given) + 1
      BY <2>1, <3>2 DEF MessagesConserved
    <3> QED
      BY <3>1, <3>2
  <2> QED
    BY <2>2, <2>4 DEF MessagesConserved
<1>2. ASSUME UNCHANGED given,
             Len(given) + avail' + ClientReading' + ServerWriting' = sent'
      PROVE  MessagesConserved'
  BY <1>2 DEF MessagesConserved
<1>3. Len(given) \in Nat
  OBVIOUS
<1> USE <1>3 DEF MessagesConserved, ClientReading, ServerWriting,
        vars, slotVars, serverVars, clientVars
<1>4. CASE SendBegin
  BY <1>2, <1>4 DEF SendBegin
<1>5. CASE SendWrite
  BY <1>2, <1>5 DEF SendWrite
<1>6. CASE PostAvail
  BY <1>2, <1>6 DEF PostAvail
<1>7. CASE WaitSignal
  BY <1>2, <1>7 DEF WaitSignal
<1>8. CASE GiveUpWait
  BY <1>2, <1>8 DEF GiveUpWait
<1>9. CASE Parse
  BY <1>2, <1>9 DEF Parse
<1>10. CASE GetMessage
  BY <1>2, <1>10 DEF GetMessage
<1>11. CASE ReadCmd \/ ReadSize
  BY <1>2, <1>11 DEF ReadCmd, ReadSize
<1>12. CASE ReadBody
  BY <1>2, <1>12 DEF ReadBody
<1>13. CASE WriteReply
  BY <1>2, <1>13 DEF WriteReply
<1>14. CASE PostSignal
  BY <1>2, <1>14 DEF PostSignal
<1>15. CASE UNCHANGED vars
  BY <1>2, <1>15
<1> QED
  BY <1>1, <1>4, <1>5, <1>6, <1>7, <1>8, <1>9, <1>10, <1>11, <1>12, <1>13,
     <1>14, <1>15 DEF Next, ServerNext, ClientNext

\* Every step keeps the parts in the slot and in the client's copy newer than
\* what has been delivered.
LEMMA NumbersStep ==
    ASSUME TypeOK, NumbersOrdered, [Next]_vars PROVE NumbersOrdered'
<1>1. /\ sent \in Nat /\ given \in Seq(0..MaxSends) /\ Len(given) \in Nat
      /\ DOMAIN given = 1..Len(given)
      /\ \A i \in DOMAIN given : given[i] \in Nat
  BY MaxSendsAssumption DEF TypeOK
<1>2. CASE Serve
  <2>1. /\ DOMAIN given' = 1..(Len(given) + 1)
        /\ \A i \in 1..Len(given) : given'[i] = given[i]
        /\ given'[Len(given) + 1] = Number(got)
    BY <1>2, GivenOneMore
  <2>2. Number(got) <= sent
    BY <1>1, <1>2 DEF Serve, NumbersOrdered, HasRead, MayRead, Undelivered, Number, Message, Torn
  <2>3. spc = "write" /\ (\E p \in {"size", "body"} : p \in swr) => Number(got) < sent
    <3>1. spc = "write" /\ (\E p \in {"size", "body"} : p \in swr) =>
            Message(got) # Request(sent)
      BY <1>2 DEF Serve, NumbersOrdered, HasRead, Message, Request, Torn
    <3>2. Message(got) \in Tag
      BY MaxSendsAssumption DEF TypeOK, Tag, Parts, Message, Torn
    <3>3. Number(got) = sent /\ sent # 0 => Message(got) = Request(sent)
      BY <3>2 DEF Tag, Number, Request
    <3>4. spc = "write" /\ (\E p \in {"size", "body"} : p \in swr) => sent # 0
      BY DEF NumbersOrdered, HasRead, MayRead, Undelivered
    <3>5. Number(got) \in Nat
      BY <3>2, MaxSendsAssumption DEF Tag, Number
    <3> QED
      BY <1>1, <2>2, <3>1, <3>3, <3>4, <3>5
  <2>4. \A i \in DOMAIN given' : given'[i] <= sent
    BY <1>1, <2>1, <2>2 DEF NumbersOrdered
  <2>5. spc = "write" /\ (\E p \in {"size", "body"} : p \in swr) =>
          \A i \in DOMAIN given' : given'[i] < sent
    BY <1>1, <2>1, <2>3 DEF NumbersOrdered, HasRead, MayRead, Undelivered
  <2> QED
    BY <1>1, <1>2, <2>4, <2>5
       DEF Serve, NumbersOrdered, HasRead, MayRead, Undelivered, Parts, slotVars, serverVars
<1> USE <1>1, MaxSendsAssumption DEF TypeOK, Tag, Parts, NumbersOrdered, HasRead, MayRead, Undelivered,
        vars, slotVars, serverVars, clientVars
<1>3. CASE SendBegin
  BY <1>3 DEF SendBegin, Request
<1>4. CASE SendWrite
  BY <1>4 DEF SendWrite, Request
<1>5. CASE PostAvail
  BY <1>5 DEF PostAvail
<1>6. CASE WaitSignal
  BY <1>6 DEF WaitSignal
<1>7. CASE GiveUpWait
  BY <1>7 DEF GiveUpWait
<1>8. CASE Parse
  BY <1>8 DEF Parse
<1>9. CASE GetMessage
  BY <1>9 DEF GetMessage
<1>10. CASE ReadCmd
  BY <1>10 DEF ReadCmd
<1>11. CASE ReadSize
  BY <1>11 DEF ReadSize
<1>12. CASE ReadBody
  BY <1>12 DEF ReadBody
<1>13. CASE WriteReply
  BY <1>13 DEF WriteReply, Reply, Request
<1>14. CASE PostSignal
  BY <1>14 DEF PostSignal
<1>15. CASE UNCHANGED vars
  BY <1>15
<1> QED
  BY <1>2, <1>3, <1>4, <1>5, <1>6, <1>7, <1>8, <1>9, <1>10, <1>11, <1>12,
     <1>13, <1>14, <1>15 DEF Next, ServerNext, ClientNext

\* Every step keeps zeroed parts from the service: a client that has a
\* permit knows that a first message has been written completely.
LEMMA SlotFilledStep ==
    ASSUME TypeOK, MessagesConserved, SlotFilled, [Next]_vars PROVE SlotFilled'
<1> Len(given) \in Nat
  BY DEF TypeOK
<1> USE DEF TypeOK, Tag, Parts, MessagesConserved, ClientReading, ServerWriting,
        SlotFilled, NeverServesZeroedSlot, vars, slotVars, serverVars, clientVars
<1>1. CASE SendBegin
  BY <1>1 DEF SendBegin
<1>2. CASE SendWrite
  BY <1>2 DEF SendWrite, Request
<1>3. CASE PostAvail
  BY <1>3 DEF PostAvail
<1>4. CASE WaitSignal
  BY <1>4 DEF WaitSignal
<1>5. CASE GiveUpWait
  BY <1>5 DEF GiveUpWait
<1>6. CASE Parse
  BY <1>6 DEF Parse
<1>7. CASE GetMessage
  BY <1>7 DEF GetMessage
<1>8. CASE ReadCmd \/ ReadSize
  BY <1>8 DEF ReadCmd, ReadSize
<1>9. CASE ReadBody
  BY <1>9 DEF ReadBody
<1>10. CASE Serve
  BY <1>10 DEF Serve
<1>11. CASE WriteReply
  BY <1>11 DEF WriteReply, Reply
<1>12. CASE PostSignal
  BY <1>12 DEF PostSignal
<1>13. CASE UNCHANGED vars
  BY <1>13
<1> QED
  BY <1>1, <1>2, <1>3, <1>4, <1>5, <1>6, <1>7, <1>8, <1>9, <1>10, <1>11,
     <1>12, <1>13 DEF Next, ServerNext, ClientNext

\* Every step keeps the two sides alternating as long as no wait fails: the
\* one permit there is says whose turn it is.
LEMMA LockstepStep ==
    ASSUME TypeOK, PermitsConserved, MessagesConserved,
           gaveUp = 0 => InLockstep, [Next]_vars, gaveUp' = 0
    PROVE  InLockstep'
<1> /\ Len(given) \in Nat /\ DOMAIN given = 1..Len(given)
    /\ Len(given) + avail + ClientReading + ServerWriting = sent
  BY DEF TypeOK, MessagesConserved
<1> USE DEF TypeOK, Tag, Parts, PermitsConserved,
        ClientBusy, ClientReading, ServerWaiting, ServerWriting, InLockstep,
        ServerPositions, ClientPositions, vars, slotVars, serverVars, clientVars
<1>1. CASE SendBegin
  BY <1>1 DEF SendBegin, Reply, Zeroed
<1>2. CASE SendWrite
  BY <1>2 DEF SendWrite, Request
<1>3. CASE PostAvail
  BY <1>3 DEF PostAvail
<1>4. CASE WaitSignal
  BY <1>4 DEF WaitSignal
<1>5. CASE GiveUpWait
  BY <1>5 DEF GiveUpWait
<1>6. CASE Parse
  BY <1>6 DEF Parse, Reply, Message
<1>7. CASE GetMessage
  BY <1>7 DEF GetMessage
<1>8. CASE ReadCmd \/ ReadSize
  BY <1>8 DEF ReadCmd, ReadSize
<1>9. CASE ReadBody
  BY <1>9 DEF ReadBody
<1>10. CASE Serve
  <2>1. gaveUp = 0 /\ Number(got) = sent /\ sent = Len(given) + 1
    BY <1>10 DEF Serve, Number, Message, Request, slotVars, serverVars
  <2>2. /\ DOMAIN given' = 1..(Len(given) + 1)
        /\ \A i \in 1..Len(given) : given'[i] = given[i]
        /\ given'[Len(given) + 1] = Number(got)
    BY <1>10, GivenOneMore
  <2>3. \A i \in DOMAIN given' : given'[i] = i
    BY <2>1, <2>2
  <2> QED
    BY <1>10, <2>1, <2>3 DEF Serve
<1>11. CASE WriteReply
  BY <1>11 DEF WriteReply, Reply, Request, Message
<1>12. CASE PostSignal
  BY <1>12 DEF PostSignal
<1>13. CASE UNCHANGED vars
  BY <1>13
<1> QED
  BY <1>1, <1>2, <1>3, <1>4, <1>5, <1>6, <1>7, <1>8, <1>9, <1>10, <1>11,
     <1>12, <1>13 DEF Next, ServerNext, ClientNext

\* The initial state satisfies every part of the invariant.
LEMMA InitIInv == Init => IInv
BY MaxSendsAssumption DEF Init, IInv, Undelivered, HasRead, MayRead, TypeOK, PermitsConserved, MessagesConserved,
   NumbersOrdered, SlotFilled, NeverServesZeroedSlot, InLockstep, ClientBusy,
   ClientReading, ServerWaiting, ServerWriting, Tag, Zeroed, Parts,
   ServerPositions, ClientPositions

\* Every step preserves the inductive invariant.
LEMMA StepIInv == IInv /\ [Next]_vars => IInv'
<1> SUFFICES ASSUME IInv, [Next]_vars PROVE IInv'
  OBVIOUS
<1>1. TypeOK /\ TypeOK'
  BY TypeStep DEF IInv
<1>2. PermitsConserved'
  BY PermitsStep DEF IInv
<1>3. MessagesConserved'
  BY MessagesStep DEF IInv
<1>4. NumbersOrdered'
  BY NumbersStep DEF IInv
<1>5. SlotFilled'
  BY SlotFilledStep DEF IInv
<1>6. ASSUME gaveUp' = 0 PROVE InLockstep'
  BY <1>6, LockstepStep DEF IInv
<1> QED
  BY <1>1, <1>2, <1>3, <1>4, <1>5, <1>6 DEF IInv

\* The inductive invariant holds in every reachable state of every mode.
THEOREM InvariantCorrect == Spec => []IInv
BY InitIInv, StepIInv, PTL DEF Spec

\* TypeOK: the values of the state are of the right kind.
THEOREM TypeCorrect == Spec => []TypeOK
<1>1. IInv => TypeOK
  BY DEF IInv
<1> QED
  BY <1>1, InvariantCorrect, PTL

\* PermitsConserved: IpcServer::send, getMessage and sendReply lose and invent
\* no semaphore permit, timeouts included.
THEOREM ConservationCorrect == Spec => []PermitsConserved
<1>1. IInv => PermitsConserved
  BY DEF IInv
<1> QED
  BY <1>1, InvariantCorrect, PTL

\* MessagesConserved: for each message given to IpcServer::send there is one call
\* of the service, made or to come; the calls are given the messages, each at
\* most once and in order, and something else only where one was overwritten.
THEOREM MessagesCorrect == Spec => []MessagesConserved
<1>1. IInv => MessagesConserved
  BY DEF IInv
<1> QED
  BY <1>1, InvariantCorrect, PTL

\* NoSlotRace: as long as no wait has failed, FmuProxy and the FMU are never
\* inside the shared message slot together.
THEOREM SlotRaceFreedom == Spec => []NoSlotRace
<1>1. IInv => NoSlotRace
  BY DEF IInv, NoSlotRace, ServerInSlot, ClientInSlot, TypeOK, PermitsConserved,
     ClientBusy, ServerWaiting, ClientPositions, ServerPositions
<1> QED
  BY <1>1, InvariantCorrect, PTL

\* ServesNextMessageWhole: as long as no wait has failed, the service is
\* handed every message once, untorn and in the order of sending.
THEOREM ServiceCorrect == Spec => []ServesNextMessageWhole
<1>1. ASSUME IInv PROVE ServesNextMessageWhole
  <2> SUFFICES ASSUME gaveUp = 0, cpc = "serve"
               PROVE  got = [p \in Parts |-> Request(Len(given) + 1)]
    BY DEF ServesNextMessageWhole
  <2>1. Len(given) + 1 = sent
    BY <1>1 DEF IInv, TypeOK, PermitsConserved, MessagesConserved, ClientBusy,
       ClientReading, ServerWaiting, ServerWriting, ServerPositions
  <2>2. got \in [Parts -> Tag] /\ \A p \in Parts : got[p] = Request(sent)
    BY <1>1 DEF IInv, TypeOK, InLockstep
  <2> QED
    BY <2>1, <2>2
<1> QED
  BY <1>1, InvariantCorrect, PTL

\* ReplyAnswersCall: as long as no wait has failed, FmuProxy::send returns the
\* reply to the very call it was given.
THEOREM ReplyCorrect == Spec => []ReplyAnswersCall
<1>1. IInv => ReplyAnswersCall
  BY DEF IInv, InLockstep, ReplyAnswersCall
<1> QED
  BY <1>1, InvariantCorrect, PTL

\* NeverServesZeroedSlot: the zeroed segment is never taken for a message,
\* whatever the timeouts.
THEOREM NoZeroedMessage == Spec => []NeverServesZeroedSlot
<1>1. IInv => NeverServesZeroedSlot
  BY DEF IInv, SlotFilled
<1> QED
  BY <1>1, InvariantCorrect, PTL

\* A step of the channel is a step of the delivery it implements, or nothing
\* the sender can see.
LEMMA DeliveryStep ==
    ASSUME IInv, [Next]_vars PROVE [D!Next]_D!deliveryVars
<1> USE DEF D!deliveryVars
<1>1. /\ gaveUp = 0 => InLockstep
      /\ PermitsConserved /\ NumbersOrdered
      /\ Len(given) + avail + ClientReading + ServerWriting = sent
      /\ sent \in Nat /\ Len(given) \in Nat /\ gaveUp \in Nat
      /\ avail \in Nat /\ signal \in Nat
      /\ spc \in ServerPositions /\ cpc \in ClientPositions
  BY MaxSendsAssumption DEF IInv, TypeOK, MessagesConserved
<1>2. CASE SendBegin
  BY <1>2 DEF SendBegin, clientVars, D!Next, D!Send
<1>3. CASE Serve
  <2>1. CASE gaveUp = 0
    <3>1. spc = "wait" /\ Len(given) = sent - 1
      BY <1>1, <1>3, <2>1 DEF Serve, PermitsConserved,
         ClientBusy, ClientReading, ServerWaiting, ServerWriting
    <3>2. Number(got) = sent
      BY <1>1, <1>3, <2>1 DEF Serve, InLockstep, Parts, Request, Number, Message
    <3> QED
      BY <1>3, <2>1, <3>1, <3>2 DEF Serve, serverVars, D!Next, D!DeliverNext
  <2>2. CASE gaveUp > 0
    <3>1. Len(given) < sent
      BY <1>1, <1>3 DEF Serve, ClientReading, ServerWriting
    <3>2. Number(got) = 0 \/ Undelivered(Number(got))
      BY <1>1, <1>3 DEF Serve, NumbersOrdered, HasRead, Number, Message, Torn
    <3> QED
      BY <1>3, <2>2, <3>1, <3>2
         DEF Serve, serverVars, Undelivered, D!Next, D!DeliverLate, D!MakeUp
  <2> QED
    BY <1>1, <2>1, <2>2
<1>4. ASSUME spc \in {"wait", "parse"}, spc' = "idle", spc = "wait" => signal > 0,
             UNCHANGED <<sent, given, gaveUp>>
      PROVE  D!Next
  <2>1. gaveUp = 0 => Len(given) = sent
    BY <1>1, <1>4 DEF PermitsConserved,
       ClientBusy, ClientReading, ServerWaiting, ServerWriting, ClientPositions
  <2> QED
    BY <1>1, <1>4, <2>1 DEF D!Next, D!Answered
<1>5. CASE WaitSignal
  <2>1. CASE spc' = "idle"
    BY <1>4, <1>5, <2>1 DEF WaitSignal, clientVars
  <2>2. CASE spc' = "parse"
    BY <1>5, <2>2 DEF WaitSignal, clientVars
  <2> QED
    BY <1>5, <2>1, <2>2 DEF WaitSignal
<1>6. CASE GiveUpWait
  BY <1>1, <1>6 DEF GiveUpWait, clientVars, D!Next, D!ReturnWithout
<1>7. CASE Parse
  BY <1>4, <1>7 DEF Parse, clientVars
<1>8. CASE SendWrite \/ PostAvail
  BY <1>8 DEF SendWrite, PostAvail, clientVars
<1>9. CASE GetMessage \/ ReadCmd \/ ReadSize \/ ReadBody \/ WriteReply \/ PostSignal
           \/ UNCHANGED vars
  BY <1>9 DEF GetMessage, ReadCmd, ReadSize, ReadBody, WriteReply, PostSignal, vars,
     serverVars, clientVars
<1> QED
  BY <1>2, <1>3, <1>5, <1>6, <1>7, <1>8, <1>9 DEF Next, ServerNext, ClientNext

\* ImplementsDelivery: in every mode, what IpcServer::send is given reaches the
\* service once and before send returns, until a wait fails; then it may be
\* late, or lost with something nobody sent in its place, but it comes neither
\* twice nor after a newer message.
THEOREM ChannelDelivers == Spec => ImplementsDelivery
<1>1. Init => D!Init
  BY DEF Init, D!Init
<1>2. IInv /\ [Next]_vars => [D!Next]_D!deliveryVars
  BY DeliveryStep
<1> QED
  BY <1>1, <1>2, InvariantCorrect, PTL DEF Spec, ImplementsDelivery, D!Safe

LEMMA PartsFinite == IsFiniteSet(Parts) /\ Cardinality(Parts) = 3
<1>1. IsFiniteSet({"cmd"}) /\ Cardinality({"cmd"}) = 1
  BY FS_Singleton
<1>2. /\ IsFiniteSet({"cmd"} \cup {"size"})
      /\ Cardinality({"cmd"} \cup {"size"}) = 2
  BY <1>1, FS_AddElement
<1>3. /\ IsFiniteSet(({"cmd"} \cup {"size"}) \cup {"body"})
      /\ Cardinality(({"cmd"} \cup {"size"}) \cup {"body"}) = 3
  BY <1>2, FS_AddElement
<1>4. ({"cmd"} \cup {"size"}) \cup {"body"} = Parts
  BY DEF Parts
<1> QED
  BY <1>3, <1>4

\* Copying one more part leaves one less.
LEMMA PartCopied ==
    ASSUME NEW s \in SUBSET Parts, NEW p \in s
    PROVE  /\ Cardinality(s) \in Nat /\ Cardinality(s) > 0
           /\ Cardinality(s \ {p}) = Cardinality(s) - 1
<1>1. IsFiniteSet(s)
  BY PartsFinite, FS_Subset
<1>2. Cardinality(s) \in Nat
  BY <1>1, FS_CardinalityType
<1>3. s # {}
  OBVIOUS
<1>4. Cardinality(s) # 0
  BY <1>1, <1>3, FS_EmptySet
<1>5. Cardinality(s \ {p}) = IF p \in s THEN Cardinality(s) - 1 ELSE Cardinality(s)
  BY <1>1, FS_RemoveElement
<1> QED
  BY <1>2, <1>4, <1>5

\* What is left is a number of steps.
LEMMA LeftType ==
    ASSUME TypeOK PROVE ServerLeft \in Nat /\ ClientLeft \in Nat
<1>1. /\ swr \in SUBSET Parts /\ cwr \in SUBSET Parts
      /\ spc \in ServerPositions /\ cpc \in ClientPositions
  BY DEF TypeOK
<1>2. \A s \in SUBSET Parts : Cardinality(s) \in Nat
  <2> SUFFICES ASSUME NEW s \in SUBSET Parts PROVE Cardinality(s) \in Nat
    OBVIOUS
  <2>1. CASE s = {}
    BY <2>1, FS_EmptySet
  <2>2. CASE s # {}
    BY <2>2, PartCopied
  <2> QED
    BY <2>1, <2>2
<1>3. ServerLeft \in Nat
  BY <1>1, <1>2 DEF ServerLeft, ServerPositions
<1>4. ClientLeft \in Nat
  BY <1>1, <1>2 DEF ClientLeft, ClientPositions
<1> QED
  BY <1>3, <1>4

\* A side's step counts for as much in the whole.
LEMMA LessWork ==
    \A a, b, c, d, n \in Nat :
        9 * a + b < 9 * c + d => /\ 9 * a + n + b < 9 * c + n + d
                                 /\ 9 * a + b + n < 9 * c + d + n
OBVIOUS

\* Every step but a new send is one of those that were left.
LEMMA WorkStep == ASSUME TypeOK, Next, ~SendBegin PROVE Work' < Work
<1>1. /\ avail \in Nat /\ swr \in SUBSET Parts /\ cwr \in SUBSET Parts
      /\ ServerLeft \in Nat /\ ClientLeft \in Nat
  BY LeftType DEF TypeOK
<1>2. ASSUME UNCHANGED clientVars, 9 * avail' + ServerLeft' < 9 * avail + ServerLeft,
             avail' \in Nat, ServerLeft' \in Nat
      PROVE  Work' < Work
  <2>1. ClientLeft' = ClientLeft
    BY <1>2 DEF clientVars, ClientLeft
  <2> QED
    BY <1>1, <1>2, <2>1, LessWork DEF Work
<1>3. ASSUME UNCHANGED serverVars, 9 * avail' + ClientLeft' < 9 * avail + ClientLeft,
             avail' \in Nat, ClientLeft' \in Nat
      PROVE  Work' < Work
  <2>1. ServerLeft' = ServerLeft
    BY <1>3 DEF serverVars, ServerLeft
  <2> QED
    BY <1>1, <1>3, <2>1, LessWork DEF Work
<1>4. CASE SendWrite
  <2>1. PICK p \in swr : swr' = swr \ {p}
    BY <1>4 DEF SendWrite
  <2>2. /\ Cardinality(swr) \in Nat /\ Cardinality(swr) > 0
        /\ Cardinality(swr') = Cardinality(swr) - 1
    BY <1>1, <2>1, PartCopied
  <2>3. ServerLeft = 12 + Cardinality(swr)
    BY <1>4 DEF SendWrite, ServerLeft
  <2>4. ServerLeft' \in {12, 12 + Cardinality(swr')}
    BY <1>4 DEF SendWrite, ServerLeft
  <2>5. avail' = avail /\ UNCHANGED clientVars
    BY <1>4 DEF SendWrite
  <2> QED
    BY <1>1, <1>2, <2>2, <2>3, <2>4, <2>5
<1>5. CASE PostAvail
  <2>1. ServerLeft = 12 /\ ServerLeft' = 2 /\ avail' = avail + 1 /\ UNCHANGED clientVars
    BY <1>5 DEF PostAvail, ServerLeft
  <2> QED
    BY <1>1, <1>2, <2>1
<1>6. CASE WaitSignal
  <2>1. ServerLeft = 2 /\ avail' = avail /\ UNCHANGED clientVars
    BY <1>6 DEF WaitSignal, ServerLeft
  <2>2. ServerLeft' = 0 \/ ServerLeft' = 1
    BY <1>6 DEF WaitSignal, ServerLeft
  <2> QED
    BY <1>1, <1>2, <2>1, <2>2
<1>7. CASE GiveUpWait
  <2>1. ServerLeft = 2 /\ ServerLeft' = 0 /\ avail' = avail /\ UNCHANGED clientVars
    BY <1>7 DEF GiveUpWait, ServerLeft, slotVars
  <2> QED
    BY <1>1, <1>2, <2>1
<1>8. CASE Parse
  <2>1. ServerLeft = 1 /\ ServerLeft' = 0 /\ avail' = avail /\ UNCHANGED clientVars
    BY <1>8 DEF Parse, ServerLeft, slotVars
  <2> QED
    BY <1>1, <1>2, <2>1
<1>9. CASE GetMessage
  <2>1. /\ ClientLeft = 0 /\ ClientLeft' = 8 /\ avail > 0 /\ avail' = avail - 1
        /\ UNCHANGED serverVars
    BY <1>9 DEF GetMessage, ClientLeft
  <2> QED
    BY <1>1, <1>3, <2>1
<1>10. CASE ReadCmd
  <2>1. ClientLeft = 8 /\ ClientLeft' = 7 /\ avail' = avail /\ UNCHANGED serverVars
    BY <1>10 DEF ReadCmd, ClientLeft, slotVars
  <2> QED
    BY <1>1, <1>3, <2>1
<1>11. CASE ReadSize
  <2>1. ClientLeft = 7 /\ ClientLeft' = 6 /\ avail' = avail /\ UNCHANGED serverVars
    BY <1>11 DEF ReadSize, ClientLeft, slotVars
  <2> QED
    BY <1>1, <1>3, <2>1
<1>12. CASE ReadBody
  <2>1. ClientLeft = 6 /\ ClientLeft' = 5 /\ avail' = avail /\ UNCHANGED serverVars
    BY <1>12 DEF ReadBody, ClientLeft, slotVars
  <2> QED
    BY <1>1, <1>3, <2>1
<1>13. CASE Serve
  <2>1. Cardinality(Parts) = 3
    BY PartsFinite
  <2>2. ClientLeft = 5
    BY <1>13 DEF Serve, ClientLeft
  <2>3. ClientLeft' = 1 + Cardinality(Parts)
    BY <1>13 DEF Serve, ClientLeft
  <2>4. avail' = avail /\ UNCHANGED serverVars
    BY <1>13 DEF Serve, slotVars
  <2> QED
    BY <1>1, <1>3, <2>1, <2>2, <2>3, <2>4
<1>14. CASE WriteReply
  <2>1. PICK p \in cwr : cwr' = cwr \ {p}
    BY <1>14 DEF WriteReply
  <2>2. /\ Cardinality(cwr) \in Nat /\ Cardinality(cwr) > 0
        /\ Cardinality(cwr') = Cardinality(cwr) - 1
    BY <1>1, <2>1, PartCopied
  <2>3. ClientLeft = 1 + Cardinality(cwr)
    BY <1>14 DEF WriteReply, ClientLeft
  <2>4. ClientLeft' = IF cwr' = {} THEN 1 ELSE 1 + Cardinality(cwr')
    BY <1>14 DEF WriteReply, ClientLeft
  <2>5. avail' = avail /\ UNCHANGED serverVars
    BY <1>14 DEF WriteReply
  <2> QED
    BY <1>1, <1>3, <2>2, <2>3, <2>4, <2>5
<1>15. CASE PostSignal
  <2>1. ClientLeft = 1 /\ ClientLeft' = 0 /\ avail' = avail /\ UNCHANGED serverVars
    BY <1>15 DEF PostSignal, ClientLeft
  <2> QED
    BY <1>1, <1>3, <2>1
<1> QED
  BY <1>4, <1>5, <1>6, <1>7, <1>8, <1>9, <1>10, <1>11, <1>12, <1>13, <1>14, <1>15
     DEF Next, ServerNext, ClientNext

\* WorkRunsOut: in every mode, and however many permits failed waits have left,
\* the two sides of a channel come to rest unless somebody sends.
THEOREM ChannelQuiets == Spec => WorkRunsOut
<1>1. IInv /\ [Next]_vars => [SendBegin \/ Work' < Work]_vars
  BY WorkStep DEF IInv
<1> QED
  BY <1>1, InvariantCorrect, PTL DEF Spec, WorkRunsOut

-----------------------------------------------------------------------------
(* A send returns.                                                         *)

\* ServerFairness, with the guards written out.
ServerRuns ==
    /\ WeaklyFair(spc = "write" /\ swr # {}, SendWrite, vars)
    /\ WeaklyFair(spc = "post", PostAvail, vars)
    /\ WeaklyFair(spc = "wait" /\ (signal > 0 \/ GiveUp), WaitSignal \/ GiveUpWait, vars)
    /\ WeaklyFair(spc = "parse", Parse, vars)

\* Whoever writes has a part left to write.
CopiesLeft == (spc = "write" => swr # {}) /\ (cpc = "write" => cwr # {})

LEMMA AlwaysCopiesLeft == Spec => []CopiesLeft
<1>1. Init => CopiesLeft
  BY DEF Init, CopiesLeft
<1>2. CopiesLeft /\ [Next]_vars => CopiesLeft'
  BY DEF CopiesLeft, Parts, Next, ServerNext, ClientNext, SendBegin, SendWrite,
     PostAvail, WaitSignal, GiveUpWait, Parse, GetMessage, ReadCmd, ReadSize, ReadBody,
     Serve, WriteReply, PostSignal, vars, slotVars, serverVars, clientVars
<1> QED
  BY <1>1, <1>2, PTL DEF Spec

\* Only one part is left.
LastOf(s) == \E p \in Parts : s = {p}

\* Copying the parts takes three steps.
LEMMA CopyCounts ==
    ASSUME NEW s \in SUBSET Parts, NEW p \in s
    PROVE  /\ s \ {p} # Parts
           /\ LastOf(s) => s \ {p} = {}
           /\ s # Parts => s \ {p} = {} \/ LastOf(s \ {p})
<1>1. s \ {p} # Parts
  OBVIOUS
<1>2. LastOf(s) => s \ {p} = {}
  BY DEF LastOf
<1>3. ASSUME s # Parts, s \ {p} # {} PROVE LastOf(s \ {p})
  <2>1. PICK q \in Parts : q \in s \ {p}
    BY <1>3
  <2>2. PICK r \in Parts : r \notin s
    BY <1>3
  <2>3. s \ {p} = {q}
    BY <2>1, <2>2 DEF Parts
  <2> QED
    BY <2>3 DEF LastOf
<1> QED
  BY <1>1, <1>2, <1>3

\* A send copies its message part by part, and then waits.
LEMMA SendWaits ==
    Spec /\ ServerRuns => (spc \in {"write", "post"} ~> spc = "wait")
<1> DEFINE All == spc = "write" /\ swr = Parts
           Two == spc = "write" /\ swr # Parts /\ ~LastOf(swr)
           One == spc = "write" /\ LastOf(swr)
           Posting == spc = "post"
           Waiting == spc = "wait"
<1>1. ASSUME TypeOK, SendWrite
      PROVE  /\ All => Two' \/ One' \/ Posting'
             /\ Two => One' \/ Posting'
             /\ One => Posting'
  <2>1. PICK p \in swr : swr' = swr \ {p}
    BY <1>1 DEF SendWrite
  <2>2. /\ swr' # Parts
        /\ LastOf(swr) => swr' = {}
        /\ swr # Parts => swr' = {} \/ LastOf(swr')
    BY <1>1, <2>1, CopyCounts DEF TypeOK
  <2>3. spc' = IF swr' = {} THEN "post" ELSE "write"
    BY <1>1 DEF SendWrite
  <2>4. ~(All /\ One)
    <3>1. "cmd" \in Parts /\ "size" \in Parts
      BY DEF Parts
    <3> QED
      BY <3>1 DEF LastOf
  <2> QED
    BY <2>2, <2>3, <2>4
<1>2. ASSUME TypeOK, [Next]_vars, ~SendWrite
      PROVE  /\ All => All'
             /\ Two => Two'
             /\ One => One'
             /\ Posting => Posting' \/ Waiting'
  BY <1>2 DEF LastOf, Next, ServerNext, ClientNext, SendBegin, PostAvail,
     WaitSignal, GiveUpWait, Parse, GetMessage, ReadCmd, ReadSize, ReadBody, Serve,
     WriteReply, PostSignal, vars, slotVars, serverVars, clientVars
<1>3. ASSUME SendWrite PROVE ~Posting
  BY <1>3 DEF SendWrite
<1>4. PostAvail => Waiting'
  BY DEF PostAvail
<1>5. CopiesLeft /\ (All \/ Two \/ One) => spc = "write" /\ swr # {}
  BY DEF CopiesLeft
<1>6. spc \in {"write", "post"} => All \/ Two \/ One \/ Posting
  OBVIOUS
<1>7. IInv => TypeOK
  BY DEF IInv
<1> HIDE DEF All, Two, One
<1> QED
  BY <1>1, <1>2, <1>3, <1>4, <1>5, <1>6, <1>7, InvariantCorrect, AlwaysCopiesLeft, PTL
     DEF Spec, ServerRuns, WeaklyFair

\* Once its wait can end, a send returns.
LEMMA WaitReturns ==
    Spec /\ ServerRuns =>
        (spc = "parse" \/ (spc = "wait" /\ (signal > 0 \/ GiveUp)) ~> spc = "idle")
<1> DEFINE Answered == spc = "wait" /\ (signal > 0 \/ GiveUp)
           Parsing == spc = "parse"
           Idle == spc = "idle"
<1>1. TypeOK /\ [Next]_vars =>
        /\ Answered => Answered' \/ Parsing' \/ Idle'
        /\ Parsing => Parsing' \/ Idle'
  BY DEF TypeOK, Next, ServerNext, ClientNext, SendBegin, SendWrite, PostAvail,
     WaitSignal, GiveUpWait, Parse, GetMessage, ReadCmd, ReadSize, ReadBody, Serve,
     WriteReply, PostSignal, vars, slotVars, serverVars, clientVars
<1>2. /\ Answered /\ (WaitSignal \/ GiveUpWait) => Parsing' \/ Idle'
      /\ Parsing /\ Parse => Idle'
  BY DEF WaitSignal, GiveUpWait, Parse
<1>3. IInv => TypeOK
  BY DEF IInv
<1> QED
  BY <1>1, <1>2, <1>3, InvariantCorrect, PTL DEF Spec, ServerRuns, WeaklyFair

\* EverySendReturns, of the log channel: a send whose wait has a timeout comes
\* to its end by the server's steps alone, whatever the client does or leaves
\* undone.
THEOREM SendReturns ==
    ASSUME GiveUp PROVE Spec /\ ServerRuns => EverySendReturns
<1>1. TypeOK =>
        \/ spc = "idle" \/ spc \in {"write", "post"}
        \/ spc = "parse" \/ (spc = "wait" /\ (signal > 0 \/ GiveUp))
  BY DEF TypeOK, ServerPositions
<1>2. spc = "wait" => spc = "parse" \/ (spc = "wait" /\ (signal > 0 \/ GiveUp))
  OBVIOUS
<1>3. IInv => TypeOK
  BY DEF IInv
<1> QED
  BY <1>1, <1>2, <1>3, InvariantCorrect, SendWaits, WaitReturns, PTL DEF EverySendReturns

-----------------------------------------------------------------------------
(* A message is served.                                                    *)

\* ClientFairness, with the guard written out.
ClientCanMove == (cpc = "poll" => avail > 0) /\ (cpc = "write" => cwr # {})
ClientRuns == WeaklyFair(ClientCanMove, ClientNext, vars)

\* The service has been called k times and there is one more call to come;
\* the client is there.
AtMessage(k, there) ==
    Len(given) = k /\ (avail > 0 \/ ClientReading = 1) /\ cpc = there

\* What is left of the reply to the message before.
Replying(k, parts) ==
    /\ AtMessage(k, "write")
    /\ CASE parts = 3 -> cwr = Parts
         [] parts = 2 -> cwr # Parts /\ ~LastOf(cwr)
         [] parts = 1 -> LastOf(cwr)

\* On its way to the next message the client loses nothing and goes nowhere
\* else.
LEMMA MessageStep ==
    ASSUME NEW k \in Nat, TypeOK, [Next]_vars, ~WriteReply
    PROVE  /\ Replying(k, 3) => Replying(k, 3)'
           /\ Replying(k, 2) => Replying(k, 2)'
           /\ Replying(k, 1) => Replying(k, 1)'
           /\ AtMessage(k, "post") => AtMessage(k, "post")' \/ AtMessage(k, "poll")'
           /\ AtMessage(k, "poll") => AtMessage(k, "poll")' \/ AtMessage(k, "cmd")'
           /\ AtMessage(k, "cmd") => AtMessage(k, "cmd")' \/ AtMessage(k, "size")'
           /\ AtMessage(k, "size") => AtMessage(k, "size")' \/ AtMessage(k, "body")'
           /\ AtMessage(k, "body") => AtMessage(k, "body")' \/ AtMessage(k, "serve")'
           /\ AtMessage(k, "serve") => AtMessage(k, "serve")' \/ (Len(given) > k)'
<1>1. avail \in Nat /\ Len(given) \in Nat
  BY DEF TypeOK
<1> USE <1>1 DEF Replying, LastOf, AtMessage, ClientReading
<1>2. CASE SendBegin \/ SendWrite \/ WaitSignal \/ GiveUpWait \/ Parse \/ UNCHANGED vars
  BY <1>2 DEF SendBegin, SendWrite, WaitSignal, GiveUpWait, Parse,
     vars, slotVars, serverVars, clientVars
<1>3. CASE PostAvail
  BY <1>3 DEF PostAvail, clientVars
<1>4. CASE GetMessage \/ ReadCmd \/ ReadSize \/ ReadBody
  BY <1>4 DEF GetMessage, ReadCmd, ReadSize, ReadBody, slotVars, serverVars
<1>5. CASE Serve
  <2>1. Len(given') = Len(given) + 1
    BY <1>5, GivenOneMore
  <2> QED
    BY <1>5, <2>1 DEF Serve
<1>6. CASE PostSignal
  BY <1>6 DEF PostSignal
<1> QED
  BY <1>2, <1>3, <1>4, <1>5, <1>6 DEF Next, ServerNext, ClientNext

\* Copying the reply takes it on, too.
LEMMA ReplyMove ==
    ASSUME NEW k \in Nat, TypeOK, WriteReply
    PROVE  /\ Replying(k, 3) => Replying(k, 2)' \/ Replying(k, 1)' \/ AtMessage(k, "post")'
           /\ Replying(k, 2) => Replying(k, 1)' \/ AtMessage(k, "post")'
           /\ Replying(k, 1) => AtMessage(k, "post")'
           /\ \A p \in ClientPositions \ {"write"} : ~AtMessage(k, p)
<1>1. PICK p \in cwr : cwr' = cwr \ {p}
  BY DEF WriteReply
<1>2. /\ cwr' # Parts
      /\ LastOf(cwr) => cwr' = {}
      /\ cwr # Parts => cwr' = {} \/ LastOf(cwr')
  BY <1>1, CopyCounts DEF TypeOK
<1>3. /\ cpc = "write" /\ cpc' = IF cwr' = {} THEN "post" ELSE "write"
      /\ UNCHANGED <<avail, given>>
  BY DEF WriteReply
<1>4. AtMessage(k, "write") => avail > 0
  BY DEF AtMessage, ClientReading
<1> QED
  BY <1>2, <1>3, <1>4 DEF Replying, AtMessage

\* A step of the client takes it on.
LEMMA MessageMove ==
    ASSUME NEW k \in Nat, TypeOK, ClientNext, ~WriteReply
    PROVE  /\ ~AtMessage(k, "write")
           /\ \A p \in ClientPositions : ~(AtMessage(k, p) /\ AtMessage(k, p)')
<1>1. cpc # "write" /\ cpc' # cpc
  BY DEF ClientNext, GetMessage, ReadCmd, ReadSize, ReadBody, Serve, PostSignal
<1> QED
  BY <1>1 DEF AtMessage

\* A client that keeps running serves the next message there is for it,
\* however many waits have failed: message by message, EveryMessageServed.
THEOREM NextMessageServed ==
    ASSUME NEW k \in Nat
    PROVE  Spec /\ ClientRuns =>
             (Len(given) = k /\ sent > k /\ spc = "wait" ~> Len(given) > k)
<1>1. TypeOK /\ [Next]_vars /\ ~WriteReply =>
        /\ Replying(k, 3) => Replying(k, 3)'
        /\ Replying(k, 2) => Replying(k, 2)'
        /\ Replying(k, 1) => Replying(k, 1)'
        /\ AtMessage(k, "post") => AtMessage(k, "post")' \/ AtMessage(k, "poll")'
        /\ AtMessage(k, "poll") => AtMessage(k, "poll")' \/ AtMessage(k, "cmd")'
        /\ AtMessage(k, "cmd") => AtMessage(k, "cmd")' \/ AtMessage(k, "size")'
        /\ AtMessage(k, "size") => AtMessage(k, "size")' \/ AtMessage(k, "body")'
        /\ AtMessage(k, "body") => AtMessage(k, "body")' \/ AtMessage(k, "serve")'
        /\ AtMessage(k, "serve") => AtMessage(k, "serve")' \/ (Len(given) > k)'
  BY MessageStep
<1>2. TypeOK /\ WriteReply =>
        /\ Replying(k, 3) => Replying(k, 2)' \/ Replying(k, 1)' \/ AtMessage(k, "post")'
        /\ Replying(k, 2) => Replying(k, 1)' \/ AtMessage(k, "post")'
        /\ Replying(k, 1) => AtMessage(k, "post")'
        /\ ~AtMessage(k, "post") /\ ~AtMessage(k, "poll") /\ ~AtMessage(k, "cmd")
        /\ ~AtMessage(k, "size") /\ ~AtMessage(k, "body") /\ ~AtMessage(k, "serve")
  BY ReplyMove DEF ClientPositions
<1>3. TypeOK /\ ClientNext /\ ~WriteReply =>
        /\ ~Replying(k, 3) /\ ~Replying(k, 2) /\ ~Replying(k, 1)
        /\ ~(AtMessage(k, "post") /\ AtMessage(k, "post")')
        /\ ~(AtMessage(k, "poll") /\ AtMessage(k, "poll")')
        /\ ~(AtMessage(k, "cmd") /\ AtMessage(k, "cmd")')
        /\ ~(AtMessage(k, "size") /\ AtMessage(k, "size")')
        /\ ~(AtMessage(k, "body") /\ AtMessage(k, "body")')
        /\ ~(AtMessage(k, "serve") /\ AtMessage(k, "serve")')
  BY MessageMove DEF ClientPositions, Replying
<1>4. CopiesLeft =>
        /\ Replying(k, 3) \/ Replying(k, 2) \/ Replying(k, 1) => ClientCanMove
        /\ AtMessage(k, "post") \/ AtMessage(k, "poll") => ClientCanMove
        /\ AtMessage(k, "cmd") \/ AtMessage(k, "size") => ClientCanMove
        /\ AtMessage(k, "body") \/ AtMessage(k, "serve") => ClientCanMove
  BY DEF Replying, AtMessage, ClientReading, CopiesLeft, ClientCanMove
<1>5. IInv /\ Len(given) = k /\ sent > k /\ spc = "wait" =>
        \/ Replying(k, 3) \/ Replying(k, 2) \/ Replying(k, 1)
        \/ AtMessage(k, "post") \/ AtMessage(k, "poll") \/ AtMessage(k, "cmd")
        \/ AtMessage(k, "size") \/ AtMessage(k, "body") \/ AtMessage(k, "serve")
  BY DEF IInv, TypeOK, MessagesConserved, ClientReading, ServerWriting,
     ClientPositions, Replying, AtMessage
<1>6. IInv => TypeOK
  BY DEF IInv
<1> QED
  BY <1>1, <1>2, <1>3, <1>4, <1>5, <1>6, InvariantCorrect, AlwaysCopiesLeft, PTL
     DEF Spec, ClientRuns, WeaklyFair
=============================================================================
