----------------------------- MODULE IpcChannel -----------------------------
(***************************************************************************)
(* One shared memory channel of libshmipc: a segment that holds a single   *)
(* message slot (SharedFmiMemory.message), the counting semaphores         *)
(* "avail" and "signal", an IpcServer that sends and waits for the reply,  *)
(* and an IpcClient that polls, serves and replies.  Request and reply     *)
(* travel in the SAME slot, without a lock and without a sequence number.  *)
(*                                                                         *)
(* The repository uses the channel twice.                                  *)
(*   command channel: server = FmuProxy in the co-simulation engine, which *)
(*     waits INFINITE and parses the reply out of the slot; client = the   *)
(*     thread of ProtocolDriver in the FMU's JVM.                          *)
(*   log channel: server = SharedMemoryServer in the FMU's JVM, which      *)
(*     waits 20 ms, gives up and ignores the reply's content; client =     *)
(*     callbackThreadFunc in the co-simulation engine.                     *)
(* Both channels are connected when the specification starts: NamedIpc     *)
(* models how the two ends find the segment and the semaphores.            *)
(***************************************************************************)
EXTENDS Naturals, FiniteSets, Sequences

CONSTANTS
    MaxSends,      \* bound on the number of sends
    GiveUp,        \* does the server's wait have a timeout?
    ParsesReply    \* does the server read the reply out of the slot?

ASSUME MaxSendsAssumption == MaxSends \in Nat
ASSUME ModeAssumption == GiveUp \in BOOLEAN /\ ParsesReply \in BOOLEAN

VARIABLES
    slot,     \* the message in shared memory, part by part
    avail,    \* semaphore the server posts: a message is available
    signal,   \* semaphore the client posts: the reply is in the slot
    spc,      \* the server's position in IpcServer::send and its caller
    swr,      \* the parts the server's struct assignment has still to copy
    sent,     \* number of the latest message given to send
    gaveUp,   \* how many waits have ended without the reply
    answer,   \* what the server's caller last took for its reply
    cpc,      \* the client's position in its polling loop
    cwr,      \* the parts the client's struct assignment has still to copy
    got,      \* what the client has read of the message, part by part
    given     \* what the client has handed to the service, call by call

slotVars == <<slot, avail, signal>>
serverVars == <<spc, swr, sent, gaveUp, answer>>
clientVars == <<cpc, cwr, got, given>>
vars == <<slotVars, serverVars, clientVars>>

(***************************************************************************)
(* A message is 10 kB: writing it is no atomic step, and neither is        *)
(* reading it, which both clients do in place.  Its command, its size and  *)
(* its body are enough to tell a whole message from a torn one.  What a    *)
(* part contains is abstracted to who wrote it and to the number of the    *)
(* send it belongs to; a reply has the number of what it answers.  All     *)
(* messages of the log channel, replies included, have one command, so it  *)
(* is size and body that say which message it is.                          *)
(***************************************************************************)
Parts == {"cmd", "size", "body"}
Tag == [by : {"zero", "server", "client", "torn"}, id : 0..MaxSends]

Zeroed == [by |-> "zero", id |-> 0]
Torn == [by |-> "torn", id |-> 0]
Request(n) == [by |-> "server", id |-> n]
Reply(n) == [by |-> "client", id |-> n]

\* The message that the parts m make up when they are parsed.
Message(m) == IF m["size"] = m["body"] THEN m["body"] ELSE Torn

ServerPositions == {"idle", "write", "post", "wait", "parse"}
ClientPositions == {"poll", "cmd", "size", "body", "serve", "write", "post"}

Init ==
    /\ slot = [p \in Parts |-> Zeroed]
    /\ avail = 0 /\ signal = 0
    /\ spc = "idle" /\ swr = {} /\ sent = 0 /\ gaveUp = 0 /\ answer = Zeroed
    /\ cpc = "poll" /\ cwr = {} /\ got = [p \in Parts |-> Zeroed]
    /\ given = <<>>

-----------------------------------------------------------------------------
(* The server: IpcServer::send and what its caller does with the result.   *)

SendBegin ==
    /\ spc = "idle" /\ sent < MaxSends
    /\ spc' = "write" /\ swr' = Parts /\ sent' = sent + 1
    /\ UNCHANGED <<slotVars, gaveUp, answer, clientVars>>

\* Fault: the avail semaphore is posted with a part of the message written.
SendWriteStopsShort ==
    /\ spc = "write"
    /\ \E p \in swr : slot' = [slot EXCEPT ![p] = Request(sent)]
    /\ swr' = {} /\ spc' = "post"
    /\ UNCHANGED <<avail, signal, sent, gaveUp, answer, clientVars>>

\* this->m_pBuf->message = *message, in whatever order the copy proceeds.
SendWrite ==
    /\ spc = "write"
    /\ \E p \in swr :
        /\ slot' = [slot EXCEPT ![p] = Request(sent)]
        /\ swr' = swr \ {p}
    /\ spc' = IF swr' = {} THEN "post" ELSE "write"
    /\ UNCHANGED <<avail, signal, sent, gaveUp, answer, clientVars>>

\* Fault: avail is an event, which remembers one post at most.
PostAvailCoalesced ==
    /\ spc = "post"
    /\ avail' = 1
    /\ spc' = "wait"
    /\ UNCHANGED <<slot, signal, swr, sent, gaveUp, answer, clientVars>>

PostAvail ==
    /\ spc = "post"
    /\ avail' = avail + 1
    /\ spc' = "wait"
    /\ UNCHANGED <<slot, signal, swr, sent, gaveUp, answer, clientVars>>

\* Fault: the result of signalWait is not looked at.
WaitSignalUnchecked ==
    /\ spc = "wait"
    /\ signal' = IF signal > 0 THEN signal - 1 ELSE 0
    /\ spc' = IF ParsesReply THEN "parse" ELSE "idle"
    /\ UNCHANGED <<slot, avail, swr, sent, gaveUp, answer, clientVars>>

\* The wait succeeds: send returns a pointer into the slot.
WaitSignal ==
    /\ spc = "wait" /\ signal > 0
    /\ signal' = signal - 1
    /\ spc' = IF ParsesReply THEN "parse" ELSE "idle"
    /\ UNCHANGED <<slot, avail, swr, sent, gaveUp, answer, clientVars>>

\* Fault: a wait that timed out is simply started again.
GiveUpWaitRetries ==
    /\ GiveUp /\ spc = "wait"
    /\ UNCHANGED vars

\* The wait times out (or is refused, or interrupted): send returns NULL.
\* A permit may be there: it may come in the last moment, and a deadline that
\* is not valid is refused before the semaphore is looked at (TimedWait).
GiveUpWait ==
    /\ GiveUp /\ spc = "wait"
    /\ gaveUp' = gaveUp + 1
    /\ spc' = "idle"
    /\ UNCHANGED <<slotVars, swr, sent, answer, clientVars>>

\* FmuProxy::send parses the body in the slot as the reply it expects.
Parse ==
    /\ spc = "parse"
    /\ answer' = Message(slot)
    /\ spc' = "idle"
    /\ UNCHANGED <<slotVars, swr, sent, gaveUp, clientVars>>

-----------------------------------------------------------------------------
(* The client: getMessage, the service, sendReply.                         *)

\* Fault: avail is a manual-reset event, which getMessage does not reset.
GetMessageKeepsPermit ==
    /\ cpc = "poll" /\ avail > 0
    /\ cpc' = "cmd"
    /\ UNCHANGED <<slotVars, serverVars, cwr, got, given>>

\* A poll that times out leaves everything as it is: a stuttering step.
GetMessage ==
    /\ cpc = "poll" /\ avail > 0
    /\ avail' = avail - 1
    /\ cpc' = "cmd"
    /\ UNCHANGED <<slot, signal, serverVars, cwr, got, given>>

ReadCmd ==
    /\ cpc = "cmd"
    /\ got' = [got EXCEPT !["cmd"] = slot["cmd"]]
    /\ cpc' = "size"
    /\ UNCHANGED <<slotVars, serverVars, cwr, given>>

ReadSize ==
    /\ cpc = "size"
    /\ got' = [got EXCEPT !["size"] = slot["size"]]
    /\ cpc' = "body"
    /\ UNCHANGED <<slotVars, serverVars, cwr, given>>

ReadBody ==
    /\ cpc = "body"
    /\ got' = [got EXCEPT !["body"] = slot["body"]]
    /\ cpc' = "serve"
    /\ UNCHANGED <<slotVars, serverVars, cwr, given>>

\* What a call of the service was given: the number of the server's message,
\* or 0 for one that no server has sent, a torn one or the client's own reply.
Number(m) == IF Message(m).by = "server" THEN Message(m).id ELSE 0

\* The service executes what was read, and the client builds its reply.
Serve ==
    /\ cpc = "serve"
    /\ given' = Append(given, Number(got))
    /\ cpc' = "write" /\ cwr' = Parts
    /\ UNCHANGED <<slotVars, serverVars, got>>

\* Fault: the reply answers the message after the one that was served.
WriteReplyOffByOne ==
    /\ cpc = "write"
    /\ \E p \in cwr :
        /\ slot' = [slot EXCEPT ![p] = Reply(Message(got).id + 1)]
        /\ cwr' = cwr \ {p}
    /\ cpc' = IF cwr' = {} THEN "post" ELSE "write"
    /\ UNCHANGED <<avail, signal, serverVars, got, given>>

\* Fault: sendReply posts the semaphore before it has copied the reply.
WriteReplySignalsFirst ==
    /\ cpc = "write"
    /\ \E p \in cwr :
        /\ slot' = [slot EXCEPT ![p] = Reply(Message(got).id)]
        /\ cwr' = cwr \ {p}
    /\ signal' = IF cwr = Parts THEN signal + 1 ELSE signal
    /\ cpc' = IF cwr' = {} THEN "poll" ELSE "write"
    /\ UNCHANGED <<avail, serverVars, got, given>>

\* Fault: a reply, which is empty in the log channel, only sets the command.
WriteReplyCommandOnly ==
    /\ cpc = "write"
    /\ slot' = [slot EXCEPT !["cmd"] = Reply(Message(got).id)]
    /\ cwr' = {} /\ cpc' = "post"
    /\ UNCHANGED <<avail, signal, serverVars, got, given>>

\* this->m_pBuf->message = *reply
WriteReply ==
    /\ cpc = "write"
    /\ \E p \in cwr :
        /\ slot' = [slot EXCEPT ![p] = Reply(Message(got).id)]
        /\ cwr' = cwr \ {p}
    /\ cpc' = IF cwr' = {} THEN "post" ELSE "write"
    /\ UNCHANGED <<avail, signal, serverVars, got, given>>

\* Fault: the client wipes the slot when it is done with a message.
PostSignalWipesSlot ==
    /\ cpc = "post"
    /\ signal' = signal + 1
    /\ slot' = [p \in Parts |-> Zeroed]
    /\ cpc' = "poll"
    /\ UNCHANGED <<avail, serverVars, cwr, got, given>>

\* Fault: a request is served and then left without a reply.
PostSignalForgotten ==
    /\ cpc = "post"
    /\ cpc' = "poll"
    /\ UNCHANGED <<slotVars, serverVars, cwr, got, given>>

PostSignal ==
    /\ cpc = "post"
    /\ signal' = signal + 1
    /\ cpc' = "poll"
    /\ UNCHANGED <<slot, avail, serverVars, cwr, got, given>>

-----------------------------------------------------------------------------
ServerNext ==
    SendBegin \/ SendWrite \/ PostAvail \/ WaitSignal \/ GiveUpWait \/ Parse

ClientNext ==
    GetMessage \/ ReadCmd \/ ReadSize \/ ReadBody \/ Serve \/ WriteReply \/ PostSignal

Next == ServerNext \/ ClientNext

Spec == Init /\ [][Next]_vars

(***************************************************************************)
(* The server's thread runs to the end of a send, and a wait with a        *)
(* timeout ends one way or the other.  The client's thread keeps polling   *)
(* and the service returns.  Nobody has to send: no fairness on SendBegin. *)
(***************************************************************************)
ServerFairness ==
    /\ WF_vars(SendWrite) /\ WF_vars(PostAvail)
    /\ WF_vars(WaitSignal \/ GiveUpWait) /\ WF_vars(Parse)

ClientFairness == WF_vars(ClientNext)

ServerFairSpec == Spec /\ ServerFairness
FairSpec == Spec /\ ServerFairness /\ ClientFairness

-----------------------------------------------------------------------------
(* Safety.                                                                 *)

\* The type invariant.
TypeOK ==
    /\ slot \in [Parts -> Tag] /\ avail \in Nat /\ signal \in Nat
    /\ spc \in ServerPositions /\ swr \in SUBSET Parts
    /\ sent \in 0..MaxSends /\ gaveUp \in Nat /\ answer \in Tag
    /\ cpc \in ClientPositions /\ cwr \in SUBSET Parts
    /\ got \in [Parts -> Tag] /\ given \in Seq(0..MaxSends)

\* The client has taken an avail permit for which it has yet to post signal.
ClientBusy == IF cpc = "poll" THEN 0 ELSE 1

\* The client has taken an avail permit and has yet to call the service.
ClientReading == IF cpc \in {"cmd", "size", "body", "serve"} THEN 1 ELSE 0

ServerWaiting == IF spc = "wait" THEN 1 ELSE 0
ServerWriting == IF spc \in {"write", "post"} THEN 1 ELSE 0

(***************************************************************************)
(* Permits are conserved across the two semaphores and the client: there   *)
(* is one under way for the send that waits and one for every send that    *)
(* has ever given up.  So a waiting server always has a reply under way    *)
(* (no lost wake-up), and a channel whose server gave up once keeps the    *)
(* extra permit for good: IpcServer::send never drains signal.             *)
(***************************************************************************)
PermitsConserved == avail + signal + ClientBusy = ServerWaiting + gaveUp

(***************************************************************************)
(* Messages are accounted for, whatever waits have failed.  For each one   *)
(* sent there is one call of the service, made or still to be made; the    *)
(* calls are given the messages that were sent, each at most once and      *)
(* never an older one after a newer one; and a call is given something     *)
(* else (0) only in the place of a message that was overwritten: with no   *)
(* such call, none is lost, and as many are lost as there are such calls.  *)
(***************************************************************************)
MessagesConserved ==
    /\ Len(given) + avail + ClientReading + ServerWriting = sent
    /\ \A i, j \in DOMAIN given :
        i < j /\ given[j] # 0 => given[i] < given[j]

(***************************************************************************)
(* As long as no wait has failed, the semaphores keep the two processes    *)
(* from ever being inside the slot together, although neither of them      *)
(* takes a lock around IpcServer::send, read or sendReply.                 *)
(***************************************************************************)
ServerInSlot == spc \in {"write", "parse"}
ClientInSlot == cpc \in {"cmd", "size", "body", "write"}
NoSlotRace == gaveUp = 0 => ~(ServerInSlot /\ ClientInSlot)

(***************************************************************************)
(* As long as no wait has failed, what the service is handed is the next   *)
(* message, untorn: nothing is skipped, repeated or served out of order.   *)
(***************************************************************************)
ServesNextMessageWhole ==
    gaveUp = 0 /\ cpc = "serve" => got = [p \in Parts |-> Request(Len(given) + 1)]

(***************************************************************************)
(* As long as no wait has failed, what FmuProxy::send returns is the       *)
(* client's reply to the very call it returns from.                        *)
(***************************************************************************)
ReplyAnswersCall ==
    gaveUp = 0 /\ ParsesReply /\ spc = "idle" /\ sent > 0 => answer = Reply(sent)

(***************************************************************************)
(* Even when waits fail, the client is never handed a message out of the   *)
(* zeroed segment: callbackThreadFunc would not recognise the command 0    *)
(* there and would never reply.                                            *)
(***************************************************************************)
NeverServesZeroedSlot == cpc = "serve" => \A p \in Parts : got[p].by # "zero"

\* What the sender can know of the channel: its caller's view.
D == INSTANCE Delivery WITH waiting <- spc # "idle", gaveUp <- gaveUp > 0

(***************************************************************************)
(* In both modes the channel delivers: each message once and before the    *)
(* send returns, until a wait fails; from then on each at most once and in *)
(* order, with something else in the place of those that are lost.         *)
(***************************************************************************)
ImplementsDelivery == D!Safe

\* How many steps the two sides still take for the message they are at.
ServerLeft ==
    CASE spc = "idle"  -> 0
      [] spc = "write" -> 12 + Cardinality(swr)
      [] spc = "post"  -> 12
      [] spc = "wait"  -> 2
      [] spc = "parse" -> 1

ClientLeft ==
    CASE cpc = "poll"  -> 0
      [] cpc = "cmd"   -> 8
      [] cpc = "size"  -> 7
      [] cpc = "body"  -> 6
      [] cpc = "serve" -> 5
      [] cpc = "write" -> 1 + Cardinality(cwr)
      [] cpc = "post"  -> 1

\* A permit of avail is worth the nine steps of a service.
Work == 9 * avail + ClientLeft + ServerLeft

(***************************************************************************)
(* Only a new send makes work: whatever waits have failed, and whatever    *)
(* permits they have left behind, server and client cannot keep each other *)
(* busy, and a channel in which nobody sends is quiet after Work steps.    *)
(***************************************************************************)
WorkRunsOut == [][SendBegin \/ Work' < Work]_vars

-----------------------------------------------------------------------------
(* The inductive invariant behind the safety properties.                   *)

\* Message n has been sent, and the service knows nothing as new as that.
Undelivered(n) ==
    n \in 1..sent /\ \A i \in DOMAIN given : given[i] < n

\* The client has read the part p of the message it is at.
HasRead(p) == cpc = "serve" \/ (cpc = "body" /\ p = "size")

\* Unless the client is about to overwrite it with the reply, p may be read.
MayRead(p) == ~(cpc = "write" /\ p \in cwr)

(***************************************************************************)
(* A part of the server's in the slot or in the client's copy is of a      *)
(* message that is still to be delivered, unless the client is about to    *)
(* overwrite it with the reply.  A message that is being written cannot    *)
(* have been read whole.                                                   *)
(***************************************************************************)
NumbersOrdered ==
    /\ \A i \in DOMAIN given : given[i] <= sent
    /\ \A p \in {"size", "body"} :
        /\ slot[p].by = "server" =>
            slot[p].id <= sent /\ (MayRead(p) => Undelivered(slot[p].id))
        /\ HasRead(p) /\ got[p].by = "server" => Undelivered(got[p].id)
        /\ spc = "write" /\ p \in swr =>
            /\ Undelivered(sent)
            /\ slot[p] # Request(sent)
            /\ HasRead(p) => got[p] # Request(sent)

\* From the first complete write on, the slot holds no zeroed part.
SlotFilled ==
    /\ sent > 1 \/ (sent = 1 /\ spc # "write") =>
        \A p \in Parts : slot[p].by # "zero"
    /\ spc = "write" => \A p \in Parts \ swr : slot[p].by # "zero"
    /\ cpc \in {"size", "body"} => got["cmd"].by # "zero"
    /\ cpc = "body" => got["size"].by # "zero"
    /\ NeverServesZeroedSlot

\* As long as no wait has failed, the two sides alternate strictly.
InLockstep ==
    /\ \A i \in DOMAIN given : given[i] = i
    /\ spc = "write" => \A p \in Parts \ swr : slot[p] = Request(sent)
    /\ spc = "post" \/ avail > 0 \/ cpc \in {"cmd", "size", "body", "serve"} =>
        \A p \in Parts : slot[p] = Request(sent)
    /\ cpc \in {"size", "body"} => got["cmd"] = Request(sent)
    /\ cpc = "body" => got["size"] = Request(sent)
    /\ cpc \in {"serve", "write"} => \A p \in Parts : got[p] = Request(sent)
    /\ cpc = "write" => \A p \in Parts \ cwr : slot[p] = Reply(sent)
    /\ cpc = "post" \/ signal > 0 \/ spc = "parse" =>
        \A p \in Parts : slot[p] = Reply(sent)
    /\ ParsesReply /\ spc = "idle" /\ sent > 0 => answer = Reply(sent)
    /\ ParsesReply /\ spc # "idle" => answer.id = sent - 1
    /\ sent = 0 => spc = "idle" /\ answer = Zeroed

IInv ==
    /\ TypeOK
    /\ PermitsConserved
    /\ MessagesConserved
    /\ NumbersOrdered
    /\ SlotFilled
    /\ gaveUp = 0 => InLockstep

-----------------------------------------------------------------------------
(* Liveness.                                                               *)

(***************************************************************************)
(* A send returns.  With a timeout (the log channel) that takes the server *)
(* alone, so a dead engine cannot block the FMU's logging; without one     *)
(* (the command channel) it takes the client too, and is the fairness of   *)
(* Return in Rpc.                                                          *)
(***************************************************************************)
EverySendReturns == spc # "idle" ~> spc = "idle"

\* A client that keeps running works off every permit, also those of sends
\* that gave up: the service is called as often as messages were sent.
EveryMessageServed ==
    ClientFairness =>
        \A n \in 1..MaxSends : (sent = n /\ spc = "wait") ~> Len(given) >= n
=============================================================================
