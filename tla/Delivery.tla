------------------------------ MODULE Delivery ------------------------------
(***************************************************************************)
(* What a channel promises the side that sends, whatever its mode, and the *)
(* log channel the FMU that logs: messages are numbered from 1, and one is *)
(* sent at a time.  Until a wait has failed, the other side is given each  *)
(* message once, before the send returns.  From then on a message may come *)
(* late, or be lost and the other side be given something that was never   *)
(* sent in its place; but no message comes twice or after a newer one, and *)
(* no more is given than was sent.                                         *)
(*                                                                         *)
(* IpcChannel implements this with a slot and two semaphores; FmuSession,  *)
(* which has the slot of the log channel in less detail, implements it too.*)
(***************************************************************************)
EXTENDS Naturals, Sequences

VARIABLES
    sent,        \* number of the latest message sent
    given,       \* the messages the other side was given, 0 for what is none
    waiting,     \* is a send in progress?
    gaveUp       \* has a send ever given up?

deliveryVars == <<sent, given, waiting, gaveUp>>

Init == sent = 0 /\ given = <<>> /\ ~waiting /\ ~gaveUp

Send ==
    /\ ~waiting
    /\ sent' = sent + 1 /\ waiting' = TRUE
    /\ UNCHANGED <<given, gaveUp>>

\* The message that is waited for, which is the only one not delivered yet.
DeliverNext ==
    /\ ~gaveUp /\ waiting /\ Len(given) = sent - 1
    /\ given' = Append(given, sent)
    /\ UNCHANGED <<sent, waiting, gaveUp>>

\* A message newer than all that were delivered.
DeliverLate ==
    /\ gaveUp /\ Len(given) < sent
    /\ \E n \in 1..sent :
        /\ \A i \in DOMAIN given : given[i] < n
        /\ given' = Append(given, n)
    /\ UNCHANGED <<sent, waiting, gaveUp>>

\* Something that nobody sent, in the place of a message that is lost: the
\* other side's own empty reply, or a mixture of messages.
MakeUp ==
    /\ gaveUp /\ Len(given) < sent
    /\ given' = Append(given, 0)
    /\ UNCHANGED <<sent, waiting, gaveUp>>

\* The send returns with an answer: to this message, until a wait has failed.
Answered ==
    /\ waiting /\ (gaveUp \/ Len(given) = sent)
    /\ waiting' = FALSE
    /\ UNCHANGED <<sent, given, gaveUp>>

\* The send returns without one.
ReturnWithout ==
    /\ waiting
    /\ waiting' = FALSE /\ gaveUp' = TRUE
    /\ UNCHANGED <<sent, given>>

Next == Send \/ DeliverNext \/ DeliverLate \/ MakeUp \/ Answered \/ ReturnWithout

Safe == Init /\ [][Next]_deliveryVars
=============================================================================
