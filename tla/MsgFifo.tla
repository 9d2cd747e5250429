------------------------------- MODULE MsgFifo -------------------------------
(***************************************************************************)
(* What the libevent message queue promises: the messages that any thread  *)
(* pushed reach the event loop's callback exactly once, in the order in    *)
(* which they were pushed, and each of them eventually does.               *)
(***************************************************************************)
EXTENDS Naturals, Sequences

CONSTANT Msg

VARIABLES waiting,   \* pushed and not yet delivered
          delivered  \* handed to the callback

vars == <<waiting, delivered>>

Init ==
    /\ waiting = <<>>
    /\ delivered = <<>>

Push(m) ==
    /\ waiting' = Append(waiting, m)
    /\ UNCHANGED delivered

Deliver ==
    /\ waiting # <<>>
    /\ delivered' = Append(delivered, Head(waiting))
    /\ waiting' = Tail(waiting)

Next == Deliver \/ \E m \in Msg : Push(m)

Spec == Init /\ [][Next]_vars /\ WF_vars(Deliver)
==============================================================================
