----------------------------- MODULE SidRegistry -----------------------------
(***************************************************************************)
(* What SP_SessionManager promises to the event callbacks: allocKey hands  *)
(* out a session identity that was never handed out before, put binds it   *)
(* to one session object, and remove ends it for good.  An identity is a   *)
(* key and the number of times that key was recycled; SessionManager       *)
(* implements it with a key and a 16-bit sequence number.                  *)
(***************************************************************************)
CONSTANTS Key, Session,
          Gen   \* how often a key may have been recycled

VARIABLES issued,   \* identities handed out so far
          pending,  \* identities handed out and not yet bound
          live      \* bindings <<identity, session object>>

vars == <<issued, pending, live>>

Identity == Key \X Gen

Init ==
    /\ issued = {}
    /\ pending = {}
    /\ live = {}

Alloc ==
    \E id \in Identity \ issued :
        /\ issued' = issued \cup {id}
        /\ pending' = pending \cup {id}
        /\ UNCHANGED live

Put ==
    \E id \in pending, s \in Session :
        /\ \A b \in live : b[2] # s
        /\ live' = live \cup {<<id, s>>}
        /\ pending' = pending \ {id}
        /\ UNCHANGED issued

Remove ==
    \E b \in live :
        /\ live' = live \ {b}
        /\ UNCHANGED <<issued, pending>>

\* The destructor drops every binding at once.
Destroy ==
    /\ live' = {}
    /\ UNCHANGED <<issued, pending>>

Next == Alloc \/ Put \/ Remove \/ Destroy

Spec == Init /\ [][Next]_vars
==============================================================================
