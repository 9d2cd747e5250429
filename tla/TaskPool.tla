------------------------------- MODULE TaskPool -------------------------------
(***************************************************************************)
(* What a thread pool promises: a task is refused when it is handed over,  *)
(* or accepted and then run exactly once; the pool closes only when all    *)
(* accepted tasks have been run.                                           *)
(***************************************************************************)
CONSTANT Task

VARIABLES state,   \* task -> "new", "refused", "accepted" or "done"
          open

vars == <<state, open>>

Init ==
    /\ state = [k \in Task |-> "new"]
    /\ open = TRUE

Move(k, from, to) ==
    /\ open
    /\ state[k] = from
    /\ state' = [state EXCEPT ![k] = to]
    /\ UNCHANGED open

Accept(k) == Move(k, "new", "accepted")
Refuse(k) == Move(k, "new", "refused")
Run(k) == Move(k, "accepted", "done")

Close ==
    /\ open
    /\ \A k \in Task : state[k] # "accepted"
    /\ open' = FALSE
    /\ UNCHANGED state

Next == Close \/ \E k \in Task : Accept(k) \/ Refuse(k) \/ Run(k)

Spec == Init /\ [][Next]_vars /\ \A k \in Task : WF_vars(Run(k))
===============================================================================
