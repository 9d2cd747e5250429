---------------------------- MODULE MCEventCallback ----------------------------
(* Instances of EventCallback for TLC. *)
EXTENDS EventCallback, TLC

Symmetry == Permutations(Session) \cup Permutations(Thread) \cup Permutations(Message)
===============================================================================
