----------------------------- MODULE SessionOwner -----------------------------
(***************************************************************************)
(* What the supervisor promises about an agent's session: at most one      *)
(* process at a time works on it, be it a worker or an attached terminal,  *)
(* and it changes hands only through a state in which nobody owns it.      *)
(***************************************************************************)
CONSTANT Processes
VARIABLE owners

Init == owners = {}

Acquire(p) == owners = {} /\ owners' = {p}

Release(p) == owners = {p} /\ owners' = {}

Next == \E p \in Processes : Acquire(p) \/ Release(p)

Spec == Init /\ [][Next]_owners
=============================================================================
