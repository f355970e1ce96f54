------------------------------- MODULE Delivery -------------------------------
(***************************************************************************)
(* What the rest of the durability tier takes from the outbox, the broker  *)
(* and the sweeper together: a durable job or run that stays PENDING is    *)
(* leased in the end, and a lease is taken from PENDING only.              *)
(***************************************************************************)
CONSTANTS Targets,  \* jobs and runs
          Promised  \* those whose lease is promised, some of Targets

VARIABLE state

Init == state = [t \in Targets |-> "PENDING"]

Move(t, from, to) == state[t] \in from /\ state' = [state EXCEPT ![t] = to]

Lease(t) == Move(t, {"PENDING"}, "LEASED")
Return(t) == Move(t, {"LEASED"}, "PENDING")
End(t) == Move(t, {"PENDING", "LEASED"}, "OVER")

Next == \E t \in Targets : Lease(t) \/ Return(t) \/ End(t)

Spec == Init /\ [][Next]_state /\ \A t \in Promised : WF_state(Lease(t))
=============================================================================
