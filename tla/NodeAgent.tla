----------------------------- MODULE NodeAgent ------------------------------
(***************************************************************************)
(* What sbxlet promises of a sandbox id and sbxorch counts on: an id that  *)
(* is known is not accepted again, only what was accepted runs, what is    *)
(* being deleted does not come back to life, and one step concerns one id. *)
(***************************************************************************)
CONSTANT Id

VARIABLE phase

Init == phase = [i \in Id |-> "absent"]

Becomes(i, p) == phase' = [phase EXCEPT ![i] = p]

\* A create request is accepted.
Accept(i) == phase[i] = "absent" /\ Becomes(i, "creating")

\* Provisioning ends well; a provisioning of the id that failed earlier may have
\* left an error.
Ready(i) == phase[i] \in {"creating", "error"} /\ Becomes(i, "running")

\* Provisioning fails, or what ran does not run any more.
Break(i) == phase[i] \in {"creating", "running"} /\ Becomes(i, "error")

\* A deletion has begun ...
Begin(i) == phase[i] # "absent" /\ Becomes(i, "deleting")

\* ... and is complete.
Remove(i) == Becomes(i, "absent")

Next == \E i \in Id : Accept(i) \/ Ready(i) \/ Break(i) \/ Begin(i) \/ Remove(i)

Spec == Init /\ [][Next]_phase
=============================================================================
