-------------------------- MODULE SandboxControlMC --------------------------
(***************************************************************************)
(* Instances of SandboxControl for TLC.  Every sandbox asks for one        *)
(* resource unit; the port counts and the capacities are given here.       *)
(***************************************************************************)
EXTENDS SandboxControl, TLC

OnePortEach   == [s \in Sandbox |-> 1]
OneNodeUnit   == [n \in Node |-> 1]
TwoNodeUnits  == [n \in Node |-> 2]

\* Sandboxes that expose nothing: a reservation is made without inserting a port.
NoPorts       == [s \in Sandbox |-> 0]

\* For safety: nothing tells sandboxes, nodes or ports from others of their kind when
\* all of them need the same.
Symmetry == Permutations(Sandbox) \cup Permutations(Node) \cup Permutations(HostPort)
=============================================================================
