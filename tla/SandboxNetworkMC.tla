-------------------------- MODULE SandboxNetworkMC --------------------------
(***************************************************************************)
(* Instances of SandboxNetwork for TLC.                                    *)
(***************************************************************************)
EXTENDS SandboxNetwork, TLC

\* All sandboxes publish one and the same host port, one after the other.
SharedPort == [s \in Sandbox |-> CHOOSE p \in Port : TRUE]

\* Neither an address nor a sandbox is told from another one by the model.
Symmetry == Permutations(IP) \cup Permutations(Sandbox)
=============================================================================
