--------------------------- MODULE NodeRegistryMC ---------------------------
(***************************************************************************)
(* NodeRegistry for TLC: the ids of externals may be exchanged, as a       *)
(* binding is looked up by its node and no node has two.                   *)
(***************************************************************************)
EXTENDS NodeRegistry, TLC

ExternalSymmetry == Permutations(ExternalId)
=============================================================================
