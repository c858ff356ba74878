------------------------------ MODULE SbxletMC ------------------------------
(***************************************************************************)
(* Instances of Sbxlet for TLC: what each sandbox publishes.               *)
(***************************************************************************)
EXTENDS Sbxlet

CONSTANTS s1, s2

TCP == <<80, "tcp">>
UDP == <<80, "udp">>
Keys == {TCP, UDP}

\* One port number, two protocols: s1 and any third sandbox want the same key.
OneNumber == [s \in Sandbox |-> {IF s = s2 THEN UDP ELSE TCP}]
SamePort  == [s \in Sandbox |-> {TCP}]
=============================================================================
