----------------------------- MODULE PortLedger -----------------------------
(***************************************************************************)
(* What the table sandbox_ports is for: a ledger of host ports.  A port of *)
(* a node has at most one owner, a grant is all or nothing and takes only  *)
(* what is free, a port changes hands only by being given back, and what a *)
(* sandbox owned is given back at the latest when its id goes.  Nothing is *)
(* said of when the scheduler, a deletion or a node removal does which.    *)
(***************************************************************************)
CONSTANTS Sandbox, Node, HostPort, NoSandbox

VARIABLES owner,   \* owner of each (node, host port)
          alive    \* ids in use

ledger == <<owner, alive>>

Init ==
  /\ owner = [np \in Node \X HostPort |-> NoSandbox]
  /\ alive = {}

Without(s) == [np \in Node \X HostPort |-> IF owner[np] = s THEN NoSandbox ELSE owner[np]]

\* The id comes into use; it owns nothing yet.
Join(s) ==
  /\ s \notin alive
  /\ alive' = alive \cup {s}
  /\ UNCHANGED owner

\* All ports of P on node n, or none.
Grant(s, n, P) ==
  /\ s \in alive
  /\ \A p \in P : owner[<<n, p>>] = NoSandbox
  /\ owner' = [np \in Node \X HostPort |->
                 IF np[1] = n /\ np[2] \in P THEN s ELSE owner[np]]
  /\ UNCHANGED alive

Return(s) ==
  /\ owner' = Without(s)
  /\ UNCHANGED alive

\* All ports of a node are taken back at once.
Close(n) ==
  /\ owner' = [np \in Node \X HostPort |-> IF np[1] = n THEN NoSandbox ELSE owner[np]]
  /\ UNCHANGED alive

Leave(s) ==
  /\ owner' = Without(s)
  /\ alive' = alive \ {s}

Next ==
  \/ \E s \in Sandbox :
       \/ Join(s) \/ Return(s) \/ Leave(s)
       \/ \E n \in Node, P \in SUBSET HostPort : Grant(s, n, P)
  \/ \E n \in Node : Close(n)

Spec == Init /\ [][Next]_ledger
=============================================================================
