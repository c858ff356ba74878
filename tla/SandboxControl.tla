--------------------------- MODULE SandboxControl ---------------------------
(***************************************************************************)
(* The control plane of sbxorch: the `sandboxes` and `sandbox_ports`       *)
(* tables and every goroutine of the orchestrator that reads and writes    *)
(* them - the scheduler loop, the reconcile loop, the status-sync loop,    *)
(* the IP refresher, the resource-sync loop and the HTTP handlers that     *)
(* create and delete sandboxes and nodes - against sbxlet nodes that       *)
(* answer late, refuse, or execute a call whose answer is lost.            *)
(*                                                                         *)
(* SQLite is opened with one connection, so one statement or transaction   *)
(* is one step.  Between two of them any other goroutine may run: what a   *)
(* goroutine read is kept in its own variable (a snapshot) and is possibly *)
(* stale when it is written back.                                          *)
(***************************************************************************)
EXTENDS Naturals, FiniteSets

CONSTANTS
  Sandbox, Node, HostPort,  \* ids, node names, ports of [HostPortMin, HostPortMax]
  PortNeed,                 \* PortNeed[s]: len(spec.Ports) of sandbox s
  Capacity,                 \* Capacity[n]: allocatable resource units of node n
  TTLSandbox,               \* sandboxes whose spec has ttl_seconds > 0
  Deleter,                  \* DELETE /sandboxes requests, each served once
  DeleteFrom,               \* phases of a sandbox in which clients ask to delete it
  Remover, Forced,          \* DELETE /nodes requests; those with force=true
  Loops,                    \* the loops main() started in this instance
  Routes,                   \* what clients ask of nodes directly: "create", "delete"
  MaxCreates,               \* bound: creations of one sandbox id
  MaxFaults,                \* bound: failed or lost remote calls
  MaxRestarts,              \* bound: restarts of sbxorch
  NoNode, NoSandbox, Loop, NoReport

ASSUME NamesAssumption ==
  /\ NoNode \notin Node
  /\ NoSandbox \notin Sandbox
  /\ Loop \notin Deleter
  /\ NoReport \notin Nat

ASSUME SizeAssumption ==
  /\ IsFiniteSet(HostPort) /\ IsFiniteSet(Sandbox)
  /\ PortNeed \in [Sandbox -> Nat]
  /\ Capacity \in [Node -> Nat]
  /\ MaxCreates \in Nat
  /\ MaxFaults \in Nat
  /\ MaxRestarts \in Nat

ASSUME SetsAssumption ==
  /\ TTLSandbox \subseteq Sandbox
  /\ Forced \subseteq Remover
  /\ DeleteFrom \subseteq {"Pending", "Scheduled", "Running", "Failed"}
  /\ Loops \subseteq {"scheduler", "reconcile", "statusSync", "resourceSync"}
  /\ Routes \subseteq {"create", "delete"}

VARIABLES
  row,         \* sandboxes: phase, node name and assigned host ports of each id
  reserved,    \* sandbox_ports: the owner of each (node, host port)
  registered,  \* nodes
  ready,       \* node_status: the nodes in state Ready
  used,        \* node_resources: used units, the orchestrator's logical count
  live,        \* what each sbxlet has: phase and host ports of each sandbox
  expired,     \* sandboxes whose ExpireAt has passed
  creates,     \* how often each sandbox id was created
  doomed,      \* history: ids that a request or the clock meant to delete
  sched,       \* the scheduler goroutine
  job,         \* finalizing goroutines: delete requests and the reconcile loop
  todo,        \* the reconcile loop's snapshot: rows still to visit
  removal,     \* DELETE /nodes requests
  sync,        \* one status-sync goroutine for each node
  ipDue,       \* sandboxes a refreshSandboxIPSoon goroutine still works for
  report,      \* resource sync: usage read from a node and not yet stored
  faults, restarts

dbVars   == <<row, reserved, registered, ready, used>>
envVars  == <<live, expired, doomed, creates, faults, restarts>>
actors   == <<sched, job, todo, removal, sync, ipDue, report>>
vars     == <<dbVars, envVars, actors>>

-----------------------------------------------------------------------------
Phases == {"Absent", "Pending", "Scheduled", "Running", "Failed", "Deleting"}

Row == [phase : Phases, node : Node \cup {NoNode}, ports : SUBSET HostPort]

NoRow      == [phase |-> "Absent",  node |-> NoNode, ports |-> {}]
PendingRow == [phase |-> "Pending", node |-> NoNode, ports |-> {}]

Worker == Deleter \cup {Loop}

NodePhases == {"absent", "creating", "running", "error", "deleting"}
OnNode     == [phase : NodePhases, ports : SUBSET HostPort]
NotThere   == [phase |-> "absent", ports |-> {}]

SchedPcs == {"idle", "pick", "fail", "reserve", "reload", "lookup", "call",
             "refused", "release", "created", "account"}
JobPcs   == {"new", "idle", "mark", "lookup", "call", "failed", "release",
             "remove", "account", "acked", "done"}
SyncPcs  == {"idle", "lookup", "ask", "merge", "swap"}
RemovalPcs == {"new", "list", "visit", "drop", "call", "detach", "ports", "node", "done"}

Sched   == [pc : SchedPcs, queue : SUBSET Sandbox, sb : Sandbox \cup {NoSandbox},
            node : Node \cup {NoNode}, ports : SUBSET HostPort, fresh : Row]
Job     == [pc : JobPcs, sb : Sandbox \cup {NoSandbox}, snap : Row]
Sync    == [pc : SyncPcs, batch : SUBSET Sandbox, seen : [Sandbox -> NodePhases],
            sb : Sandbox \cup {NoSandbox}, next : Row, current : BOOLEAN]
Removal == [pc : RemovalPcs, node : Node \cup {NoNode}, sb : Sandbox \cup {NoSandbox},
            list : [Sandbox -> Row]]

IdleSched == [pc |-> "idle", queue |-> {}, sb |-> NoSandbox, node |-> NoNode,
              ports |-> {}, fresh |-> NoRow]
IdleJob   == [pc |-> "idle", sb |-> NoSandbox, snap |-> NoRow]
IdleSync  == [pc |-> "idle", batch |-> {}, seen |-> [s \in Sandbox |-> "absent"],
              sb |-> NoSandbox, next |-> NoRow, current |-> FALSE]
NewRemoval == [pc |-> "new", node |-> NoNode, sb |-> NoSandbox,
               list |-> [s \in Sandbox |-> NoRow]]

Exists(s) == row[s].phase # "Absent"

(***************************************************************************)
(* Writes.  Every write of a sandbox row changes its updated_at: a         *)
(* compare-and-swap that status sync prepared from an earlier read of the  *)
(* row no longer succeeds.                                                 *)
(***************************************************************************)
\* (Faulty variant: a write without the updated_at condition.)
NeverOutdated(sy, s) == sy

Outdated(sy, s) ==
  [n \in Node |-> IF sy[n].sb = s THEN [sy[n] EXCEPT !.current = FALSE] ELSE sy[n]]

\* UPDATE sandboxes ... WHERE id: without a row it changes nothing.
UpdateSandboxStatus(s, r) ==
  /\ row' = IF Exists(s) THEN [row EXCEPT ![s] = r] ELSE row
  /\ sync' = Outdated(sync, s)

PortsWithout(res, s) ==
  [np \in Node \X HostPort |-> IF res[np] = s THEN NoSandbox ELSE res[np]]

ReleaseSandboxPorts(s) == reserved' = PortsWithout(reserved, s)

\* (Faulty variant: the ports are left to ReleaseSandboxPorts, no cascade.)
DeleteRowOnly(s) ==
  /\ row' = [row EXCEPT ![s] = NoRow]
  /\ sync' = Outdated(sync, s)
  /\ UNCHANGED reserved

\* DELETE FROM sandbox_ports, then DELETE FROM sandboxes, whose foreign key
\* cascades to sandbox_ports: a reservation made between the two goes as well.
DeleteRow(s) ==
  /\ row' = [row EXCEPT ![s] = NoRow]
  /\ reserved' = PortsWithout(reserved, s)
  /\ sync' = Outdated(sync, s)

\* (Faulty variant: no MAX(0, ...).)
DecrementedBelowZero(n) ==
  IF n \in registered THEN [used EXCEPT ![n] = @ - 1] ELSE used

\* UPDATE node_resources with MAX(0, ...); the row exists for registered nodes.
Decremented(n) ==
  IF n \in registered /\ used[n] > 0 THEN [used EXCEPT ![n] = @ - 1] ELSE used

\* A remote call that fails, or whose answer does not arrive in time.
Fault   == faults < MaxFaults /\ faults' = faults + 1
NoFault == UNCHANGED faults

-----------------------------------------------------------------------------
(***************************************************************************)
(* The sbxlet of a node, as far as the orchestrator can observe it.        *)
(***************************************************************************)
ActiveOn(n) == {s \in Sandbox : live[n][s].phase \in {"creating", "running"}}

PortsOn(n) == UNION {live[n][s].ports : s \in Sandbox}

\* POST /v1/sandboxes is refused for an id the node still knows, a host port
\* in use, or a lack of resources.
NodeAccepts(n, s, ports) ==
  /\ live[n][s].phase = "absent"
  /\ PortsOn(n) \cap ports = {}
  /\ Cardinality(ActiveOn(n)) < Capacity[n]

\* (Faulty variant: provisioning goes on beside a deletion, without the lock.)
SbxletReadyUnlocked(n, s) ==
  /\ live[n][s].phase \in {"creating", "deleting"}
  /\ live' = [live EXCEPT ![n][s].phase = "running"]
  /\ UNCHANGED <<dbVars, expired, doomed, creates, faults, restarts, actors>>

\* Provisioning ends well.
SbxletReady(n, s) ==
  /\ live[n][s].phase = "creating"
  /\ live' = [live EXCEPT ![n][s].phase = "running"]
  /\ UNCHANGED <<dbVars, expired, doomed, creates, faults, restarts, actors>>

\* A second provisioning of the id, started before the first one failed, ends well.
SbxletRecovers(n, s) ==
  /\ live[n][s].phase = "error"
  /\ live' = [live EXCEPT ![n][s].phase = "running"]
  /\ UNCHANGED <<dbVars, expired, doomed, creates, faults, restarts, actors>>

\* Provisioning fails, or a container exits.
SbxletBreaks(n, s) ==
  /\ live[n][s].phase \in {"creating", "running"}
  /\ live' = [live EXCEPT ![n][s].phase = "error"]
  /\ Fault
  /\ UNCHANGED <<dbVars, expired, doomed, creates, restarts, actors>>

\* The reconcile loop of sbxlet removes a broken sandbox, or a deletion whose caller
\* has left is completed.  After a crash of sbxlet nobody completes it.
SbxletRemoves(n, s) ==
  /\ live[n][s].phase \in {"error", "deleting"}
  /\ live' = [live EXCEPT ![n][s] = NotThere]
  /\ UNCHANGED <<dbVars, expired, doomed, creates, faults, restarts, actors>>

\* DELETE on a node succeeds for an unknown id too.  A call that fails was carried out,
\* or half so, or not at all.
Gone(n, s)  == [live EXCEPT ![n][s] = NotThere]
Begun(n, s) ==
  IF live[n][s].phase = "absent" THEN live ELSE [live EXCEPT ![n][s].phase = "deleting"]

CallDeletes(n, s) == live' = Gone(n, s) /\ NoFault
CallFails(n, s)   == live' \in {live, Begun(n, s), Gone(n, s)} /\ Fault

-----------------------------------------------------------------------------
(***************************************************************************)
(* Clients, clocks and nodes.                                              *)
(***************************************************************************)
\* Some goroutine works for the id, with a copy that may be of an earlier sandbox.
Held(s) ==
  \/ todo[s] # NoRow
  \/ \E w \in Worker : job[w].sb = s /\ job[w].pc \notin {"acked", "done"}
  \/ \E q \in Remover : removal[q].pc # "done" /\ (removal[q].sb = s \/ removal[q].list[s] # NoRow)

CreateSandbox(s) ==
  /\ ~ Exists(s)
  /\ creates[s] < MaxCreates
  /\ row' = [row EXCEPT ![s] = PendingRow]
  /\ creates' = [creates EXCEPT ![s] = @ + 1]
  /\ expired' = expired \ {s}
  /\ doomed' = IF Held(s) THEN doomed \cup {s} ELSE doomed \ {s}
  /\ UNCHANGED <<reserved, registered, ready, used, live, faults, restarts, actors>>

\* time.Now passes status.expire_at.
Expire(s) ==
  /\ s \in TTLSandbox \ expired
  /\ Exists(s)
  /\ expired' = expired \cup {s}
  /\ doomed' = doomed \cup {s}
  /\ UNCHANGED <<dbVars, live, creates, faults, restarts, actors>>

\* RegisterNode; node_resources is inserted with DO NOTHING on conflict.
RegisterNode(n) ==
  /\ n \notin registered
  /\ registered' = registered \cup {n}
  /\ UNCHANGED <<row, reserved, ready, used, envVars, actors>>

\* POST /nodes/{id}/sandboxes: the node is asked, the tables are not.
NodeCreateSandbox(n, s) ==
  /\ "create" \in Routes
  /\ n \in registered
  /\ \E P \in {Q \in SUBSET HostPort : Cardinality(Q) = PortNeed[s]} :
       /\ NodeAccepts(n, s, P)
       /\ live' = [live EXCEPT ![n][s] = [phase |-> "creating", ports |-> P]]
  /\ UNCHANGED <<dbVars, expired, doomed, creates, faults, restarts, actors>>

\* DELETE /nodes/{id}/sandboxes/{sandboxId}
NodeDeleteSandbox(n, s) ==
  /\ "delete" \in Routes
  /\ n \in registered
  /\ CallDeletes(n, s) \/ CallFails(n, s)
  /\ UNCHANGED <<dbVars, expired, doomed, creates, restarts, actors>>

\* Heartbeats make a node Ready or take its readiness away.
Heartbeat(n) ==
  /\ n \in registered
  /\ \/ ready' = ready \cup {n} /\ NoFault
     \/ ready' = ready \ {n} /\ n \in ready /\ Fault
  /\ UNCHANGED <<row, reserved, registered, used, live, expired, doomed, creates, restarts, actors>>

-----------------------------------------------------------------------------
(***************************************************************************)
(* The scheduler loop: runSchedulerOnce walks the Pending rows of one list *)
(* and calls scheduleOne for each.                                         *)
(***************************************************************************)
schedOthers == <<registered, ready, expired, doomed, creates, restarts,
                 job, todo, removal, report>>

SchedTick ==
  /\ "scheduler" \in Loops
  /\ sched.pc = "idle"
  /\ LET pending == {s \in Sandbox : row[s].phase = "Pending"}
     IN  /\ pending # {}
         /\ sched' = [IdleSched EXCEPT !.pc = "pick", !.queue = pending]
  /\ UNCHANGED <<dbVars, envVars, job, todo, removal, sync, ipDue, report>>

\* The goroutine leaves scheduleOne for the next sandbox of its list.
SchedLeave ==
  sched' = [IdleSched EXCEPT !.pc = IF sched.queue = {} THEN "idle" ELSE "pick",
                             !.queue = sched.queue]

FreePorts(n) == {p \in HostPort : reserved[<<n, p>>] = NoSandbox}

Available(n) == IF used[n] < Capacity[n] THEN Capacity[n] - used[n] ELSE 0

\* Nodes that are Ready, have resources, and enough host ports left.
Candidates(s) ==
  {n \in registered \cap ready :
     /\ Available(n) >= 1
     /\ Cardinality(FreePorts(n)) >= PortNeed[s]}

\* cands sorted by the CPU left, most first; ties are broken by node name,
\* whose order is not modelled.
BestCandidates(s) ==
  {n \in Candidates(s) : \A m \in Candidates(s) : Available(m) <= Available(n)}

\* (Faulty variant: the used ports are not consulted.)
AllocateAnyHostPorts(n, s) ==
  {P \in SUBSET HostPort : Cardinality(P) = PortNeed[s]}

\* allocateHostPorts draws distinct free ports at random.
AllocateHostPorts(n, s) ==
  {P \in SUBSET FreePorts(n) : Cardinality(P) = PortNeed[s]}

SchedPick(s) ==
  /\ sched.pc = "pick"
  /\ s \in sched.queue
  /\ \/ /\ Candidates(s) = {}
        /\ sched' = [sched EXCEPT !.pc = "fail", !.sb = s, !.queue = @ \ {s}]
     \/ \E n \in BestCandidates(s) : \E P \in AllocateHostPorts(n, s) :
          sched' = [sched EXCEPT !.pc = "reserve", !.sb = s, !.queue = @ \ {s},
                                 !.node = n, !.ports = P]
  /\ UNCHANGED <<dbVars, envVars, job, todo, removal, sync, ipDue, report>>

\* "no feasible node": written from the list's copy of the row, unconditionally.
SchedFail ==
  /\ sched.pc = "fail"
  /\ UpdateSandboxStatus(sched.sb, [PendingRow EXCEPT !.phase = "Failed"])
  /\ SchedLeave
  /\ UNCHANGED <<reserved, used, live, faults, ipDue, schedOthers>>

(***************************************************************************)
(* ReserveSandboxPortsAndSchedule: one transaction.  Without the row the   *)
(* insert of a port breaks the foreign key, which is reported as a         *)
(* conflict; with no port to insert the reload fails and scheduleOne       *)
(* writes Failed.  The phase of the reloaded row is not looked at.         *)
(***************************************************************************)
PortConflict ==
  \E p \in sched.ports : reserved[<<sched.node, p>>] # NoSandbox

SchedReserve ==
  /\ sched.pc = "reserve"
  /\ IF Exists(sched.sb) /\ ~ PortConflict
     THEN /\ UpdateSandboxStatus(sched.sb, [phase |-> "Scheduled", node |-> sched.node,
                                            ports |-> sched.ports])
          /\ reserved' = [np \in Node \X HostPort |->
                            IF np[1] = sched.node /\ np[2] \in sched.ports
                            THEN sched.sb ELSE reserved[np]]
          /\ sched' = [sched EXCEPT !.pc = "reload", !.node = NoNode, !.ports = {}]
     ELSE /\ IF sched.ports = {}
             THEN sched' = [sched EXCEPT !.pc = "fail", !.node = NoNode]
             ELSE SchedLeave
          /\ UNCHANGED <<row, reserved, sync>>
  /\ UNCHANGED <<used, live, faults, ipDue, schedOthers>>

\* fresh, err := GetSandbox
SchedReload ==
  /\ sched.pc = "reload"
  /\ IF Exists(sched.sb)
     THEN sched' = [sched EXCEPT !.pc = "lookup", !.fresh = row[sched.sb]]
     ELSE SchedLeave
  /\ UNCHANGED <<dbVars, envVars, job, todo, removal, sync, ipDue, report>>

\* createSandboxOnNode looks the node up ...
SchedLookup ==
  /\ sched.pc = "lookup"
  /\ sched' = [sched EXCEPT !.pc = IF sched.fresh.node \in registered
                                   THEN "call" ELSE "refused"]
  /\ UNCHANGED <<dbVars, envVars, job, todo, removal, sync, ipDue, report>>

\* ... and calls it: it accepts or refuses; the call does not reach it; or it
\* accepts and the answer is lost.
SchedCall ==
  /\ sched.pc = "call"
  /\ LET n == sched.fresh.node
         s == sched.sb
         Accepted == /\ NodeAccepts(n, s, sched.fresh.ports)
                     /\ live' = [live EXCEPT ![n][s] = [phase |-> "creating",
                                                        ports |-> sched.fresh.ports]]
     IN  \/ Accepted /\ NoFault /\ sched' = [sched EXCEPT !.pc = "created"]
         \/ Accepted /\ Fault /\ sched' = [sched EXCEPT !.pc = "refused"]
         \/ /\ ~ NodeAccepts(n, s, sched.fresh.ports)
            /\ NoFault /\ sched' = [sched EXCEPT !.pc = "refused"]
            /\ UNCHANGED live
         \/ Fault /\ sched' = [sched EXCEPT !.pc = "refused"] /\ UNCHANGED live
  /\ UNCHANGED <<row, reserved, used, sync, ipDue, schedOthers>>

\* (Faulty variant: the failed sandbox forgets its node.)
SchedCreateFailedForgetsNode ==
  /\ sched.pc = "refused"
  /\ UpdateSandboxStatus(sched.sb, [PendingRow EXCEPT !.phase = "Failed"])
  /\ sched' = [sched EXCEPT !.pc = "release"]
  /\ UNCHANGED <<reserved, used, live, faults, ipDue, schedOthers>>

\* The create call failed: Failed is written over whatever the row is now,
\* node name and ports stay in the status, then the reservation is given up.
SchedCreateFailed ==
  /\ sched.pc = "refused"
  /\ UpdateSandboxStatus(sched.sb, [sched.fresh EXCEPT !.phase = "Failed"])
  /\ sched' = [sched EXCEPT !.pc = "release"]
  /\ UNCHANGED <<reserved, used, live, faults, ipDue, schedOthers>>

SchedRelease ==
  /\ sched.pc = "release"
  /\ ReleaseSandboxPorts(sched.sb)
  /\ SchedLeave
  /\ UNCHANGED <<row, used, live, faults, sync, ipDue, schedOthers>>

\* The create call was answered: Running, from the copy read before the call.
SchedMarkRunning ==
  /\ sched.pc = "created"
  /\ UpdateSandboxStatus(sched.sb, [sched.fresh EXCEPT !.phase = "Running"])
  /\ sched' = [sched EXCEPT !.pc = "account"]
  /\ UNCHANGED <<reserved, used, live, faults, ipDue, schedOthers>>

\* adjustNodeUsageForSandbox(+1), then go refreshSandboxIPSoon.
SchedAccount ==
  /\ sched.pc = "account"
  /\ used' = IF sched.fresh.node \in registered
             THEN [used EXCEPT ![sched.fresh.node] = @ + 1] ELSE used
  /\ ipDue' = ipDue \cup {sched.sb}
  /\ SchedLeave
  /\ UNCHANGED <<row, reserved, live, faults, sync, schedOthers>>

SchedStep ==
  \/ SchedTick \/ \E s \in Sandbox : SchedPick(s)
  \/ SchedFail \/ SchedReserve \/ SchedReload \/ SchedLookup \/ SchedCall
  \/ SchedCreateFailed \/ SchedRelease \/ SchedMarkRunning \/ SchedAccount

\* refreshSandboxIPSoon: the IP is not modelled, but its compare-and-swap, read
\* and write in one step when it succeeds, touches the row.
RefreshIP(s) ==
  /\ s \in ipDue
  /\ ipDue' = ipDue \ {s}
  /\ \/ /\ row[s].phase \notin {"Absent", "Deleting"}
        /\ UpdateSandboxStatus(s, row[s])
     \/ UNCHANGED <<row, sync>>
  /\ UNCHANGED <<reserved, registered, ready, used, envVars,
                 sched, job, todo, removal, report>>

-----------------------------------------------------------------------------
(***************************************************************************)
(* Deletion.  DeleteSandbox (one goroutine for each request) and the       *)
(* reconcile loop both end in finalizeSandboxDelete, which works on the    *)
(* copy of the row its caller read.                                        *)
(***************************************************************************)
jobOthers == <<registered, ready, expired, doomed, creates, restarts,
               sched, removal, ipDue, report>>

Deleting(r) == [r EXCEPT !.phase = "Deleting"]

JobBecomes(w, x) == job' = [job EXCEPT ![w] = x]
To(w, pc)        == JobBecomes(w, [job[w] EXCEPT !.pc = pc])

\* A request answers 200 (acked) or an error (done); the loop goes on.
End(w, answer) ==
  JobBecomes(w, IF w = Loop THEN IdleJob
                ELSE [IdleJob EXCEPT !.pc = answer, !.sb = job[w].sb])

\* GetSandbox; a row that is Deleting already is answered at once.
DeleteRead(w, s) ==
  /\ job[w].pc = "new"
  /\ row[s].phase \in DeleteFrom \cup {"Absent", "Deleting"}
  /\ IF row[s].phase \in {"Absent", "Deleting"}
     THEN To(w, "done") /\ UNCHANGED doomed
     ELSE /\ JobBecomes(w, [pc |-> "mark", sb |-> s, snap |-> Deleting(row[s])])
          /\ doomed' = doomed \cup {s}
  /\ UNCHANGED <<dbVars, live, expired, creates, faults, restarts,
                 sched, todo, removal, sync, ipDue, report>>

\* (Faulty variant: the loop collects what has failed, too.)
ReconcileTickFailedToo ==
  /\ "reconcile" \in Loops
  /\ job[Loop].pc = "idle"
  /\ todo = [s \in Sandbox |-> NoRow]
  /\ todo' = [s \in Sandbox |->
                IF row[s].phase \in {"Deleting", "Failed"} \/ (Exists(s) /\ s \in expired)
                THEN row[s] ELSE NoRow]
  /\ todo' # todo
  /\ UNCHANGED <<row, reserved, used, live, faults, sync, job, jobOthers>>

\* (Faulty variant: the loop looks at TTLs only.)
ReconcileTickTTLOnly ==
  /\ "reconcile" \in Loops
  /\ job[Loop].pc = "idle"
  /\ todo = [s \in Sandbox |-> NoRow]
  /\ todo' = [s \in Sandbox |->
                IF row[s].phase \notin {"Absent", "Deleting"} /\ s \in expired
                THEN row[s] ELSE NoRow]
  /\ todo' # todo
  /\ UNCHANGED <<row, reserved, used, live, faults, sync, job, jobOthers>>

\* The loop's list: rows in Deleting, and rows whose TTL has passed.
ReconcileTick ==
  /\ "reconcile" \in Loops
  /\ job[Loop].pc = "idle"
  /\ todo = [s \in Sandbox |-> NoRow]
  /\ todo' = [s \in Sandbox |->
                IF row[s].phase = "Deleting" \/ (Exists(s) /\ s \in expired)
                THEN row[s] ELSE NoRow]
  /\ todo' # todo
  /\ UNCHANGED <<row, reserved, used, live, faults, sync, job, jobOthers>>

\* A Deleting row is finalized; an expired one is marked Deleting first.
ReconcileVisit(s) ==
  /\ job[Loop].pc = "idle"
  /\ todo[s] # NoRow
  /\ todo' = [todo EXCEPT ![s] = NoRow]
  /\ JobBecomes(Loop, [pc   |-> IF todo[s].phase = "Deleting" THEN "lookup" ELSE "mark",
                       sb   |-> s,
                       snap |-> Deleting(todo[s])])
  /\ UNCHANGED <<row, reserved, used, live, faults, sync, jobOthers>>

JobMark(w) ==
  /\ job[w].pc = "mark"
  /\ UpdateSandboxStatus(job[w].sb, job[w].snap)
  /\ To(w, "lookup")
  /\ UNCHANGED <<reserved, used, live, faults, todo, jobOthers>>

\* finalizeSandboxDelete: the node is skipped when the copy names none or when
\* it is no longer registered.
JobLookup(w) ==
  /\ job[w].pc = "lookup"
  /\ To(w, IF job[w].snap.node \in registered THEN "call" ELSE "release")
  /\ UNCHANGED <<row, reserved, used, live, faults, sync, todo, jobOthers>>

\* (Faulty variant: the cleanup goes on after a failed call.)
JobCallTolerant(w) ==
  /\ job[w].pc = "call"
  /\ \/ CallDeletes(job[w].snap.node, job[w].sb)
     \/ CallFails(job[w].snap.node, job[w].sb)
  /\ To(w, "release")
  /\ UNCHANGED <<row, reserved, used, sync, todo, jobOthers>>

JobCall(w) ==
  /\ job[w].pc = "call"
  /\ \/ CallDeletes(job[w].snap.node, job[w].sb) /\ To(w, "release")
     \/ CallFails(job[w].snap.node, job[w].sb) /\ To(w, "failed")
  /\ UNCHANGED <<row, reserved, used, sync, todo, jobOthers>>

\* LastError is stored with the copy of the row, in phase Deleting.
JobFailed(w) ==
  /\ job[w].pc = "failed"
  /\ UpdateSandboxStatus(job[w].sb, job[w].snap)
  /\ End(w, "done")
  /\ UNCHANGED <<reserved, used, live, faults, todo, jobOthers>>

JobRelease(w) ==
  /\ job[w].pc = "release"
  /\ ReleaseSandboxPorts(job[w].sb)
  /\ To(w, "remove")
  /\ UNCHANGED <<row, used, live, faults, sync, todo, jobOthers>>

JobRemove(w) ==
  /\ job[w].pc = "remove"
  /\ DeleteRow(job[w].sb)
  /\ IF job[w].snap.node = NoNode THEN End(w, "acked") ELSE To(w, "account")
  /\ UNCHANGED <<used, live, faults, todo, jobOthers>>

\* adjustNodeUsageForSandbox(-1)
JobAccount(w) ==
  /\ job[w].pc = "account"
  /\ used' = Decremented(job[w].snap.node)
  /\ End(w, "acked")
  /\ UNCHANGED <<row, reserved, live, faults, sync, todo, jobOthers>>

\* The client hangs up: the request's context is cancelled, no later statement
\* of the handler is executed.
ClientGone(w) ==
  /\ job[w].pc \in {"mark", "lookup", "call", "failed", "release", "remove", "account"}
  /\ Fault
  /\ JobBecomes(w, [IdleJob EXCEPT !.pc = "done"])
  /\ UNCHANGED <<row, reserved, used, live, sync, todo, jobOthers>>

FinalizeStep(w) ==
  \/ JobMark(w) \/ JobLookup(w) \/ JobCall(w) \/ JobFailed(w)
  \/ JobRelease(w) \/ JobRemove(w) \/ JobAccount(w)

ReconcileStep ==
  ReconcileTick \/ (\E s \in Sandbox : ReconcileVisit(s)) \/ FinalizeStep(Loop)

-----------------------------------------------------------------------------
(***************************************************************************)
(* The status-sync loop: one list for all nodes, then one goroutine for    *)
(* each node; the next pass starts when all of them are done.              *)
(***************************************************************************)
syncOthers == <<reserved, registered, ready, used, live, expired, doomed, creates, restarts,
                sched, job, todo, removal, ipDue, report>>

SyncBecomes(n, x) == sync' = [sync EXCEPT ![n] = x]

BatchOf(n) == {s \in Sandbox : row[s].node = n
                               /\ row[s].phase \in {"Scheduled", "Running", "Failed"}}

SyncTick ==
  /\ "statusSync" \in Loops
  /\ \A n \in Node : sync[n].pc = "idle"
  /\ \E n \in Node : BatchOf(n) # {}
  /\ sync' = [n \in Node |->
                IF BatchOf(n) = {} THEN IdleSync
                ELSE [IdleSync EXCEPT !.pc = "lookup", !.batch = BatchOf(n)]]
  /\ UNCHANGED <<row, faults, syncOthers>>

SyncLookup(n) ==
  /\ sync[n].pc = "lookup"
  /\ SyncBecomes(n, IF n \in registered THEN [sync[n] EXCEPT !.pc = "ask"] ELSE IdleSync)
  /\ UNCHANGED <<row, faults, syncOthers>>

\* refreshSandboxRuntimeState: GetSandbox asks the runtime about the containers.  Those
\* it knows nothing of are errors: the containers of a sandbox in deletion once they
\* are gone, and all that run when the runtime does not answer.
Reported(phase, answers) ==
  CASE phase = "deleting" -> {"deleting", "error"}
    [] phase = "running" -> {IF answers THEN "running" ELSE "error"}
    [] OTHER -> {phase}

\* POST /v1/sandboxes/statuses: what the node has of the batch, the rest missing.
Statuses(n, answers) ==
  {seen \in [Sandbox -> NodePhases] :
     \A s \in Sandbox : seen[s] \in IF s \in sync[n].batch
                                    THEN Reported(live[n][s].phase, answers) ELSE {"absent"}}

SyncAsk(n) ==
  /\ sync[n].pc = "ask"
  /\ \/ \E answers \in BOOLEAN : \E seen \in Statuses(n, answers) :
          /\ IF answers THEN NoFault ELSE Fault
          /\ SyncBecomes(n, [sync[n] EXCEPT !.pc = "merge", !.seen = seen])
     \/ Fault /\ SyncBecomes(n, IdleSync)
  /\ UNCHANGED <<row, syncOthers>>

\* mergeSandboxPhaseWithNodeState, and the branch for missing sandboxes.
MergedPhase(phase, seen) ==
  CASE seen = "absent" -> "Failed"
    [] seen = "error" -> "Failed"
    [] seen = "running" -> "Running"
    [] seen = "creating" -> IF phase = "Running" THEN "Scheduled" ELSE phase
    [] seen = "deleting" -> phase

\* Deleting rows are left alone; a Scheduled one may not be on the node yet.
SyncSkips(r, seen) ==
  \/ r.phase \in {"Absent", "Deleting"}
  \/ seen = "absent" /\ r.phase = "Scheduled"
  \/ seen # "absent" /\ MergedPhase(r.phase, seen) = r.phase

\* The row is read again and merged with what the node answered ...
SyncRead(n, s) ==
  /\ sync[n].pc = "merge"
  /\ s \in sync[n].batch
  /\ SyncBecomes(n,
       IF SyncSkips(row[s], sync[n].seen[s])
       THEN [sync[n] EXCEPT !.batch = @ \ {s}]
       ELSE [sync[n] EXCEPT !.pc = "swap", !.batch = @ \ {s}, !.sb = s, !.current = TRUE,
                            !.next = [row[s] EXCEPT !.phase = MergedPhase(@, sync[n].seen[s])]])
  /\ UNCHANGED <<row, faults, syncOthers>>

\* ... and written if updated_at is still the one read.
SyncSwap(n) ==
  /\ sync[n].pc = "swap"
  /\ row' = IF sync[n].current THEN [row EXCEPT ![sync[n].sb] = sync[n].next] ELSE row
  /\ sync' = [Outdated(sync, sync[n].sb) EXCEPT
                ![n] = [sync[n] EXCEPT !.pc = "merge", !.sb = NoSandbox,
                                       !.next = NoRow, !.current = FALSE]]
  /\ UNCHANGED <<faults, syncOthers>>

\* StatusSyncTimeout passes: every later statement of the batch fails.
SyncTimeout(n) ==
  /\ sync[n].pc \in {"merge", "swap"}
  /\ Fault
  /\ SyncBecomes(n, IdleSync)
  /\ UNCHANGED <<row, syncOthers>>

SyncDone(n) ==
  /\ sync[n].pc = "merge"
  /\ sync[n].batch = {}
  /\ SyncBecomes(n, IdleSync)
  /\ UNCHANGED <<row, faults, syncOthers>>

SyncStep(n) ==
  \/ SyncLookup(n) \/ SyncAsk(n) \/ (\E s \in Sandbox : SyncRead(n, s))
  \/ SyncSwap(n) \/ SyncTimeout(n) \/ SyncDone(n)

-----------------------------------------------------------------------------
(***************************************************************************)
(* DELETE /nodes/{name}: DeleteNodeForce detaches the sandboxes a list     *)
(* shows on the node, then deletes the node's rows.                        *)
(***************************************************************************)
removalOthers == <<expired, doomed, creates, restarts, sched, job, todo, ipDue, report>>

RemovalBecomes(q, x) == removal' = [removal EXCEPT ![q] = x]
RemovalTo(q, pc)     == RemovalBecomes(q, [removal[q] EXCEPT !.pc = pc])

\* Without force an unknown node is an error.
RemovalStart(q, n) ==
  /\ removal[q].pc = "new"
  /\ RemovalBecomes(q, [removal[q] EXCEPT
       !.node = n,
       !.pc = IF n \in registered \/ q \in Forced THEN "list" ELSE "done"])
  /\ UNCHANGED <<dbVars, live, faults, sync, removalOthers>>

RemovalList(q) ==
  /\ removal[q].pc = "list"
  /\ RemovalBecomes(q, [removal[q] EXCEPT
       !.pc = "visit",
       !.list = [s \in Sandbox |-> IF row[s].node = removal[q].node THEN row[s] ELSE NoRow]])
  /\ UNCHANGED <<dbVars, live, faults, sync, removalOthers>>

\* The ports go first, whatever becomes of the sandbox; the phase in the list
\* decides what follows.
RemovalVisit(q, s) ==
  /\ removal[q].pc = "visit"
  /\ LET r == removal[q].list[s]
     IN  /\ r # NoRow
         /\ ReleaseSandboxPorts(s)
         /\ RemovalBecomes(q, [removal[q] EXCEPT
              !.list = [@ EXCEPT ![s] = NoRow],
              !.sb = s,
              !.pc = CASE r.phase = "Deleting" -> "drop"
                       [] r.phase \in {"Running", "Scheduled"} ->
                            IF q \in Forced THEN "detach" ELSE "call"
                       [] OTHER -> "visit"])
  /\ UNCHANGED <<row, registered, ready, used, live, faults, sync, removalOthers>>

RemovalDrop(q) ==
  /\ removal[q].pc = "drop"
  /\ DeleteRow(removal[q].sb)
  /\ RemovalTo(q, "visit")
  /\ UNCHANGED <<registered, ready, used, live, faults, removalOthers>>

\* A failed call ends the request: what was released stays released.
RemovalCall(q) ==
  /\ removal[q].pc = "call"
  /\ \/ CallDeletes(removal[q].node, removal[q].sb) /\ RemovalTo(q, "detach")
     \/ CallFails(removal[q].node, removal[q].sb) /\ RemovalTo(q, "done")
  /\ UNCHANGED <<dbVars, sync, removalOthers>>

\* "node removed", from the list's copy.
RemovalDetach(q) ==
  /\ removal[q].pc = "detach"
  /\ UpdateSandboxStatus(removal[q].sb, [PendingRow EXCEPT !.phase = "Failed"])
  /\ RemovalTo(q, "visit")
  /\ UNCHANGED <<reserved, registered, ready, used, live, faults, removalOthers>>

\* Every sandbox visited: without force the node is asked to reconcile.
RemovalVisited(q) ==
  /\ removal[q].pc = "visit"
  /\ removal[q].list = [s \in Sandbox |-> NoRow]
  /\ \/ NoFault /\ RemovalTo(q, "ports")
     \/ q \notin Forced /\ Fault /\ RemovalTo(q, "done")
  /\ UNCHANGED <<dbVars, live, sync, removalOthers>>

RemovalPorts(q) ==
  /\ removal[q].pc = "ports"
  /\ reserved' = [np \in Node \X HostPort |->
                    IF np[1] = removal[q].node THEN NoSandbox ELSE reserved[np]]
  /\ RemovalTo(q, "node")
  /\ UNCHANGED <<row, registered, ready, used, live, faults, sync, removalOthers>>

\* DELETE of node_resources, node_status and nodes: three statements, one step
\* here (NodeRegistry separates them).
RemovalNode(q) ==
  /\ removal[q].pc = "node"
  /\ registered' = registered \ {removal[q].node}
  /\ ready' = ready \ {removal[q].node}
  /\ used' = [used EXCEPT ![removal[q].node] = 0]
  /\ RemovalTo(q, "done")
  /\ UNCHANGED <<row, reserved, live, faults, sync, removalOthers>>

\* The client hangs up: what follows fails or is not reached.
RemovalGone(q) ==
  /\ removal[q].pc \notin {"new", "done"}
  /\ Fault
  /\ RemovalTo(q, "done")
  /\ UNCHANGED <<dbVars, live, sync, removalOthers>>

RemovalStep(q) ==
  \/ \E n \in Node : RemovalStart(q, n)
  \/ RemovalList(q) \/ (\E s \in Sandbox : RemovalVisit(q, s)) \/ RemovalDrop(q)
  \/ RemovalCall(q) \/ RemovalDetach(q) \/ RemovalVisited(q)
  \/ RemovalPorts(q) \/ RemovalNode(q)

-----------------------------------------------------------------------------
(***************************************************************************)
(* The resource-sync loop: a node reports what it has allocated; the       *)
(* answer is stored, or not, depending on the resource cache.              *)
(***************************************************************************)
ResourceRead(n) ==
  /\ "resourceSync" \in Loops
  /\ n \in registered
  /\ report[n] = NoReport
  /\ report' = [report EXCEPT ![n] = Cardinality(ActiveOn(n))]
  /\ UNCHANGED <<dbVars, envVars, sched, job, todo, removal, sync, ipDue>>

ResourceStore(n) ==
  /\ report[n] # NoReport
  /\ used' \in {used, [used EXCEPT ![n] = report[n]]}
  /\ report' = [report EXCEPT ![n] = NoReport]
  /\ UNCHANGED <<row, reserved, registered, ready, envVars,
                 sched, job, todo, removal, sync, ipDue>>

-----------------------------------------------------------------------------
(***************************************************************************)
(* sbxorch stops (SIGTERM or a crash) and starts again: the database is    *)
(* what remains.  A request that was being served is lost with it.         *)
(***************************************************************************)
Restart ==
  /\ restarts < MaxRestarts
  /\ restarts' = restarts + 1
  /\ sched' = IdleSched
  /\ job' = [w \in Worker |->
               IF w = Loop THEN IdleJob
               ELSE IF job[w].pc \in {"new", "acked", "done"} THEN job[w]
               ELSE [IdleJob EXCEPT !.pc = "done"]]
  /\ todo' = [s \in Sandbox |-> NoRow]
  /\ removal' = [q \in Remover |->
                   IF removal[q].pc = "new" THEN removal[q]
                   ELSE [removal[q] EXCEPT !.pc = "done"]]
  /\ sync' = [n \in Node |-> IdleSync]
  /\ ipDue' = {}
  /\ report' = [n \in Node |-> NoReport]
  /\ UNCHANGED <<dbVars, live, expired, doomed, creates, faults>>

-----------------------------------------------------------------------------
Init ==
  /\ row = [s \in Sandbox |-> NoRow]
  /\ reserved = [np \in Node \X HostPort |-> NoSandbox]
  /\ registered = {}
  /\ ready = {}
  /\ used = [n \in Node |-> 0]
  /\ live = [n \in Node |-> [s \in Sandbox |-> NotThere]]
  /\ expired = {}
  /\ creates = [s \in Sandbox |-> 0]
  /\ doomed = {}
  /\ sched = IdleSched
  /\ job = [w \in Worker |-> IF w = Loop THEN IdleJob ELSE [IdleJob EXCEPT !.pc = "new"]]
  /\ todo = [s \in Sandbox |-> NoRow]
  /\ removal = [q \in Remover |-> NewRemoval]
  /\ sync = [n \in Node |-> IdleSync]
  /\ ipDue = {}
  /\ report = [n \in Node |-> NoReport]
  /\ faults = 0
  /\ restarts = 0

\* Steps of the orchestrator's goroutines once they have something to do.
Orchestrator ==
  \/ SchedStep
  \/ \E s \in Sandbox : RefreshIP(s)
  \/ ReconcileStep
  \/ \E w \in Deleter : FinalizeStep(w)
  \/ SyncTick \/ \E n \in Node : SyncStep(n)
  \/ \E q \in Remover : RemovalStep(q)
  \/ \E n \in Node : ResourceRead(n) \/ ResourceStore(n)

Environment ==
  \/ \E s \in Sandbox : CreateSandbox(s) \/ Expire(s)
  \/ \E w \in Deleter : (\E s \in Sandbox : DeleteRead(w, s)) \/ ClientGone(w)
  \/ \E q \in Remover : RemovalGone(q)
  \/ \E n \in Node : RegisterNode(n) \/ Heartbeat(n)
  \/ \E n \in Node, s \in Sandbox :
       \/ SbxletReady(n, s) \/ SbxletRecovers(n, s) \/ SbxletBreaks(n, s) \/ SbxletRemoves(n, s)
       \/ NodeCreateSandbox(n, s) \/ NodeDeleteSandbox(n, s)
  \/ Restart

Next == Orchestrator \/ Environment

Spec == Init /\ [][Next]_vars

(***************************************************************************)
(* Every loop is a ticker in a goroutine of its own, and calls have a      *)
(* timeout, so each goroutine goes on; provisioning on a node ends.        *)
(* Nothing is assumed of clients, clocks, registrations or restarts.       *)
(***************************************************************************)
Fairness ==
  /\ WF_vars(SchedStep)
  /\ WF_vars(ReconcileStep)
  /\ \A w \in Deleter : WF_vars(FinalizeStep(w))
  /\ WF_vars(SyncTick)
  /\ \A n \in Node : WF_vars(SyncStep(n))
  /\ \A n \in Node, s \in Sandbox : WF_vars(SbxletReady(n, s))

FairSpec == Spec /\ Fairness

-----------------------------------------------------------------------------
(***************************************************************************)
(* Properties.                                                             *)
(***************************************************************************)
\* The scheduler works for a sandbox except when it is idle or picks the next.
SchedOK ==
  /\ sched \in Sched
  /\ sched.pc \notin {"idle", "pick"} => sched.sb \in Sandbox
  /\ sched.pc = "reserve" => sched.node \in Node

\* Type correctness of the tables, of the nodes and of every goroutine's copies
\* (repo/node_repo.go migrate, types.SandboxStatus).
TypeOK ==
  /\ row \in [Sandbox -> Row]
  /\ reserved \in [Node \X HostPort -> Sandbox \cup {NoSandbox}]
  /\ registered \subseteq Node
  /\ ready \subseteq Node
  /\ used \in [Node -> Nat]
  /\ live \in [Node -> [Sandbox -> OnNode]]
  /\ expired \subseteq Sandbox
  /\ creates \in [Sandbox -> Nat]
  /\ doomed \subseteq Sandbox
  /\ SchedOK
  /\ job \in [Worker -> Job]
  /\ todo \in [Sandbox -> Row]
  /\ removal \in [Remover -> Removal]
  /\ sync \in [Node -> Sync]
  /\ ipDue \subseteq Sandbox
  /\ report \in [Node -> Nat \cup {NoReport}]
  /\ faults \in Nat
  /\ restarts \in Nat

\* The ports the scheduler has chosen are still free when it reserves them, with
\* deletions, node removals and status sync running in between: the branch of
\* scheduleOne for ErrPortReservationConflict is never taken for a taken port
\* (sandbox_ops.go, scheduleOne; sandbox_repo.go, ReserveSandboxPortsAndSchedule).
ChosenPortsAreFree == sched.pc = "reserve" => ~ PortConflict

\* A write of status sync leaves a row alone that is being deleted or is gone, and
\* changes nothing but the phase of any other, whatever happened since its read:
\* "Do not override destructive transitions from other workflows."
\* (sandbox_ops.go, syncNodeSandboxBatch).
ChangesOnlyPhases ==
  \A n \in Node, s \in Sandbox :
    SyncSwap(n) =>
      /\ row'[s].node = row[s].node
      /\ row'[s].ports = row[s].ports
      /\ row[s].phase \in {"Absent", "Deleting"} => row'[s].phase = row[s].phase

SyncChangesOnlyPhases == [][ChangesOnlyPhases]_vars

Quiet ==
  /\ sched.pc = "idle"
  /\ \A w \in Worker : job[w].pc \in {"new", "idle", "acked", "done"}
  /\ \A q \in Remover : removal[q].pc \in {"new", "done"}

\* Between operations, with no call lost and every id used once, sandbox_ports and
\* the statuses agree: a reserved port is an assigned port of its owner on that
\* node, and a Scheduled or Running sandbox of a node nobody removed holds the
\* reservation of each of its ports (scheduleOne, finalizeSandboxDelete,
\* detachNodeSandboxes).
PortsAgree ==
  Quiet =>
    /\ \A n \in Node, p \in HostPort :
         LET s == reserved[<<n, p>>]
         IN  s # NoSandbox => row[s].node = n /\ p \in row[s].ports
    /\ \A s \in Sandbox :
         /\ row[s].phase \in {"Scheduled", "Running"}
         /\ \A q \in Remover : removal[q].node # row[s].node
         =>
           \A p \in row[s].ports : reserved[<<row[s].node, p>>] = s

\* Nobody's sandbox is deleted that was not meant: a row leaves for Deleting, or goes,
\* only after a request or its TTL asked for it, or when the id was created while a
\* goroutine still worked for an earlier sandbox of that id.  The stale copies that the
\* scheduler, node removals and the loop write back bring no deletion to other rows
\* (DeleteSandbox, runSandboxReconcileOnce, detachNodeSandboxes).
OnlyDoomedGo ==
  \A s \in Sandbox :
    creates[s] > 0 /\ s \notin doomed => row[s].phase \notin {"Absent", "Deleting"}

\* A sandbox is never on two registered nodes, even if the answer of its creation
\* or of its deletion was lost and the id was used again: a Failed row keeps the
\* name of the node that may have it (scheduleOne, finalizeSandboxDelete).
AtMostOneNode ==
  \A s \in Sandbox, m, n \in registered :
    live[m][s].phase # "absent" /\ live[n][s].phase # "absent" => m = n

\* A sandbox does not stay in Deleting: whatever failed, was lost or was
\* interrupted by a restart, the reconcile loop takes the deletion up again
\* (runSandboxReconcileOnce).
DeletingIsLeft ==
  \A s \in Sandbox : row[s].phase = "Deleting" ~> row[s].phase # "Deleting"

\* A Scheduled sandbox has a creation in progress and leaves the phase
\* (scheduleOne; docs/orchestrator.md, Sandbox status.phase).
ScheduledIsLeft ==
  \A s \in Sandbox : row[s].phase = "Scheduled" ~> row[s].phase # "Scheduled"

\* Sandboxes the scheduler has placed on a node have distinct host ports
\* (TestScheduler_AssignsDistinctPortsAcrossSandboxes).
DistinctPorts ==
  \A s, t \in Sandbox :
    /\ s # t
    /\ {row[s].phase, row[t].phase} \subseteq {"Scheduled", "Running"}
    /\ row[s].node = row[t].node
    => row[s].ports \cap row[t].ports = {}

\* sandbox_ports is a ledger of host ports, with the rows as the ids in use: grants take
\* free ports only and all at once, no port changes hands without being given back, and
\* none outlives its owner, although deletions, removals and the scheduler work from
\* stale copies (ReserveSandboxPortsAndSchedule, DeleteSandbox of sandbox_repo.go).
Ledger == INSTANCE PortLedger WITH owner <- reserved, alive <- {s \in Sandbox : Exists(s)}

PortsAreALedger == Ledger!Spec

\* What the orchestrator sees of an id on a node is what sbxlet promises of it, for
\* calls that fail halfway and for requests to the node that bypass the tables as well
\* (client/do.go, http/handlers/handler.go; Sbxlet shows that sbxlet keeps the promise).
Agents == INSTANCE NodeAgent WITH
            Id <- Node \X Sandbox,
            phase <- [ns \in Node \X Sandbox |-> live[ns[1]][ns[2]].phase]

NodesAreAgents == Agents!Spec

\* When the deletion of a sandbox whose id was used once was answered 200 and the
\* scheduler is not busy with the id, no node has the sandbox any more: "requests
\* runtime deletion on assigned node" (http/handlers/handler.go, DeleteSandbox).
DeletedMeansGone ==
  \A w \in Deleter :
    LET s == job[w].sb
    IN  /\ job[w].pc = "acked"
        /\ creates[s] = 1
        /\ row[s].phase = "Absent"
        /\ sched.sb # s
        => \A n \in registered : live[n][s].phase = "absent"
=============================================================================
