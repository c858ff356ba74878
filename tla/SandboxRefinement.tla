-------------------------- MODULE SandboxRefinement -------------------------
(***************************************************************************)
(* SandboxControl implements PortLedger (sandbox_ports) and NodeAgent (the *)
(* sandboxes on each node), for every value of the constants.              *)
(***************************************************************************)
EXTENDS SandboxControlProofs

-----------------------------------------------------------------------------
(* The ledger.                                                             *)

Alive == {s \in Sandbox : Exists(s)}

LedgerStep == [Ledger!Next]_<<reserved, Alive>>

LEMMA StutterStep ==
  ASSUME UNCHANGED reserved, Alive' = Alive
  PROVE  LedgerStep
BY DEF LedgerStep

LEMMA ReturnStep ==
  ASSUME TypeOK, NEW s \in Sandbox \cup {NoSandbox}, UNCHANGED row,
         reserved' = PortsWithout(reserved, s)
  PROVE  LedgerStep
<1>1. Alive' = Alive
  BY DEF Alive, Exists
<1>2. CASE s = NoSandbox
  <2>1. reserved' = reserved
    BY <1>2 DEF TypeOK, PortsWithout
  <2> QED BY <1>1, <2>1, StutterStep
<1>3. CASE s \in Sandbox
  <2>1. Ledger!Return(s)
    BY <1>1 DEF Ledger!Return, Ledger!Without, PortsWithout, Alive
  <2> QED BY <1>3, <2>1 DEF LedgerStep, Ledger!Next
<1> QED BY <1>2, <1>3

LEMMA LeaveStep ==
  ASSUME TypeOK, NEW s \in Sandbox \cup {NoSandbox}, DeleteRow(s)
  PROVE  LedgerStep
<1>1. CASE s = NoSandbox
  <2>1. row' = row /\ reserved' = PortsWithout(reserved, s)
    BY <1>1, NamesAssumption DEF TypeOK, DeleteRow
  <2> QED BY <2>1, ReturnStep
<1>2. CASE s \in Sandbox
  <2>1. Alive' = Alive \ {s}
    BY <1>2 DEF Alive, Exists, DeleteRow, TypeOK, NoRow
  <2>2. Ledger!Leave(s)
    BY <2>1 DEF Ledger!Leave, Ledger!Without, PortsWithout, DeleteRow, Alive
  <2> QED BY <1>2, <2>2 DEF LedgerStep, Ledger!Next
<1> QED BY <1>1, <1>2

LEMMA UpdateStep ==
  ASSUME TypeOK, NEW s, NEW r \in Row, r.phase # "Absent",
         UpdateSandboxStatus(s, r)
  PROVE  Alive' = Alive
BY DEF UpdateSandboxStatus, TypeOK, Alive, Exists

LEMMA FailedRow ==
  /\ [PendingRow EXCEPT !.phase = "Failed"] \in Row
  /\ [PendingRow EXCEPT !.phase = "Failed"].phase # "Absent"
BY DEF PendingRow, Row, Phases

\* What is written over a row is the row of a sandbox that exists.
JobsDelete ==
  \A w \in Worker :
    job[w].pc \in {"mark", "lookup", "call", "failed"} => job[w].snap.phase = "Deleting"

LedgerInv == TypeOK /\ SwapsMatch /\ JobsDelete

LEMMA SchedulerLedger ==
  ASSUME TypeOK, SchedStep
  PROVE  LedgerStep
<1>1. CASE SchedTick \/ (\E s \in Sandbox : SchedPick(s)) \/ SchedReload \/ SchedLookup
           \/ SchedCall \/ SchedAccount
  <2>1. UNCHANGED <<row, reserved>>
    BY <1>1 DEF SchedTick, SchedPick, SchedReload, SchedLookup, SchedCall, SchedAccount, dbVars
  <2> QED BY <2>1, StutterStep DEF Alive, Exists
<1>2. CASE SchedFail \/ SchedCreateFailed \/ SchedMarkRunning
  <2>1. CASE SchedFail
    BY <2>1, FailedRow, UpdateStep, StutterStep DEF SchedFail
  <2>2. CASE SchedCreateFailed
    <3>1. [sched.fresh EXCEPT !.phase = "Failed"] \in Row
          /\ [sched.fresh EXCEPT !.phase = "Failed"].phase = "Failed"
      BY PhaseType DEF TypeOK, SchedOK, Sched, Phases, Row
    <3> QED BY <2>2, <3>1, UpdateStep, StutterStep DEF SchedCreateFailed
  <2>3. CASE SchedMarkRunning
    <3>1. [sched.fresh EXCEPT !.phase = "Running"] \in Row
          /\ [sched.fresh EXCEPT !.phase = "Running"].phase = "Running"
      BY PhaseType DEF TypeOK, SchedOK, Sched, Phases, Row
    <3> QED BY <2>3, <3>1, UpdateStep, StutterStep DEF SchedMarkRunning
  <2> QED BY <1>2, <2>1, <2>2, <2>3
<1>3. CASE SchedReserve
  <2>1. CASE Exists(sched.sb) /\ ~ PortConflict
    <3>1. sched.sb \in Sandbox /\ sched.node \in Node /\ sched.ports \in SUBSET HostPort
      BY <1>3 DEF SchedReserve, TypeOK, SchedOK, Sched
    <3>2. Alive' = Alive
      <4>1. [phase |-> "Scheduled", node |-> sched.node, ports |-> sched.ports] \in Row
        BY <3>1 DEF Row, Phases
      <4> QED BY <1>3, <2>1, <4>1, UpdateStep DEF SchedReserve
    <3>3. Ledger!Grant(sched.sb, sched.node, sched.ports)
      BY <1>3, <2>1, <3>1, <3>2
         DEF SchedReserve, Ledger!Grant, PortConflict, Alive
    <3> QED BY <3>1, <3>3 DEF LedgerStep, Ledger!Next
  <2>2. CASE ~ (Exists(sched.sb) /\ ~ PortConflict)
    BY <1>3, <2>2, StutterStep DEF SchedReserve, Alive, Exists
  <2> QED BY <2>1, <2>2
<1>4. CASE SchedRelease
  <2>1. sched.sb \in Sandbox
    BY <1>4 DEF SchedRelease, TypeOK, SchedOK
  <2> QED BY <1>4, <2>1, ReturnStep DEF SchedRelease, ReleaseSandboxPorts
<1> QED BY <1>1, <1>2, <1>3, <1>4 DEF SchedStep

LEMMA FinalizeLedger ==
  ASSUME TypeOK, JobsDelete, NEW w \in Worker, FinalizeStep(w)
  PROVE  LedgerStep
<1>0. job[w].sb \in Sandbox \cup {NoSandbox} /\ job[w].snap \in Row
  BY DEF TypeOK, Job
<1>1. CASE JobMark(w) \/ JobFailed(w)
  <2>1. job[w].snap.phase = "Deleting" /\ UpdateSandboxStatus(job[w].sb, job[w].snap)
        /\ UNCHANGED reserved
    BY <1>1 DEF JobMark, JobFailed, JobsDelete
  <2> QED BY <1>0, <2>1, UpdateStep, StutterStep
<1>2. CASE JobLookup(w) \/ JobCall(w) \/ JobAccount(w)
  BY <1>2, StutterStep DEF JobLookup, JobCall, JobAccount, Alive, Exists
<1>3. CASE JobRelease(w)
  BY <1>0, <1>3, ReturnStep DEF JobRelease, ReleaseSandboxPorts
<1>4. CASE JobRemove(w)
  BY <1>0, <1>4, LeaveStep DEF JobRemove
<1> QED BY <1>1, <1>2, <1>3, <1>4 DEF FinalizeStep

LEMMA SyncLedger ==
  ASSUME LedgerInv, NEW n \in Node, SyncStep(n)
  PROVE  LedgerStep
<1>1. UNCHANGED reserved
  BY DEF SyncStep, SyncLookup, SyncAsk, SyncRead, SyncSwap, SyncTimeout, SyncDone, syncOthers
<1>2. CASE UNCHANGED row
  BY <1>1, <1>2, StutterStep DEF Alive, Exists
<1>3. CASE SyncSwap(n) /\ sync[n].current
  <2>1. /\ sync[n].sb \in Sandbox /\ Exists(sync[n].sb)
        /\ sync[n].next.phase # "Absent"
    BY <1>3 DEF LedgerInv, SwapsMatch, Prepared, SyncSwap, Exists
  <2>2. row' = [row EXCEPT ![sync[n].sb] = sync[n].next]
    BY <1>3 DEF SyncSwap
  <2>3. Alive' = Alive
    BY <2>1, <2>2 DEF LedgerInv, TypeOK, Alive, Exists
  <2> QED BY <1>1, <2>3, StutterStep
<1> QED
  BY <1>2, <1>3 DEF SyncStep, SyncLookup, SyncAsk, SyncRead, SyncSwap, SyncTimeout, SyncDone

LEMMA RemovalLedger ==
  ASSUME TypeOK, NEW q \in Remover, RemovalStep(q)
  PROVE  LedgerStep
<1>0. removal[q].sb \in Sandbox \cup {NoSandbox} /\ removal[q].node \in Node \cup {NoNode}
  BY DEF TypeOK, Removal
<1>1. ASSUME NEW s \in Sandbox, RemovalVisit(q, s)
      PROVE  LedgerStep
  BY <1>1, ReturnStep DEF RemovalVisit, ReleaseSandboxPorts
<1>2. CASE RemovalDrop(q)
  BY <1>0, <1>2, LeaveStep DEF RemovalDrop
<1>3. CASE RemovalDetach(q)
  BY <1>3, FailedRow, UpdateStep, StutterStep DEF RemovalDetach
<1>4. CASE RemovalPorts(q)
  <2>1. Alive' = Alive
    BY <1>4 DEF RemovalPorts, Alive, Exists
  <2>2. CASE removal[q].node = NoNode
    <3>1. reserved' = reserved
      BY <1>4, <2>2, NamesAssumption DEF RemovalPorts, TypeOK
    <3> QED BY <2>1, <3>1, StutterStep
  <2>3. CASE removal[q].node \in Node
    <3>1. Ledger!Close(removal[q].node)
      BY <1>4, <2>1 DEF RemovalPorts, Ledger!Close, Alive
    <3> QED BY <2>3, <3>1 DEF LedgerStep, Ledger!Next
  <2> QED BY <1>0, <2>2, <2>3
<1>5. CASE UNCHANGED <<row, reserved>>
  BY <1>5, StutterStep DEF Alive, Exists
<1> QED
  BY <1>1, <1>2, <1>3, <1>4, <1>5
     DEF RemovalStep, RemovalStart, RemovalList, RemovalCall, RemovalVisited, RemovalNode, dbVars

LEMMA CreationLedger ==
  ASSUME TypeOK, NEW s \in Sandbox, CreateSandbox(s)
  PROVE  LedgerStep
<1>1. s \notin Alive /\ UNCHANGED reserved
  BY DEF CreateSandbox, Alive
<1>2. Alive' = Alive \cup {s}
  BY DEF CreateSandbox, Alive, Exists, PendingRow, TypeOK
<1>3. Ledger!Join(s)
  BY <1>1, <1>2 DEF Ledger!Join, Alive
<1> QED BY <1>3 DEF LedgerStep, Ledger!Next

LEMMA NextLedger ==
  ASSUME LedgerInv, [Next]_vars
  PROVE  LedgerStep
<1>0. TypeOK /\ JobsDelete
  BY DEF LedgerInv
<1>1. CASE SchedStep
  BY <1>0, <1>1, SchedulerLedger
<1>2. ASSUME NEW w \in Worker, FinalizeStep(w) PROVE LedgerStep
  BY <1>0, <1>2, FinalizeLedger
<1>3. CASE ReconcileStep
  <2>1. CASE ReconcileTick \/ \E s \in Sandbox : ReconcileVisit(s)
    BY <2>1, StutterStep DEF ReconcileTick, ReconcileVisit, Alive, Exists
  <2> QED BY <1>2, <1>3, <2>1 DEF ReconcileStep, Worker
<1>4. ASSUME NEW n \in Node, SyncStep(n) PROVE LedgerStep
  BY <1>4, SyncLedger
<1>5. ASSUME NEW q \in Remover, RemovalStep(q) PROVE LedgerStep
  BY <1>0, <1>5, RemovalLedger
<1>6. ASSUME NEW s \in Sandbox, RefreshIP(s) PROVE LedgerStep
  <2>1. CASE row[s].phase \notin {"Absent", "Deleting"} /\ UpdateSandboxStatus(s, row[s])
    <3>1. row[s] \in Row
      BY <1>0 DEF TypeOK
    <3> QED BY <1>0, <1>6, <2>1, <3>1, UpdateStep, StutterStep DEF RefreshIP
  <2> QED BY <1>6, <2>1, StutterStep DEF RefreshIP, Alive, Exists
<1>7. CASE SyncTick \/ \E n \in Node : ResourceRead(n) \/ ResourceStore(n)
  BY <1>7, StutterStep DEF SyncTick, syncOthers, ResourceRead, ResourceStore, dbVars, Alive, Exists
<1>8. ASSUME NEW s \in Sandbox, CreateSandbox(s) PROVE LedgerStep
  BY <1>0, <1>8, CreationLedger
<1>9. CASE Environment /\ ~ \E s \in Sandbox : CreateSandbox(s)
  <2>1. UNCHANGED <<row, reserved>>
    BY <1>9 DEF Environment, Expire, DeleteRead, ClientGone, RemovalGone, RegisterNode, Heartbeat,
                SbxletReady, SbxletRecovers, SbxletBreaks, SbxletRemoves, NodeCreateSandbox,
                NodeDeleteSandbox, Restart, dbVars, actors, jobOthers
  <2> QED BY <2>1, StutterStep DEF Alive, Exists
<1>10. CASE UNCHANGED vars
  BY <1>10, StutterStep DEF vars, dbVars, Alive, Exists
<1> QED
  BY <1>1, <1>2, <1>3, <1>4, <1>5, <1>6, <1>7, <1>8, <1>9, <1>10
     DEF Next, Orchestrator, Worker

(* The strengthening is inductive.                                         *)

LEMMA JobsKept ==
  ASSUME TypeOK, JobsDelete, [Next]_vars
  PROVE  JobsDelete'
<1>1. ASSUME NEW w \in Worker, FinalizeStep(w) \/ (w \in Deleter /\ ClientGone(w))
      PROVE  JobsDelete'
  <2> DEFINE working == {"mark", "lookup", "call", "failed"}
  <2>0. job[w] \in Job
    BY DEF TypeOK
  <2>1. ASSUME NEW pc, To(w, pc), pc \in working => job[w].pc \in working
        PROVE  JobsDelete'
    <3>1. [job[w] EXCEPT !.pc = pc].pc = pc /\ [job[w] EXCEPT !.pc = pc].snap = job[w].snap
      BY <2>0 DEF Job
    <3> QED BY <2>1, <3>1 DEF To, JobBecomes, TypeOK, JobsDelete
  <2>2. ASSUME NEW x, JobBecomes(w, x), x.pc \notin working
        PROVE  JobsDelete'
    BY <2>2 DEF JobBecomes, TypeOK, JobsDelete
  <2>3. CASE JobMark(w) \/ JobLookup(w) \/ JobCall(w) \/ JobRelease(w)
    BY <2>1, <2>3 DEF JobMark, JobLookup, JobCall, JobRelease
  <2>4. CASE JobFailed(w) \/ JobAccount(w) \/ JobRemove(w)
    <3>1. ASSUME NEW answer \in {"acked", "done"}, End(w, answer) PROVE JobsDelete'
      BY <2>2, <3>1 DEF End, IdleJob
    <3> QED BY <2>1, <2>4, <3>1 DEF JobFailed, JobAccount, JobRemove
  <2>5. CASE ClientGone(w)
    BY <2>2, <2>5 DEF ClientGone, IdleJob
  <2> QED BY <1>1, <2>3, <2>4, <2>5 DEF FinalizeStep
<1>2. ASSUME NEW s \in Sandbox, ReconcileVisit(s)
      PROVE  JobsDelete'
  BY <1>2 DEF ReconcileVisit, JobBecomes, Deleting, JobsDelete, TypeOK, Row
<1>3. ASSUME NEW w \in Deleter, NEW s \in Sandbox, DeleteRead(w, s)
      PROVE  JobsDelete'
  <2>1. \A v \in Worker \ {w} : job'[v] = job[v]
    BY <1>3 DEF DeleteRead, To, JobBecomes, TypeOK
  <2>2. job[w] \in Job /\ w \in Worker
    BY DEF TypeOK, Worker
  <2>3. row[s] \in Row
    BY DEF TypeOK
  <2>4. [row[s] EXCEPT !.phase = "Deleting"].phase = "Deleting"
    BY <2>3 DEF Row
  <2>5. [job[w] EXCEPT !.pc = "done"].pc = "done"
    BY <2>2 DEF Job
  <2>6. CASE To(w, "done")
    <3>1. job'[w].pc = "done"
      BY <2>2, <2>5, <2>6 DEF To, JobBecomes, TypeOK
    <3> QED BY <2>1, <3>1 DEF JobsDelete
  <2>7. CASE JobBecomes(w, [pc |-> "mark", sb |-> s, snap |-> Deleting(row[s])])
    <3>1. job'[w].snap = Deleting(row[s])
      BY <2>2, <2>7 DEF JobBecomes, TypeOK
    <3> QED BY <2>1, <2>4, <3>1 DEF JobsDelete, Deleting
  <2> QED BY <1>3, <2>6, <2>7 DEF DeleteRead
<1>4. CASE Restart
  BY <1>4 DEF Restart, JobsDelete, IdleJob
<1>5. CASE UNCHANGED job
  BY <1>5 DEF JobsDelete
<1>6. CASE SchedStep
  BY <1>5, <1>6
     DEF SchedStep, SchedTick, SchedPick, SchedFail, SchedReserve, SchedReload, SchedLookup,
         SchedCall, SchedCreateFailed, SchedRelease, SchedMarkRunning, SchedAccount, schedOthers
<1>7. CASE SyncTick \/ (\E n \in Node : SyncStep(n)) \/ (\E s \in Sandbox : RefreshIP(s))
           \/ (\E n \in Node : ResourceRead(n) \/ ResourceStore(n))
  BY <1>5, <1>7
     DEF SyncTick, SyncStep, SyncLookup, SyncAsk, SyncRead, SyncSwap, SyncTimeout, SyncDone,
         syncOthers, RefreshIP, ResourceRead, ResourceStore
<1>8. CASE \E q \in Remover : RemovalStep(q) \/ RemovalGone(q)
  BY <1>5, <1>8
     DEF RemovalStep, RemovalStart, RemovalList, RemovalVisit, RemovalDrop, RemovalCall,
         RemovalDetach, RemovalVisited, RemovalPorts, RemovalNode, RemovalGone, removalOthers
<1>9. CASE ReconcileTick
  BY <1>5, <1>9 DEF ReconcileTick
<1>10. CASE /\ Environment /\ ~ Restart /\ ~ \E q \in Remover : RemovalGone(q)
            /\ ~ \E w \in Deleter : ClientGone(w) \/ \E s \in Sandbox : DeleteRead(w, s)
  BY <1>5, <1>10
     DEF Environment, CreateSandbox, Expire, RegisterNode, Heartbeat, SbxletReady,
         SbxletRecovers, SbxletBreaks, SbxletRemoves, NodeCreateSandbox, NodeDeleteSandbox, actors
<1>11. CASE UNCHANGED vars
  BY <1>5, <1>11 DEF vars, actors
<1> QED
  BY <1>1, <1>2, <1>3, <1>4, <1>6, <1>7, <1>8, <1>9, <1>10, <1>11
     DEF Next, Orchestrator, ReconcileStep, Worker


\* The table sandbox_ports behaves as a ledger of host ports whatever the goroutines
\* do with their stale copies: a grant is all or nothing and of free ports, a port is
\* given back before it is granted again, none outlives the row of its owner
\* (sandbox_repo.go, ReserveSandboxPortsAndSchedule, DeleteSandbox).
THEOREM PortsImplementLedger == Spec => PortsAreALedger
<1>1. Init => Ledger!Init
  BY DEF Init, Ledger!Init, Exists, NoRow
<1>2. Init => LedgerInv
  <2>1. Init => SwapsMatch
    BY DEF Init, SwapsMatch, Prepared, IdleSync
  <2>2. Init => JobsDelete
    BY DEF Init, JobsDelete, IdleJob
  <2> QED BY <2>1, <2>2, InitType DEF LedgerInv
<1>3. LedgerInv /\ [Next]_vars => LedgerInv'
  BY NextType, NextMatches, JobsKept DEF LedgerInv
<1>4. LedgerInv /\ [Next]_vars => [Ledger!Next]_Ledger!ledger
  BY NextLedger DEF LedgerStep, Ledger!ledger, Alive
<1> QED
  BY <1>1, <1>2, <1>3, <1>4, PTL DEF Spec, PortsAreALedger, Ledger!Spec

-----------------------------------------------------------------------------
(* The nodes.                                                              *)

Seen == [ns \in Node \X Sandbox |-> live[ns[1]][ns[2]].phase]

AgentStep == [Agents!Next]_Seen

LEMMA IdleNodes ==
  ASSUME UNCHANGED live
  PROVE  AgentStep
BY DEF AgentStep, Seen

\* One id on one node changes.
LEMMA SeenBecomes ==
  ASSUME TypeOK, NEW n \in Node, NEW s \in Sandbox, NEW x \in OnNode,
         live' = [live EXCEPT ![n][s] = x]
  PROVE  Agents!Becomes(<<n, s>>, x.phase)
<1>1. \A ns \in Node \X Sandbox :
        live'[ns[1]][ns[2]] = IF ns = <<n, s>> THEN x ELSE live[ns[1]][ns[2]]
  <2> SUFFICES ASSUME NEW m \in Node, NEW t \in Sandbox
               PROVE  live'[m][t] = IF m = n /\ t = s THEN x ELSE live[m][t]
    OBVIOUS
  <2>1. live[n] \in [Sandbox -> OnNode] /\ live[m] \in [Sandbox -> OnNode]
    BY DEF TypeOK
  <2> QED BY <2>1 DEF TypeOK
<1>2. \A ns \in Node \X Sandbox : Seen'[ns] = IF ns = <<n, s>> THEN x.phase ELSE Seen[ns]
  BY <1>1 DEF Seen
<1>3. Seen' = [Seen EXCEPT ![<<n, s>>] = x.phase]
  BY <1>2 DEF Seen
<1> QED BY <1>3 DEF Agents!Becomes, Seen

LEMMA SeenPhase ==
  ASSUME TypeOK, NEW n \in Node, NEW s \in Sandbox, NEW phase \in NodePhases,
         live' = [live EXCEPT ![n][s].phase = phase]
  PROVE  Agents!Becomes(<<n, s>>, phase)
<1> DEFINE x == [live[n][s] EXCEPT !.phase = phase]
<1>1. live[n] \in [Sandbox -> OnNode] /\ live[n][s] \in OnNode
  BY DEF TypeOK
<1>2. x \in OnNode /\ x.phase = phase
  BY <1>1 DEF OnNode
<1>3. live' = [live EXCEPT ![n][s] = x]
  BY <1>1 DEF TypeOK
<1> HIDE DEF x
<1> QED BY <1>2, <1>3, SeenBecomes

LEMMA AcceptStep ==
  ASSUME TypeOK, NEW n \in Node \cup {NoNode}, NEW s \in Sandbox, NEW ports \in SUBSET HostPort,
         NodeAccepts(n, s, ports),
         live' = [live EXCEPT ![n][s] = [phase |-> "creating", ports |-> ports]]
  PROVE  AgentStep
<1>1. CASE n = NoNode
  <2>1. live' = live
    BY <1>1, NamesAssumption DEF TypeOK
  <2> QED BY <2>1, IdleNodes
<1>2. CASE n \in Node
  <2>1. [phase |-> "creating", ports |-> ports] \in OnNode
    BY DEF OnNode, NodePhases
  <2>2. Agents!Becomes(<<n, s>>, "creating")
    BY <1>2, <2>1, SeenBecomes
  <2>3. Agents!Accept(<<n, s>>)
    BY <1>2, <2>2 DEF Agents!Accept, NodeAccepts
  <2> QED BY <1>2, <2>3 DEF AgentStep, Agents!Next
<1> QED BY <1>1, <1>2

LEMMA CallStep ==
  ASSUME TypeOK, NEW n \in Node \cup {NoNode}, NEW s \in Sandbox \cup {NoSandbox},
         CallDeletes(n, s) \/ CallFails(n, s)
  PROVE  AgentStep
<1>1. live' \in {live, Begun(n, s), Gone(n, s)}
  BY DEF CallDeletes, CallFails
<1>2. CASE live' = live
  BY <1>2, IdleNodes
<1>3. CASE n = NoNode
  <2>1. NoNode \notin Node /\ DOMAIN live = Node
    BY NamesAssumption DEF TypeOK
  <2>2. Gone(n, s) = live
    BY <1>3, <2>1 DEF Gone, TypeOK
  <2>3. Begun(n, s) = live
    BY <1>3, <2>1 DEF Begun, TypeOK
  <2> QED BY <1>1, <1>2, <2>2, <2>3
<1>4. CASE n \in Node /\ s = NoSandbox
  <2>1. live[n] \in [Sandbox -> OnNode] /\ NoSandbox \notin Sandbox
    BY <1>4, NamesAssumption DEF TypeOK
  <2>2. \A x : [live[n] EXCEPT ![NoSandbox] = x] = live[n]
    BY <2>1
  <2>3. \A p : [live[n] EXCEPT ![NoSandbox].phase = p] = live[n]
    BY <2>1
  <2>4. \A f : f = live[n] => [live EXCEPT ![n] = f] = live
    BY DEF TypeOK
  <2>5. Gone(n, s) = live
    BY <1>4, <2>2, <2>4 DEF Gone
  <2>6. Begun(n, s) = live
    BY <1>4, <2>3, <2>4 DEF Begun
  <2> QED BY <1>1, <1>2, <2>5, <2>6
<1>5. CASE n \in Node /\ s \in Sandbox /\ live' = Gone(n, s)
  <2>1. Agents!Becomes(<<n, s>>, "absent")
    BY <1>5, SeenBecomes, IdleTypes DEF Gone, NotThere
  <2> QED BY <1>5, <2>1 DEF Agents!Remove, AgentStep, Agents!Next
<1>6. CASE n \in Node /\ s \in Sandbox /\ live' = Begun(n, s) /\ live' # live
  <2>1. live[n][s].phase # "absent" /\ live' = [live EXCEPT ![n][s].phase = "deleting"]
    BY <1>6 DEF Begun
  <2>2. Agents!Becomes(<<n, s>>, "deleting")
    BY <1>6, <2>1, SeenPhase DEF NodePhases
  <2>3. Agents!Begin(<<n, s>>)
    BY <1>6, <2>1, <2>2 DEF Agents!Begin
  <2> QED BY <1>6, <2>3 DEF AgentStep, Agents!Next
<1> QED BY <1>1, <1>2, <1>3, <1>4, <1>5, <1>6

LEMMA SbxletStep ==
  ASSUME TypeOK, NEW n \in Node, NEW s \in Sandbox,
         \/ SbxletReady(n, s) \/ SbxletRecovers(n, s) \/ SbxletBreaks(n, s)
         \/ SbxletRemoves(n, s) \/ NodeCreateSandbox(n, s) \/ NodeDeleteSandbox(n, s)
  PROVE  AgentStep
<1>1. CASE SbxletReady(n, s) \/ SbxletRecovers(n, s)
  <2>1. live[n][s].phase \in {"creating", "error"} /\ live' = [live EXCEPT ![n][s].phase = "running"]
    BY <1>1 DEF SbxletReady, SbxletRecovers
  <2>2. Agents!Ready(<<n, s>>)
    BY <2>1, SeenPhase DEF Agents!Ready, NodePhases
  <2> QED BY <2>2 DEF AgentStep, Agents!Next
<1>2. CASE SbxletBreaks(n, s)
  <2>1. Agents!Break(<<n, s>>)
    BY <1>2, SeenPhase DEF SbxletBreaks, Agents!Break, NodePhases
  <2> QED BY <2>1 DEF AgentStep, Agents!Next
<1>3. CASE SbxletRemoves(n, s)
  <2>1. Agents!Becomes(<<n, s>>, "absent")
    BY <1>3, SeenBecomes, IdleTypes DEF SbxletRemoves, NotThere
  <2> QED BY <2>1 DEF Agents!Remove, AgentStep, Agents!Next
<1>4. CASE NodeCreateSandbox(n, s)
  BY <1>4, AcceptStep DEF NodeCreateSandbox
<1>5. CASE NodeDeleteSandbox(n, s)
  BY <1>5, CallStep DEF NodeDeleteSandbox
<1> QED BY <1>1, <1>2, <1>3, <1>4, <1>5

LEMMA NextAgents ==
  ASSUME TypeOK, [Next]_vars
  PROVE  AgentStep
<1>1. CASE SchedCall
  <2> DEFINE n == sched.fresh.node
             P == sched.fresh.ports
  <2>1. n \in Node \cup {NoNode} /\ sched.sb \in Sandbox /\ P \in SUBSET HostPort
    BY <1>1 DEF SchedCall, TypeOK, SchedOK, Sched, Row
  <2>2. \/ /\ NodeAccepts(n, sched.sb, P)
           /\ live' = [live EXCEPT ![n][sched.sb] = [phase |-> "creating", ports |-> P]]
        \/ UNCHANGED live
    BY <1>1 DEF SchedCall
  <2> HIDE DEF n, P
  <2> QED BY <2>1, <2>2, AcceptStep, IdleNodes
<1>2. ASSUME NEW w \in Worker, JobCall(w) PROVE AgentStep
  <2>1. job[w].snap.node \in Node \cup {NoNode} /\ job[w].sb \in Sandbox \cup {NoSandbox}
    BY DEF TypeOK, Job, Row
  <2> QED BY <1>2, <2>1, CallStep DEF JobCall
<1>3. ASSUME NEW q \in Remover, RemovalCall(q) PROVE AgentStep
  <2>1. removal[q].node \in Node \cup {NoNode} /\ removal[q].sb \in Sandbox \cup {NoSandbox}
    BY DEF TypeOK, Removal
  <2> QED BY <1>3, <2>1, CallStep DEF RemovalCall
<1>4. CASE SchedStep /\ ~ SchedCall
  BY <1>4, IdleNodes
     DEF SchedStep, SchedTick, SchedPick, SchedFail, SchedReserve, SchedReload, SchedLookup,
         SchedCreateFailed, SchedRelease, SchedMarkRunning, SchedAccount, envVars
<1>5. ASSUME NEW w \in Worker, FinalizeStep(w) /\ ~ JobCall(w) PROVE AgentStep
  BY <1>5, IdleNodes
     DEF FinalizeStep, JobMark, JobLookup, JobFailed, JobRelease, JobRemove, JobAccount
<1>6. CASE ReconcileStep
  BY <1>2, <1>5, <1>6, IdleNodes DEF ReconcileStep, ReconcileTick, ReconcileVisit, Worker
<1>7. ASSUME NEW q \in Remover, (RemovalStep(q) \/ RemovalGone(q)) /\ ~ RemovalCall(q)
      PROVE  AgentStep
  BY <1>7, IdleNodes
     DEF RemovalStep, RemovalStart, RemovalList, RemovalVisit, RemovalDrop, RemovalDetach,
         RemovalVisited, RemovalPorts, RemovalNode, RemovalGone
<1>8. CASE SyncTick \/ (\E n \in Node : SyncStep(n)) \/ (\E s \in Sandbox : RefreshIP(s))
           \/ (\E n \in Node : ResourceRead(n) \/ ResourceStore(n))
  BY <1>8, IdleNodes
     DEF SyncTick, SyncStep, SyncLookup, SyncAsk, SyncRead, SyncSwap, SyncTimeout, SyncDone,
         syncOthers, RefreshIP, ResourceRead, ResourceStore, envVars
<1>9. ASSUME NEW n \in Node, NEW s \in Sandbox,
             \/ SbxletReady(n, s) \/ SbxletRecovers(n, s) \/ SbxletBreaks(n, s)
             \/ SbxletRemoves(n, s) \/ NodeCreateSandbox(n, s) \/ NodeDeleteSandbox(n, s)
      PROVE  AgentStep
  BY <1>9, SbxletStep
<1>10. ASSUME \/ \E s \in Sandbox : CreateSandbox(s) \/ Expire(s)
              \/ \E w \in Deleter : (\E s \in Sandbox : DeleteRead(w, s)) \/ ClientGone(w)
              \/ \E n \in Node : RegisterNode(n) \/ Heartbeat(n)
              \/ Restart
              \/ UNCHANGED vars
       PROVE  AgentStep
  BY <1>10, IdleNodes
     DEF CreateSandbox, Expire, DeleteRead, ClientGone, RegisterNode, Heartbeat, Restart, vars,
         envVars
<1> QED
  BY <1>1, <1>2, <1>3, <1>4, <1>5, <1>6, <1>7, <1>8, <1>9, <1>10
     DEF Next, Orchestrator, Environment, Worker

\* What the orchestrator assumes of its nodes is no more than NodeAgent promises, on any
\* number of nodes, with calls lost or half done and with clients that go to the nodes
\* directly (client/do.go, http/handlers/handler.go).
THEOREM NodesImplementAgents == Spec => NodesAreAgents
<1>1. Init => Agents!Init
  BY DEF Init, Agents!Init, NotThere
<1>2. TypeOK /\ [Next]_vars => [Agents!Next]_Seen
  BY NextAgents DEF AgentStep
<1> QED
  BY <1>1, <1>2, TypeCorrect, PTL DEF Spec, NodesAreAgents, Agents!Spec, Seen
=============================================================================
