------------------------ MODULE SandboxControlProofs ------------------------
(***************************************************************************)
(* Theorems about SandboxControl for every set of sandboxes, nodes, host   *)
(* ports and requests, and all bounds.                                     *)
(***************************************************************************)
EXTENDS SandboxControl, FiniteSetTheorems, TLAPS

-----------------------------------------------------------------------------
(* Types of the constant states, and what the writes preserve.             *)

LEMMA RowTypes == NoRow \in Row /\ PendingRow \in Row
BY DEF NoRow, PendingRow, Row, Phases

LEMMA IdleTypes ==
  /\ IdleSched \in Sched
  /\ IdleJob \in Job
  /\ IdleSync \in Sync
  /\ NewRemoval \in Removal
  /\ NotThere \in OnNode
BY RowTypes DEF IdleSched, Sched, SchedPcs, IdleJob, Job, JobPcs, IdleSync, Sync, SyncPcs,
                NewRemoval, Removal, RemovalPcs, NotThere, OnNode, NodePhases

LEMMA PhaseType ==
  ASSUME NEW r \in Row, NEW phase \in Phases
  PROVE  [r EXCEPT !.phase = phase] \in Row
BY DEF Row

LEMMA OutdatedType ==
  ASSUME NEW sy \in [Node -> Sync], NEW s
  PROVE  Outdated(sy, s) \in [Node -> Sync]
BY DEF Outdated, Sync

LEMMA UpdateType ==
  ASSUME TypeOK, NEW s, NEW r \in Row, UpdateSandboxStatus(s, r)
  PROVE  row' \in [Sandbox -> Row] /\ sync' \in [Node -> Sync]
BY OutdatedType DEF TypeOK, UpdateSandboxStatus

LEMMA ReleaseType ==
  ASSUME TypeOK, NEW s
  PROVE  PortsWithout(reserved, s) \in [Node \X HostPort -> Sandbox \cup {NoSandbox}]
BY DEF TypeOK, PortsWithout

LEMMA DeleteRowType ==
  ASSUME TypeOK, NEW s, DeleteRow(s)
  PROVE  /\ row' \in [Sandbox -> Row] /\ sync' \in [Node -> Sync]
         /\ reserved' \in [Node \X HostPort -> Sandbox \cup {NoSandbox}]
BY RowTypes, ReleaseType, OutdatedType DEF TypeOK, DeleteRow

LEMMA FaultType ==
  ASSUME TypeOK, Fault \/ NoFault
  PROVE  faults' \in Nat
BY DEF TypeOK, Fault, NoFault

LEMMA LiveType ==
  ASSUME NEW l \in [Node -> [Sandbox -> OnNode]], NEW n, NEW s, NEW x \in OnNode
  PROVE  [l EXCEPT ![n][s] = x] \in [Node -> [Sandbox -> OnNode]]
<1>1. \A m \in Node : l[m] \in [Sandbox -> OnNode] /\ [l[m] EXCEPT ![s] = x] \in [Sandbox -> OnNode]
  OBVIOUS
<1> QED BY <1>1

LEMMA PhaseLiveType ==
  ASSUME NEW l \in [Node -> [Sandbox -> OnNode]], NEW n, NEW s, NEW phase \in NodePhases
  PROVE  [l EXCEPT ![n][s].phase = phase] \in [Node -> [Sandbox -> OnNode]]
<1>1. \A m \in Node : [l[m] EXCEPT ![s].phase = phase] \in [Sandbox -> OnNode]
  <2> SUFFICES ASSUME NEW m \in Node
               PROVE  [l[m] EXCEPT ![s].phase = phase] \in [Sandbox -> OnNode]
    OBVIOUS
  <2>1. \A t \in Sandbox : [l[m][t] EXCEPT !.phase = phase] \in OnNode
    BY DEF OnNode
  <2> QED BY <2>1
<1> QED BY <1>1

LEMMA CallType ==
  ASSUME TypeOK, NEW n, NEW s, CallDeletes(n, s) \/ CallFails(n, s)
  PROVE  live' \in [Node -> [Sandbox -> OnNode]] /\ faults' \in Nat
<1>1. Gone(n, s) \in [Node -> [Sandbox -> OnNode]]
  BY LiveType, IdleTypes DEF TypeOK, Gone
<1>2. Begun(n, s) \in [Node -> [Sandbox -> OnNode]]
  BY PhaseLiveType DEF TypeOK, Begun, NodePhases
<1>3. live' \in [Node -> [Sandbox -> OnNode]]
  BY <1>1, <1>2 DEF CallDeletes, CallFails, TypeOK
<1> QED BY <1>3, FaultType DEF CallDeletes, CallFails

LEMMA JobType ==
  ASSUME TypeOK, NEW w, NEW x \in Job, JobBecomes(w, x)
  PROVE  job' \in [Worker -> Job]
BY DEF TypeOK, JobBecomes

LEMMA ToType ==
  ASSUME TypeOK, NEW w \in Worker, NEW pc \in JobPcs, To(w, pc)
  PROVE  job' \in [Worker -> Job]
<1>1. [job[w] EXCEPT !.pc = pc] \in Job
  BY DEF TypeOK, Job
<1> QED BY <1>1, JobType DEF To

LEMMA EndType ==
  ASSUME TypeOK, NEW w \in Worker, NEW answer \in JobPcs, End(w, answer)
  PROVE  job' \in [Worker -> Job]
<1>1. [IdleJob EXCEPT !.pc = answer, !.sb = job[w].sb] \in Job
  BY IdleTypes DEF TypeOK, Job, IdleJob
<1> QED BY <1>1, IdleTypes, JobType DEF End

-----------------------------------------------------------------------------
(* Type correctness, one lemma for each group of actions.                  *)

LEMMA EnvironmentType ==
  ASSUME TypeOK, Environment
  PROVE  TypeOK'
<1>1. ASSUME NEW s \in Sandbox, CreateSandbox(s)
      PROVE  TypeOK'
  BY <1>1, RowTypes
     DEF CreateSandbox, TypeOK, SchedOK, actors
<1>2. ASSUME NEW s \in Sandbox, Expire(s)
      PROVE  TypeOK'
  BY <1>2
     DEF Expire, TypeOK, SchedOK, dbVars, actors
<1>3. ASSUME NEW w \in Deleter, NEW s \in Sandbox, DeleteRead(w, s)
      PROVE  TypeOK'
  <2>1. [pc |-> "mark", sb |-> s, snap |-> Deleting(row[s])] \in Job
    BY PhaseType DEF TypeOK, Deleting, Job, JobPcs, Phases
  <2>2. w \in Worker /\ "done" \in JobPcs
    BY DEF Worker, JobPcs
  <2>3. job' \in [Worker -> Job]
    BY <1>3, <2>1, <2>2, ToType, JobType DEF DeleteRead
  <2>4. doomed' \subseteq Sandbox
    BY <1>3 DEF DeleteRead, TypeOK
  <2> QED BY <1>3, <2>3, <2>4 DEF DeleteRead, TypeOK, SchedOK, dbVars
<1>4. ASSUME NEW w \in Deleter, ClientGone(w)
      PROVE  TypeOK'
  <2>1. [IdleJob EXCEPT !.pc = "done"] \in Job
    BY IdleTypes DEF Job, JobPcs
  <2>2. job' \in [Worker -> Job]
    BY <1>4, <2>1, JobType DEF ClientGone
  <2> QED BY <1>4, <2>2, FaultType DEF ClientGone, jobOthers, TypeOK, SchedOK
<1>5. ASSUME NEW n \in Node, RegisterNode(n)
      PROVE  TypeOK'
  BY <1>5
     DEF RegisterNode, TypeOK, SchedOK, envVars, actors
<1>6. ASSUME NEW n \in Node, Heartbeat(n)
      PROVE  TypeOK'
  BY <1>6, FaultType
     DEF Heartbeat, TypeOK, SchedOK, actors
<1>7. ASSUME NEW n \in Node, NEW s \in Sandbox, SbxletReady(n, s) \/ SbxletRecovers(n, s)
      PROVE  TypeOK'
  <2>1. live' = [live EXCEPT ![n][s].phase = "running"]
    BY <1>7 DEF SbxletReady, SbxletRecovers
  <2>2. live' \in [Node -> [Sandbox -> OnNode]]
    BY <2>1, PhaseLiveType DEF TypeOK, NodePhases
  <2> QED BY <1>7, <2>2 DEF SbxletReady, SbxletRecovers, TypeOK, SchedOK, dbVars, actors
<1>8. ASSUME NEW n \in Node, NEW s \in Sandbox, SbxletBreaks(n, s)
      PROVE  TypeOK'
  <2>1. live' = [live EXCEPT ![n][s].phase = "error"]
    BY <1>8 DEF SbxletBreaks
  <2>2. live' \in [Node -> [Sandbox -> OnNode]]
    BY <2>1, PhaseLiveType DEF TypeOK, NodePhases
  <2> QED BY <1>8, <2>2, FaultType DEF SbxletBreaks, TypeOK, SchedOK, dbVars, actors
<1>9. ASSUME NEW n \in Node, NEW s \in Sandbox, SbxletRemoves(n, s)
      PROVE  TypeOK'
  <2>1. live' \in [Node -> [Sandbox -> OnNode]]
    BY <1>9, LiveType, IdleTypes DEF TypeOK, SbxletRemoves
  <2> QED BY <1>9, <2>1 DEF SbxletRemoves, TypeOK, SchedOK, dbVars, actors
<1>10. ASSUME NEW q \in Remover, RemovalGone(q)
      PROVE  TypeOK'
  <2>1. [removal[q] EXCEPT !.pc = "done"] \in Removal
    BY DEF TypeOK, Removal, RemovalPcs
  <2>2. removal' \in [Remover -> Removal] /\ faults' \in Nat
    BY <1>10, <2>1, FaultType DEF RemovalGone, RemovalTo, RemovalBecomes, TypeOK
  <2> QED BY <1>10, <2>2 DEF RemovalGone, removalOthers, TypeOK, SchedOK, dbVars
<1>11. ASSUME Restart
      PROVE  TypeOK'
  <2>1. SchedOK'
    BY <1>11, IdleTypes DEF Restart, SchedOK, IdleSched
  <2>2. job' \in [Worker -> Job]
    <3>1. [IdleJob EXCEPT !.pc = "done"] \in Job
      BY IdleTypes DEF Job, JobPcs
    <3> QED BY <1>11, <3>1, IdleTypes DEF Restart, TypeOK
  <2>3. removal' \in [Remover -> Removal]
    <3>1. \A x \in Removal : [x EXCEPT !.pc = "done"] \in Removal
      BY DEF Removal, RemovalPcs
    <3> QED BY <1>11, <3>1 DEF Restart, TypeOK
  <2>4. /\ sync' \in [Node -> Sync] /\ todo' \in [Sandbox -> Row]
        /\ report' \in [Node -> Nat \cup {NoReport}]
    BY <1>11, IdleTypes, RowTypes DEF Restart
  <2>5. /\ UNCHANGED <<row, reserved, registered, ready, used, live, expired, doomed, creates, faults>>
        /\ ipDue' = {} /\ restarts' = restarts + 1
    BY <1>11 DEF Restart, dbVars
  <2> QED BY <2>1, <2>2, <2>3, <2>4, <2>5 DEF TypeOK
<1>12. ASSUME NEW n \in Node, NEW s \in Sandbox, NodeCreateSandbox(n, s)
       PROVE  TypeOK'
  <2>1. PICK P \in SUBSET HostPort :
          live' = [live EXCEPT ![n][s] = [phase |-> "creating", ports |-> P]]
    BY <1>12 DEF NodeCreateSandbox
  <2>2. [phase |-> "creating", ports |-> P] \in OnNode
    BY DEF OnNode, NodePhases
  <2>3. live' \in [Node -> [Sandbox -> OnNode]]
    BY <2>1, <2>2, LiveType DEF TypeOK
  <2> QED BY <1>12, <2>3 DEF NodeCreateSandbox, TypeOK, SchedOK, dbVars, actors
<1>13. ASSUME NEW n \in Node, NEW s \in Sandbox, NodeDeleteSandbox(n, s)
       PROVE  TypeOK'
  BY <1>13, CallType DEF NodeDeleteSandbox, TypeOK, SchedOK, dbVars, actors
<1> QED
  BY <1>1, <1>2, <1>3, <1>4, <1>5, <1>6, <1>7, <1>8, <1>9, <1>10, <1>11, <1>12, <1>13
     DEF Environment

LEMMA LeaveType ==
  ASSUME TypeOK, SchedLeave
  PROVE  SchedOK'
BY IdleTypes DEF TypeOK, SchedOK, SchedLeave, Sched, SchedPcs, IdleSched

LEMMA SchedTo ==
  ASSUME TypeOK, NEW pc \in SchedPcs \ {"reserve"}, sched.sb \in Sandbox,
         sched' = [sched EXCEPT !.pc = pc]
  PROVE  SchedOK'
BY DEF TypeOK, SchedOK, Sched

LEMMA AllocateType ==
  ASSUME NEW n \in Node, NEW s \in Sandbox, NEW P \in AllocateHostPorts(n, s)
  PROVE  P \subseteq HostPort /\ \A p \in P : reserved[<<n, p>>] = NoSandbox
BY DEF AllocateHostPorts, FreePorts

LEMMA SchedulerType ==
  ASSUME TypeOK, SchedStep
  PROVE  TypeOK'
<1>1. ASSUME SchedTick
      PROVE  TypeOK'
  <2>1. SchedOK'
    BY <1>1, IdleTypes DEF SchedTick, SchedOK, Sched, SchedPcs, IdleSched
  <2> QED BY <1>1, <2>1 DEF SchedTick, TypeOK, dbVars, envVars
<1>2. ASSUME NEW s \in Sandbox, SchedPick(s)
      PROVE  TypeOK'
  <2>1. ASSUME sched' = [sched EXCEPT !.pc = "fail", !.sb = s, !.queue = @ \ {s}]
        PROVE  SchedOK'
    BY <2>1 DEF TypeOK, SchedOK, Sched, SchedPcs
  <2>2. ASSUME NEW n \in BestCandidates(s), NEW P \in AllocateHostPorts(n, s),
               sched' = [sched EXCEPT !.pc = "reserve", !.sb = s, !.queue = @ \ {s},
                                      !.node = n, !.ports = P]
        PROVE  SchedOK'
    <3>1. n \in Node
      BY DEF BestCandidates, Candidates, TypeOK
    <3>2. P \subseteq HostPort
      BY <3>1, AllocateType
    <3> QED BY <2>2, <3>1, <3>2 DEF TypeOK, SchedOK, Sched, SchedPcs
  <2>3. SchedOK'
    BY <1>2, <2>1, <2>2 DEF SchedPick
  <2> QED BY <1>2, <2>3 DEF SchedPick, TypeOK, dbVars, envVars
<1>3. ASSUME SchedFail
      PROVE  TypeOK'
  <2>1. row' \in [Sandbox -> Row] /\ sync' \in [Node -> Sync]
    BY <1>3, PhaseType, RowTypes, UpdateType DEF SchedFail, Phases
  <2>2. SchedOK'
    BY <1>3, LeaveType DEF SchedFail
  <2> QED BY <1>3, <2>1, <2>2 DEF SchedFail, TypeOK, schedOthers
<1>4. ASSUME SchedReserve
      PROVE  TypeOK'
  <2>1. [phase |-> "Scheduled", node |-> sched.node, ports |-> sched.ports] \in Row
    BY <1>4 DEF SchedReserve, TypeOK, SchedOK, Sched, Row, Phases
  <2>2. row' \in [Sandbox -> Row] /\ sync' \in [Node -> Sync]
    BY <1>4, <2>1, UpdateType DEF SchedReserve, TypeOK
  <2>3. reserved' \in [Node \X HostPort -> Sandbox \cup {NoSandbox}]
    BY <1>4 DEF SchedReserve, TypeOK, SchedOK
  <2>4. SchedOK'
    BY <1>4, LeaveType DEF SchedReserve, TypeOK, SchedOK, Sched, SchedPcs
  <2> QED BY <1>4, <2>2, <2>3, <2>4 DEF SchedReserve, TypeOK, schedOthers
<1>5. ASSUME SchedReload
      PROVE  TypeOK'
  <2>1. SchedOK'
    BY <1>5, LeaveType DEF SchedReload, TypeOK, SchedOK, Sched, SchedPcs
  <2> QED BY <1>5, <2>1 DEF SchedReload, TypeOK, dbVars, envVars
<1>6. ASSUME SchedLookup
      PROVE  TypeOK'
  <2>1. SchedOK'
    BY <1>6, SchedTo DEF SchedLookup, TypeOK, SchedOK, SchedPcs
  <2> QED BY <1>6, <2>1 DEF SchedLookup, TypeOK, dbVars, envVars
<1>7. ASSUME SchedCall
      PROVE  TypeOK'
  <2>1. sched.sb \in Sandbox
    BY <1>7 DEF SchedCall, TypeOK, SchedOK
  <2>2. SchedOK'
    BY <1>7, <2>1, SchedTo DEF SchedCall, SchedPcs
  <2>3. [phase |-> "creating", ports |-> sched.fresh.ports] \in OnNode
    BY DEF TypeOK, SchedOK, Sched, Row, OnNode, NodePhases
  <2>4. live' \in [Node -> [Sandbox -> OnNode]]
    <3> DEFINE after == [live EXCEPT ![sched.fresh.node][sched.sb] =
                           [phase |-> "creating", ports |-> sched.fresh.ports]]
    <3>1. after \in [Node -> [Sandbox -> OnNode]]
      BY <2>3, LiveType DEF TypeOK
    <3>2. live' = after \/ live' = live
      BY <1>7 DEF SchedCall
    <3> QED BY <3>1, <3>2 DEF TypeOK
  <2>5. faults' \in Nat
    BY <1>7, FaultType DEF SchedCall
  <2> QED BY <1>7, <2>2, <2>4, <2>5 DEF SchedCall, TypeOK, schedOthers
<1>8. ASSUME SchedCreateFailed
      PROVE  TypeOK'
  <2>1. sched.sb \in Sandbox /\ sched.fresh \in Row
    BY <1>8 DEF SchedCreateFailed, TypeOK, SchedOK, Sched
  <2>2. row' \in [Sandbox -> Row] /\ sync' \in [Node -> Sync]
    BY <1>8, <2>1, PhaseType, UpdateType DEF SchedCreateFailed, Phases
  <2>3. SchedOK'
    BY <1>8, <2>1, SchedTo DEF SchedCreateFailed, SchedPcs
  <2> QED BY <1>8, <2>2, <2>3 DEF SchedCreateFailed, TypeOK, schedOthers
<1>9. ASSUME SchedRelease
      PROVE  TypeOK'
  <2>1. reserved' \in [Node \X HostPort -> Sandbox \cup {NoSandbox}]
    BY <1>9, ReleaseType DEF SchedRelease, ReleaseSandboxPorts
  <2>2. SchedOK'
    BY <1>9, LeaveType DEF SchedRelease
  <2> QED BY <1>9, <2>1, <2>2 DEF SchedRelease, TypeOK, schedOthers
<1>10. ASSUME SchedMarkRunning
      PROVE  TypeOK'
  <2>1. sched.sb \in Sandbox /\ sched.fresh \in Row
    BY <1>10 DEF SchedMarkRunning, TypeOK, SchedOK, Sched
  <2>2. row' \in [Sandbox -> Row] /\ sync' \in [Node -> Sync]
    BY <1>10, <2>1, PhaseType, UpdateType DEF SchedMarkRunning, Phases
  <2>3. SchedOK'
    BY <1>10, <2>1, SchedTo DEF SchedMarkRunning, SchedPcs
  <2> QED BY <1>10, <2>2, <2>3 DEF SchedMarkRunning, TypeOK, schedOthers
<1>11. ASSUME SchedAccount
      PROVE  TypeOK'
  <2>1. SchedOK'
    BY <1>11, LeaveType DEF SchedAccount
  <2>2. ipDue' \subseteq Sandbox /\ used' \in [Node -> Nat]
    BY <1>11 DEF SchedAccount, TypeOK, SchedOK
  <2> QED BY <1>11, <2>1, <2>2 DEF SchedAccount, TypeOK, schedOthers
<1> QED
  BY <1>1, <1>2, <1>3, <1>4, <1>5, <1>6, <1>7, <1>8, <1>9, <1>10, <1>11 DEF SchedStep

LEMMA FinalizeType ==
  ASSUME TypeOK, NEW w \in Worker, FinalizeStep(w)
  PROVE  TypeOK'
<1>0. job[w].snap \in Row
  BY DEF TypeOK, Job
<1>1. CASE JobMark(w)
  <2>1. job' \in [Worker -> Job]
    BY <1>1, ToType DEF JobMark, JobPcs
  <2>2. row' \in [Sandbox -> Row] /\ sync' \in [Node -> Sync]
    BY <1>1, <1>0, UpdateType DEF JobMark
  <2> QED BY <1>1, <2>1, <2>2 DEF JobMark, TypeOK, SchedOK, jobOthers
<1>2. CASE JobLookup(w)
  <2>1. job' \in [Worker -> Job]
    BY <1>2, ToType DEF JobLookup, JobPcs
  <2> QED BY <1>2, <2>1 DEF JobLookup, TypeOK, SchedOK, jobOthers
<1>3. CASE JobCall(w)
  <2>1. job' \in [Worker -> Job]
    BY <1>3, ToType DEF JobCall, JobPcs
  <2>2. live' \in [Node -> [Sandbox -> OnNode]] /\ faults' \in Nat
    BY <1>3, CallType DEF JobCall
  <2> QED BY <1>3, <2>1, <2>2 DEF JobCall, TypeOK, SchedOK, jobOthers
<1>4. CASE JobFailed(w)
  <2>1. job' \in [Worker -> Job]
    BY <1>4, EndType DEF JobFailed, JobPcs
  <2>2. row' \in [Sandbox -> Row] /\ sync' \in [Node -> Sync]
    BY <1>4, <1>0, UpdateType DEF JobFailed
  <2> QED BY <1>4, <2>1, <2>2 DEF JobFailed, TypeOK, SchedOK, jobOthers
<1>5. CASE JobRelease(w)
  <2>1. job' \in [Worker -> Job]
    BY <1>5, ToType DEF JobRelease, JobPcs
  <2>2. reserved' \in [Node \X HostPort -> Sandbox \cup {NoSandbox}]
    BY <1>5, ReleaseType DEF JobRelease, ReleaseSandboxPorts
  <2> QED BY <1>5, <2>1, <2>2 DEF JobRelease, TypeOK, SchedOK, jobOthers
<1>6. CASE JobRemove(w)
  <2>1. job' \in [Worker -> Job]
    BY <1>6, ToType, EndType DEF JobRemove, JobPcs
  <2>2. /\ row' \in [Sandbox -> Row] /\ sync' \in [Node -> Sync]
        /\ reserved' \in [Node \X HostPort -> Sandbox \cup {NoSandbox}]
    BY <1>6, DeleteRowType DEF JobRemove
  <2> QED BY <1>6, <2>1, <2>2 DEF JobRemove, TypeOK, SchedOK, jobOthers
<1>7. CASE JobAccount(w)
  <2>1. job' \in [Worker -> Job]
    BY <1>7, EndType DEF JobAccount, JobPcs
  <2>2. used' \in [Node -> Nat]
    BY <1>7 DEF JobAccount, Decremented, TypeOK
  <2> QED BY <1>7, <2>1, <2>2 DEF JobAccount, TypeOK, SchedOK, jobOthers
<1> QED
  BY <1>1, <1>2, <1>3, <1>4, <1>5, <1>6, <1>7 DEF FinalizeStep

LEMMA ReconcileType ==
  ASSUME TypeOK, ReconcileStep
  PROVE  TypeOK'
<1>1. CASE ReconcileTick
  <2>1. todo' \in [Sandbox -> Row]
    BY <1>1, RowTypes DEF ReconcileTick, TypeOK
  <2> QED BY <1>1, <2>1 DEF ReconcileTick, TypeOK, SchedOK, jobOthers
<1>2. ASSUME NEW s \in Sandbox, ReconcileVisit(s)
      PROVE  TypeOK'
  <2> DEFINE x == [pc   |-> IF todo[s].phase = "Deleting" THEN "lookup" ELSE "mark",
                   sb   |-> s,
                   snap |-> Deleting(todo[s])]
  <2>1. Deleting(todo[s]) \in Row
    BY PhaseType DEF TypeOK, Deleting, Phases
  <2>2. x \in Job
    BY <2>1 DEF Job, JobPcs
  <2>3. job' \in [Worker -> Job]
    BY <1>2, <2>2, JobType DEF ReconcileVisit
  <2>4. todo' \in [Sandbox -> Row]
    BY <1>2, RowTypes DEF ReconcileVisit, TypeOK
  <2> QED BY <1>2, <2>3, <2>4 DEF ReconcileVisit, TypeOK, SchedOK, jobOthers
<1>3. CASE FinalizeStep(Loop)
  BY <1>3, FinalizeType DEF Worker
<1> QED
  BY <1>1, <1>2, <1>3 DEF ReconcileStep

LEMMA MergedType ==
  ASSUME NEW phase \in Phases, NEW seen \in NodePhases
  PROVE  MergedPhase(phase, seen) \in Phases
BY DEF MergedPhase, Phases, NodePhases

LEMMA SyncBecomesType ==
  ASSUME TypeOK, NEW n, NEW x \in Sync, SyncBecomes(n, x)
  PROVE  sync' \in [Node -> Sync]
BY DEF TypeOK, SyncBecomes

LEMMA SyncType ==
  ASSUME TypeOK, NEW n \in Node, SyncStep(n)
  PROVE  TypeOK'
<1>0. sync[n] \in Sync
  BY DEF TypeOK
<1>1. CASE SyncLookup(n)
  <2>1. [sync[n] EXCEPT !.pc = "ask"] \in Sync
    BY <1>0 DEF Sync, SyncPcs
  <2>2. sync' \in [Node -> Sync]
    BY <1>1, <2>1, IdleTypes, SyncBecomesType DEF SyncLookup
  <2> QED BY <1>1, <2>2 DEF SyncLookup, TypeOK, SchedOK, syncOthers
<1>2. CASE SyncAsk(n)
  <2>1. \A answers \in BOOLEAN : Statuses(n, answers) \subseteq [Sandbox -> NodePhases]
    BY DEF Statuses
  <2>2. ASSUME NEW seen \in [Sandbox -> NodePhases]
        PROVE  [sync[n] EXCEPT !.pc = "merge", !.seen = seen] \in Sync
    BY <1>0 DEF Sync, SyncPcs
  <2>3. \/ \E seen \in [Sandbox -> NodePhases] :
             SyncBecomes(n, [sync[n] EXCEPT !.pc = "merge", !.seen = seen])
        \/ SyncBecomes(n, IdleSync)
    BY <1>2, <2>1 DEF SyncAsk
  <2>5. sync' \in [Node -> Sync]
    BY <2>2, <2>3, IdleTypes, SyncBecomesType
  <2>6. Fault \/ NoFault
    BY <1>2 DEF SyncAsk
  <2>7. UNCHANGED <<row, syncOthers>>
    BY <1>2 DEF SyncAsk
  <2> QED BY <2>5, <2>6, <2>7, FaultType DEF TypeOK, SchedOK, syncOthers
<1>3. ASSUME NEW s \in Sandbox, SyncRead(n, s)
      PROVE  TypeOK'
  <2> DEFINE skip   == [sync[n] EXCEPT !.batch = @ \ {s}]
             merged == [row[s] EXCEPT !.phase = MergedPhase(@, sync[n].seen[s])]
             swap   == [sync[n] EXCEPT !.pc = "swap", !.batch = @ \ {s}, !.sb = s,
                                       !.current = TRUE, !.next = merged]
  <2>1. skip \in Sync
    BY <1>0 DEF Sync
  <2>2. merged \in Row
    <3>1. row[s] \in Row /\ row[s].phase \in Phases /\ sync[n].seen[s] \in NodePhases
      BY <1>0 DEF TypeOK, Sync, Row
    <3>2. MergedPhase(row[s].phase, sync[n].seen[s]) \in Phases
      BY <3>1, MergedType
    <3> QED BY <3>1, <3>2, PhaseType
  <2> HIDE DEF merged
  <2>3. swap \in Sync
    BY <1>0, <2>2 DEF Sync, SyncPcs
  <2>4. SyncBecomes(n, skip) \/ SyncBecomes(n, swap)
    BY <1>3 DEF SyncRead, merged
  <2> HIDE DEF skip, swap
  <2>5. sync' \in [Node -> Sync]
    BY <2>1, <2>3, <2>4, SyncBecomesType
  <2>6. UNCHANGED <<row, faults, syncOthers>>
    BY <1>3 DEF SyncRead
  <2> QED BY <2>5, <2>6 DEF TypeOK, SchedOK, syncOthers
<1>4. CASE SyncSwap(n)
  <2> DEFINE x == [sync[n] EXCEPT !.pc = "merge", !.sb = NoSandbox,
                                  !.next = NoRow, !.current = FALSE]
  <2>1. x \in Sync
    BY <1>0, RowTypes DEF Sync, SyncPcs
  <2>2. sync' = [Outdated(sync, sync[n].sb) EXCEPT ![n] = x]
    BY <1>4 DEF SyncSwap
  <2> HIDE DEF x
  <2>3. sync' \in [Node -> Sync]
    BY <2>1, <2>2, OutdatedType DEF TypeOK
  <2>4. sync[n].next \in Row
    BY <1>0 DEF Sync
  <2>5. row' \in [Sandbox -> Row]
    BY <1>4, <2>4 DEF SyncSwap, TypeOK
  <2>6. UNCHANGED <<faults, syncOthers>>
    BY <1>4 DEF SyncSwap
  <2> QED BY <2>3, <2>5, <2>6 DEF TypeOK, SchedOK, syncOthers
<1>5. CASE SyncDone(n)
  <2>1. sync' \in [Node -> Sync]
    BY <1>5, IdleTypes, SyncBecomesType DEF SyncDone
  <2> QED BY <1>5, <2>1 DEF SyncDone, TypeOK, SchedOK, syncOthers
<1>6. CASE SyncTimeout(n)
  <2>1. sync' \in [Node -> Sync] /\ faults' \in Nat
    BY <1>6, IdleTypes, SyncBecomesType, FaultType DEF SyncTimeout
  <2> QED BY <1>6, <2>1 DEF SyncTimeout, TypeOK, SchedOK, syncOthers
<1> QED
  BY <1>1, <1>2, <1>3, <1>4, <1>5, <1>6 DEF SyncStep

LEMMA LoopsType ==
  ASSUME TypeOK, \/ SyncTick
                 \/ \E s \in Sandbox : RefreshIP(s)
                 \/ \E n \in Node : ResourceRead(n) \/ ResourceStore(n)
  PROVE  TypeOK'
<1>1. CASE SyncTick
  <2>1. \A n \in Node : [IdleSync EXCEPT !.pc = "lookup", !.batch = BatchOf(n)] \in Sync
    <3>1. \A n \in Node : BatchOf(n) \subseteq Sandbox
      BY DEF BatchOf
    <3> QED BY <3>1, IdleTypes DEF Sync, SyncPcs
  <2>2. sync' \in [Node -> Sync]
    BY <1>1, <2>1, IdleTypes DEF SyncTick
  <2> QED BY <1>1, <2>2 DEF SyncTick, TypeOK, SchedOK, syncOthers
<1>2. ASSUME NEW s \in Sandbox, RefreshIP(s)
      PROVE  TypeOK'
  <2>1. row[s] \in Row
    BY DEF TypeOK
  <2>2. row' \in [Sandbox -> Row] /\ sync' \in [Node -> Sync]
    BY <1>2, <2>1, UpdateType DEF RefreshIP, TypeOK
  <2> QED BY <1>2, <2>2 DEF RefreshIP, TypeOK, SchedOK, envVars
<1>3. ASSUME NEW n \in Node, ResourceRead(n)
      PROVE  TypeOK'
  <2>1. Cardinality(ActiveOn(n)) \in Nat
    <3>1. ActiveOn(n) \subseteq Sandbox /\ IsFiniteSet(Sandbox)
      BY SizeAssumption DEF ActiveOn
    <3> QED BY <3>1, FS_Subset, FS_CardinalityType
  <2>2. report' \in [Node -> Nat \cup {NoReport}]
    BY <1>3, <2>1 DEF ResourceRead, TypeOK
  <2> QED BY <1>3, <2>2 DEF ResourceRead, TypeOK, SchedOK, dbVars, envVars
<1>4. ASSUME NEW n \in Node, ResourceStore(n)
      PROVE  TypeOK'
  <2>1. report[n] \in Nat
    BY <1>4 DEF ResourceStore, TypeOK
  <2>2. used' \in [Node -> Nat] /\ report' \in [Node -> Nat \cup {NoReport}]
    BY <1>4, <2>1 DEF ResourceStore, TypeOK
  <2> QED BY <1>4, <2>2 DEF ResourceStore, TypeOK, SchedOK, envVars
<1> QED
  BY <1>1, <1>2, <1>3, <1>4

LEMMA RemovalBecomesType ==
  ASSUME TypeOK, NEW q, NEW x \in Removal, RemovalBecomes(q, x)
  PROVE  removal' \in [Remover -> Removal]
BY DEF TypeOK, RemovalBecomes

LEMMA RemovalToType ==
  ASSUME TypeOK, NEW q \in Remover, NEW pc \in RemovalPcs, RemovalTo(q, pc)
  PROVE  removal' \in [Remover -> Removal]
<1>1. [removal[q] EXCEPT !.pc = pc] \in Removal
  BY DEF TypeOK, Removal
<1> QED BY <1>1, RemovalBecomesType DEF RemovalTo

LEMMA RemovalType ==
  ASSUME TypeOK, NEW q \in Remover, RemovalStep(q)
  PROVE  TypeOK'
<1>0. removal[q] \in Removal
  BY DEF TypeOK
<1>1. ASSUME NEW n \in Node, RemovalStart(q, n)
      PROVE  TypeOK'
  <2>1. [removal[q] EXCEPT !.node = n,
                           !.pc = IF n \in registered \/ q \in Forced THEN "list" ELSE "done"]
          \in Removal
    BY <1>0 DEF Removal, RemovalPcs
  <2>2. removal' \in [Remover -> Removal]
    BY <1>1, <2>1, RemovalBecomesType DEF RemovalStart
  <2> QED BY <1>1, <2>2 DEF RemovalStart, TypeOK, SchedOK, dbVars, removalOthers
<1>2. CASE RemovalList(q)
  <2> DEFINE list == [s \in Sandbox |->
                        IF row[s].node = removal[q].node THEN row[s] ELSE NoRow]
  <2>1. list \in [Sandbox -> Row]
    BY RowTypes DEF TypeOK
  <2> HIDE DEF list
  <2>2. [removal[q] EXCEPT !.pc = "visit", !.list = list] \in Removal
    BY <1>0, <2>1 DEF Removal, RemovalPcs
  <2>3. removal' \in [Remover -> Removal]
    BY <1>2, <2>2, RemovalBecomesType DEF RemovalList, list
  <2> QED BY <1>2, <2>3 DEF RemovalList, TypeOK, SchedOK, dbVars, removalOthers
<1>3. ASSUME NEW s \in Sandbox, RemovalVisit(q, s)
      PROVE  TypeOK'
  <2> DEFINE r    == removal[q].list[s]
             rest == [removal[q].list EXCEPT ![s] = NoRow]
             pc   == CASE r.phase = "Deleting" -> "drop"
                       [] r.phase \in {"Running", "Scheduled"} ->
                            IF q \in Forced THEN "detach" ELSE "call"
                       [] OTHER -> "visit"
  <2>1. rest \in [Sandbox -> Row]
    BY <1>0, RowTypes DEF Removal
  <2>2. pc \in RemovalPcs
    BY DEF RemovalPcs
  <2>3. RemovalBecomes(q, [removal[q] EXCEPT !.list = rest, !.sb = s, !.pc = pc])
    BY <1>3 DEF RemovalVisit
  <2> HIDE DEF rest, pc
  <2>4. [removal[q] EXCEPT !.list = rest, !.sb = s, !.pc = pc] \in Removal
    BY <1>0, <2>1, <2>2 DEF Removal
  <2>5. removal' \in [Remover -> Removal]
    BY <2>3, <2>4, RemovalBecomesType
  <2>6. reserved' \in [Node \X HostPort -> Sandbox \cup {NoSandbox}]
    BY <1>3, ReleaseType DEF RemovalVisit, ReleaseSandboxPorts
  <2>7. UNCHANGED <<row, registered, ready, used, live, faults, sync, removalOthers>>
    BY <1>3 DEF RemovalVisit
  <2> QED BY <2>5, <2>6, <2>7 DEF TypeOK, SchedOK, removalOthers
<1>4. CASE RemovalDrop(q)
  <2>1. removal' \in [Remover -> Removal]
    BY <1>4, RemovalToType DEF RemovalDrop, RemovalPcs
  <2>2. /\ row' \in [Sandbox -> Row] /\ sync' \in [Node -> Sync]
        /\ reserved' \in [Node \X HostPort -> Sandbox \cup {NoSandbox}]
    BY <1>4, DeleteRowType DEF RemovalDrop
  <2> QED BY <1>4, <2>1, <2>2 DEF RemovalDrop, TypeOK, SchedOK, removalOthers
<1>5. CASE RemovalCall(q)
  <2>1. removal' \in [Remover -> Removal]
    BY <1>5, RemovalToType DEF RemovalCall, RemovalPcs
  <2>2. live' \in [Node -> [Sandbox -> OnNode]] /\ faults' \in Nat
    BY <1>5, CallType DEF RemovalCall
  <2> QED BY <1>5, <2>1, <2>2 DEF RemovalCall, TypeOK, SchedOK, dbVars, removalOthers
<1>6. CASE RemovalDetach(q)
  <2>1. removal' \in [Remover -> Removal]
    BY <1>6, RemovalToType DEF RemovalDetach, RemovalPcs
  <2>2. row' \in [Sandbox -> Row] /\ sync' \in [Node -> Sync]
    BY <1>6, PhaseType, RowTypes, UpdateType DEF RemovalDetach, Phases
  <2> QED BY <1>6, <2>1, <2>2 DEF RemovalDetach, TypeOK, SchedOK, removalOthers
<1>7. CASE RemovalVisited(q)
  <2>1. removal' \in [Remover -> Removal]
    BY <1>7, RemovalToType DEF RemovalVisited, RemovalPcs
  <2>2. faults' \in Nat
    BY <1>7, FaultType DEF RemovalVisited
  <2> QED BY <1>7, <2>1, <2>2 DEF RemovalVisited, TypeOK, SchedOK, dbVars, removalOthers
<1>8. CASE RemovalPorts(q)
  <2>1. removal' \in [Remover -> Removal]
    BY <1>8, RemovalToType DEF RemovalPorts, RemovalPcs
  <2>2. reserved' \in [Node \X HostPort -> Sandbox \cup {NoSandbox}]
    BY <1>8 DEF RemovalPorts, TypeOK
  <2> QED BY <1>8, <2>1, <2>2 DEF RemovalPorts, TypeOK, SchedOK, removalOthers
<1>9. CASE RemovalNode(q)
  <2>1. removal' \in [Remover -> Removal]
    BY <1>9, RemovalToType DEF RemovalNode, RemovalPcs
  <2>2. /\ registered' \subseteq Node /\ ready' \subseteq Node
        /\ used' \in [Node -> Nat]
    BY <1>9 DEF RemovalNode, TypeOK
  <2> QED BY <1>9, <2>1, <2>2 DEF RemovalNode, TypeOK, SchedOK, removalOthers
<1> QED
  BY <1>1, <1>2, <1>3, <1>4, <1>5, <1>6, <1>7, <1>8, <1>9 DEF RemovalStep

LEMMA InitType == Init => TypeOK
<1> SUFFICES ASSUME Init PROVE TypeOK
  OBVIOUS
<1>1. SchedOK
  BY IdleTypes DEF Init, SchedOK, IdleSched
<1>2. job \in [Worker -> Job]
  <2>1. [IdleJob EXCEPT !.pc = "new"] \in Job
    BY IdleTypes DEF Job, JobPcs
  <2> QED BY <2>1, IdleTypes DEF Init
<1> QED BY <1>1, <1>2, IdleTypes, RowTypes DEF Init, TypeOK

LEMMA NextType == TypeOK /\ [Next]_vars => TypeOK'
<1> SUFFICES ASSUME TypeOK, [Next]_vars PROVE TypeOK'
  OBVIOUS
<1>1. CASE Environment
  BY <1>1, EnvironmentType
<1>2. CASE Orchestrator
  <2>1. CASE SchedStep
    BY <2>1, SchedulerType
  <2>2. CASE ReconcileStep
    BY <2>2, ReconcileType
  <2>3. ASSUME NEW w \in Deleter, FinalizeStep(w) PROVE TypeOK'
    BY <2>3, FinalizeType DEF Worker
  <2>4. ASSUME NEW n \in Node, SyncStep(n) PROVE TypeOK'
    BY <2>4, SyncType
  <2>5. ASSUME NEW q \in Remover, RemovalStep(q) PROVE TypeOK'
    BY <2>5, RemovalType
  <2>6. CASE SyncTick
    BY <2>6, LoopsType
  <2>7. ASSUME NEW s \in Sandbox, RefreshIP(s) PROVE TypeOK'
    BY <2>7, LoopsType
  <2>8. ASSUME NEW n \in Node, ResourceRead(n) \/ ResourceStore(n) PROVE TypeOK'
    BY <2>8, LoopsType
  <2> QED
    BY <1>2, <2>1, <2>2, <2>3, <2>4, <2>5, <2>6, <2>7, <2>8 DEF Orchestrator
<1>3. CASE UNCHANGED vars
  BY <1>3 DEF vars, dbVars, envVars, actors, TypeOK, SchedOK
<1> QED BY <1>1, <1>2, <1>3 DEF Next

\* Every value any goroutine of the orchestrator stores or carries - rows, port
\* owners, usage, snapshots, prepared writes - is one the schema and the Go types
\* allow; in particular the usage count never goes below zero and a reservation
\* is made for an existing node (repo/node_repo.go migrate, sandbox_ops.go).
THEOREM TypeCorrect == Spec => []TypeOK
<1>1. Init => TypeOK
  BY InitType
<1>2. TypeOK /\ [Next]_vars => TypeOK'
  BY NextType
<1> QED BY <1>1, <1>2, PTL DEF Spec

-----------------------------------------------------------------------------
(* The ports the scheduler carries stay free: nobody else adds reservations. *)

OnlyReleases ==
  \A np \in Node \X HostPort : reserved'[np] \in {reserved[np], NoSandbox}

LEMMA WithoutOnlyReleases ==
  ASSUME TypeOK, NEW s, reserved' = PortsWithout(reserved, s) \/ UNCHANGED reserved
  PROVE  OnlyReleases
BY DEF TypeOK, PortsWithout, OnlyReleases

LEMMA ChosenStayFree ==
  ASSUME TypeOK, ChosenPortsAreFree, UNCHANGED sched, OnlyReleases
  PROVE  ChosenPortsAreFree'
<1> SUFFICES ASSUME sched.pc = "reserve", NEW p \in sched.ports
             PROVE  reserved'[<<sched.node, p>>] = NoSandbox
  BY DEF ChosenPortsAreFree, PortConflict
<1>1. reserved[<<sched.node, p>>] = NoSandbox
  BY DEF ChosenPortsAreFree, PortConflict
<1>2. <<sched.node, p>> \in Node \X HostPort
  BY DEF TypeOK, SchedOK, Sched
<1> QED BY <1>1, <1>2 DEF OnlyReleases

LEMMA OthersOnlyRelease ==
  ASSUME TypeOK,
         \/ ReconcileStep
         \/ \E w \in Deleter : FinalizeStep(w)
         \/ SyncTick \/ \E n \in Node : SyncStep(n)
         \/ \E s \in Sandbox : RefreshIP(s)
         \/ \E q \in Remover : RemovalStep(q)
         \/ \E n \in Node : ResourceRead(n) \/ ResourceStore(n)
         \/ Environment /\ ~ Restart
  PROVE  OnlyReleases /\ UNCHANGED sched
<1>1. ASSUME NEW w, FinalizeStep(w)
      PROVE  OnlyReleases /\ UNCHANGED sched
  <2>1. UNCHANGED sched
    BY <1>1 DEF FinalizeStep, JobMark, JobLookup, JobCall, JobFailed, JobRelease,
                JobRemove, JobAccount, jobOthers
  <2>2. UNCHANGED reserved \/ reserved' = PortsWithout(reserved, job[w].sb)
    BY <1>1 DEF FinalizeStep, JobMark, JobLookup, JobCall, JobFailed, JobRelease,
                JobRemove, JobAccount, ReleaseSandboxPorts, DeleteRow
  <2> QED BY <2>1, <2>2, WithoutOnlyReleases
<1>2. CASE ReconcileStep
  <2>1. CASE ReconcileTick
    BY <2>1, WithoutOnlyReleases DEF ReconcileTick, jobOthers
  <2>2. CASE \E s \in Sandbox : ReconcileVisit(s)
    BY <2>2, WithoutOnlyReleases DEF ReconcileVisit, jobOthers
  <2> QED BY <1>1, <1>2, <2>1, <2>2 DEF ReconcileStep
<1>3. CASE SyncTick \/ \E n \in Node : SyncStep(n)
  BY <1>3, WithoutOnlyReleases
     DEF SyncTick, SyncStep, SyncLookup, SyncAsk, SyncRead, SyncSwap, SyncTimeout, SyncDone,
         syncOthers
<1>4. CASE \E s \in Sandbox : RefreshIP(s)
  BY <1>4, WithoutOnlyReleases DEF RefreshIP
<1>5. ASSUME NEW q \in Remover, RemovalStep(q)
      PROVE  OnlyReleases /\ UNCHANGED sched
  <2>1. UNCHANGED sched
    BY <1>5 DEF RemovalStep, RemovalStart, RemovalList, RemovalVisit, RemovalDrop, RemovalCall,
                RemovalDetach, RemovalVisited, RemovalPorts, RemovalNode, removalOthers
  <2>2. CASE RemovalPorts(q)
    BY <2>1, <2>2 DEF RemovalPorts, OnlyReleases
  <2>3. CASE \E s \in Sandbox : RemovalVisit(q, s)
    BY <2>1, <2>3, WithoutOnlyReleases DEF RemovalVisit, ReleaseSandboxPorts
  <2>4. CASE RemovalDrop(q)
    BY <2>1, <2>4, WithoutOnlyReleases DEF RemovalDrop, DeleteRow
  <2>5. CASE UNCHANGED reserved
    BY <2>1, <2>5, WithoutOnlyReleases
  <2> QED
    BY <1>5, <2>2, <2>3, <2>4, <2>5
       DEF RemovalStep, RemovalStart, RemovalList, RemovalCall, RemovalDetach, RemovalVisited,
           RemovalNode, dbVars
<1>6. CASE \E n \in Node : ResourceRead(n) \/ ResourceStore(n)
  BY <1>6, WithoutOnlyReleases DEF ResourceRead, ResourceStore, dbVars
<1>7. CASE Environment /\ ~ Restart
  <2>1. UNCHANGED <<reserved, sched>>
    BY <1>7 DEF Environment, CreateSandbox, Expire, DeleteRead, ClientGone, RemovalGone,
                RegisterNode, Heartbeat, SbxletReady, SbxletRecovers, SbxletBreaks,
                SbxletRemoves, NodeCreateSandbox, NodeDeleteSandbox, dbVars, actors,
                jobOthers, removalOthers
  <2> QED BY <2>1, WithoutOnlyReleases
<1> QED BY <1>1, <1>2, <1>3, <1>4, <1>5, <1>6, <1>7

\* A pick leaves the scheduler with free ports, every other of its steps leaves
\* "reserve".
LEMMA SchedulerChoosesFree ==
  ASSUME TypeOK, ChosenPortsAreFree, SchedStep
  PROVE  ChosenPortsAreFree'
<1>1. CASE \E s \in Sandbox : SchedPick(s)
  <2>1. PICK s \in Sandbox : SchedPick(s)
    BY <1>1
  <2>2. CASE sched' = [sched EXCEPT !.pc = "fail", !.sb = s, !.queue = @ \ {s}]
    BY <2>2 DEF ChosenPortsAreFree, TypeOK, SchedOK, Sched
  <2>3. ASSUME NEW n \in BestCandidates(s), NEW P \in AllocateHostPorts(n, s),
               sched' = [sched EXCEPT !.pc = "reserve", !.sb = s, !.queue = @ \ {s},
                                      !.node = n, !.ports = P]
        PROVE  ChosenPortsAreFree'
    <3>1. n \in Node
      BY DEF BestCandidates, Candidates, TypeOK
    <3>2. \A p \in P : reserved[<<n, p>>] = NoSandbox
      BY <3>1, AllocateType
    <3>3. sched'.node = n /\ sched'.ports = P
      BY <2>3 DEF TypeOK, SchedOK, Sched
    <3>4. UNCHANGED reserved
      BY <2>1 DEF SchedPick, dbVars
    <3> QED BY <3>2, <3>3, <3>4 DEF ChosenPortsAreFree, PortConflict
  <2> QED BY <2>1, <2>2, <2>3 DEF SchedPick
<1>2. CASE ~ \E s \in Sandbox : SchedPick(s)
  <2>1. SchedLeave => sched'.pc # "reserve"
    BY DEF SchedLeave, IdleSched
  <2>2. sched'.pc # "reserve"
    BY <1>2, <2>1
       DEF SchedStep, SchedTick, SchedFail, SchedReserve, SchedReload, SchedLookup, SchedCall,
           SchedCreateFailed, SchedRelease, SchedMarkRunning, SchedAccount, IdleSched,
           TypeOK, SchedOK, Sched
  <2> QED BY <2>2 DEF ChosenPortsAreFree
<1> QED BY <1>1, <1>2

\* No interleaving of creations, deletions, node removals, restarts and the other
\* loops lets the scheduler reserve a port that somebody else holds: the check for
\* conflicts in ReserveSandboxPortsAndSchedule only ever fires for a sandbox that
\* is gone (sandbox_ops.go, scheduleOne; sandbox_repo.go).
THEOREM ChosenPortsStayFree == Spec => []ChosenPortsAreFree
<1>1. Init => ChosenPortsAreFree
  BY DEF Init, ChosenPortsAreFree, IdleSched
<1>2. TypeOK /\ ChosenPortsAreFree /\ [Next]_vars => ChosenPortsAreFree'
  <2> SUFFICES ASSUME TypeOK, ChosenPortsAreFree, [Next]_vars
               PROVE  ChosenPortsAreFree'
    OBVIOUS
  <2>1. CASE SchedStep
    BY <2>1, SchedulerChoosesFree
  <2>2. CASE Restart
    BY <2>2 DEF Restart, ChosenPortsAreFree, IdleSched
  <2>3. CASE UNCHANGED vars
    BY <2>3 DEF vars, dbVars, actors, ChosenPortsAreFree, PortConflict
  <2>4. CASE Next /\ ~ SchedStep /\ ~ Restart
    BY <2>4, OthersOnlyRelease, ChosenStayFree DEF Next, Orchestrator
  <2> QED BY <2>1, <2>2, <2>3, <2>4
<1> QED BY <1>1, <1>2, TypeCorrect, PTL DEF Spec

-----------------------------------------------------------------------------
(* Status sync.  As long as a prepared write is current, the row is the one  *)
(* it was prepared from: any other write of the row has made it outdated.    *)

Prepared(n) == sync[n].pc = "swap" /\ sync[n].current

SwapsMatch ==
  \A n \in Node :
    Prepared(n) =>
      /\ sync[n].sb \in Sandbox
      /\ row[sync[n].sb].phase \notin {"Absent", "Deleting"}
      /\ sync[n].next.phase # "Absent"
      /\ sync[n].next.node = row[sync[n].sb].node
      /\ sync[n].next.ports = row[sync[n].sb].ports

\* What is prepared after a step was prepared before it, from the same row.
KeepsPrepared(n) ==
  Prepared(n)' =>
    /\ Prepared(n)
    /\ sync'[n].sb = sync[n].sb
    /\ sync'[n].next = sync[n].next
    /\ row'[sync[n].sb] = row[sync[n].sb]

LEMMA MatchKept ==
  ASSUME SwapsMatch, \A n \in Node : KeepsPrepared(n)
  PROVE  SwapsMatch'
BY DEF SwapsMatch, KeepsPrepared, Prepared

LEMMA UnchangedKeeps ==
  ASSUME UNCHANGED <<row, sync>>
  PROVE  \A n \in Node : KeepsPrepared(n)
BY DEF KeepsPrepared, Prepared

LEMMA OutdatedKeeps ==
  ASSUME TypeOK, NEW s, sync' = Outdated(sync, s),
         \A t \in Sandbox \ {s} : row'[t] = row[t], SwapsMatch
  PROVE  \A n \in Node : KeepsPrepared(n)
<1> SUFFICES ASSUME NEW n \in Node, Prepared(n)' PROVE KeepsPrepared(n)
  BY DEF KeepsPrepared
<1>1. sync'[n] = IF sync[n].sb = s THEN [sync[n] EXCEPT !.current = FALSE] ELSE sync[n]
  BY DEF Outdated
<1>2. sync[n] \in Sync
  BY DEF TypeOK
<1>3. sync[n].sb # s /\ sync'[n] = sync[n]
  BY <1>1, <1>2 DEF Prepared, Sync
<1>4. Prepared(n) /\ sync[n].sb \in Sandbox
  BY <1>3 DEF Prepared, SwapsMatch
<1> QED BY <1>3, <1>4 DEF KeepsPrepared

LEMMA UpdateKeeps ==
  ASSUME TypeOK, SwapsMatch, NEW s, NEW r,
         UpdateSandboxStatus(s, r) \/ DeleteRow(s) \/ UNCHANGED <<row, sync>>
  PROVE  \A n \in Node : KeepsPrepared(n)
<1>1. CASE UNCHANGED <<row, sync>>
  BY <1>1, UnchangedKeeps
<1>2. CASE UpdateSandboxStatus(s, r) \/ DeleteRow(s)
  <2>1. \A t \in Sandbox \ {s} : row'[t] = row[t]
    BY <1>2 DEF UpdateSandboxStatus, DeleteRow, TypeOK
  <2>2. sync' = Outdated(sync, s)
    BY <1>2 DEF UpdateSandboxStatus, DeleteRow
  <2> QED BY <2>1, <2>2, OutdatedKeeps
<1> QED BY <1>1, <1>2

LEMMA SchedulerKeeps ==
  ASSUME TypeOK, SwapsMatch, SchedStep
  PROVE  \A n \in Node : KeepsPrepared(n)
<1>1. \E s, r : UpdateSandboxStatus(s, r) \/ UNCHANGED <<row, sync>>
  BY DEF SchedStep, SchedTick, SchedPick, SchedFail, SchedReserve, SchedReload, SchedLookup,
         SchedCall, SchedCreateFailed, SchedRelease, SchedMarkRunning, SchedAccount, dbVars
<1> QED BY <1>1, UpdateKeeps

LEMMA FinalizeKeeps ==
  ASSUME TypeOK, SwapsMatch, NEW w, FinalizeStep(w)
  PROVE  \A n \in Node : KeepsPrepared(n)
<1>1. \E s, r : UpdateSandboxStatus(s, r) \/ DeleteRow(s) \/ UNCHANGED <<row, sync>>
  BY DEF FinalizeStep, JobMark, JobLookup, JobCall, JobFailed, JobRelease, JobRemove, JobAccount
<1> QED BY <1>1, UpdateKeeps

LEMMA RemovalKeeps ==
  ASSUME TypeOK, SwapsMatch, NEW q, RemovalStep(q)
  PROVE  \A n \in Node : KeepsPrepared(n)
<1>1. \E s, r : UpdateSandboxStatus(s, r) \/ DeleteRow(s) \/ UNCHANGED <<row, sync>>
  BY DEF RemovalStep, RemovalStart, RemovalList, RemovalVisit, RemovalDrop, RemovalCall,
         RemovalDetach, RemovalVisited, RemovalPorts, RemovalNode, dbVars
<1> QED BY <1>1, UpdateKeeps

\* A creation writes a row that was absent: nothing is prepared for it.
LEMMA CreationKeeps ==
  ASSUME TypeOK, SwapsMatch, NEW s \in Sandbox, CreateSandbox(s)
  PROVE  \A n \in Node : KeepsPrepared(n)
<1> SUFFICES ASSUME NEW n \in Node, Prepared(n)' PROVE KeepsPrepared(n)
  BY DEF KeepsPrepared
<1>1. UNCHANGED sync /\ row[s].phase = "Absent"
  BY DEF CreateSandbox, actors, Exists
<1>2. Prepared(n) /\ sync[n].sb \in Sandbox /\ sync[n].sb # s
  BY <1>1 DEF Prepared, SwapsMatch
<1> QED BY <1>1, <1>2 DEF KeepsPrepared, CreateSandbox, TypeOK

\* The steps of a sync goroutine itself: a read prepares, a swap outdates the
\* others' preparations for the same row.
LEMMA SyncMatches ==
  ASSUME TypeOK, SwapsMatch, NEW n \in Node, SyncStep(n)
  PROVE  SwapsMatch'
<1>0. sync[n] \in Sync
  BY DEF TypeOK
<1>1. ASSUME NEW x \in Sync, SyncBecomes(n, x), UNCHANGED row,
             ~ (x.pc = "swap" /\ x.current)
      PROVE  SwapsMatch'
  <2>1. \A m \in Node : KeepsPrepared(m)
    BY <1>1 DEF KeepsPrepared, Prepared, SyncBecomes, TypeOK
  <2> QED BY <2>1, MatchKept
<1>2. CASE SyncLookup(n) \/ SyncAsk(n) \/ SyncTimeout(n) \/ SyncDone(n)
  <2>1. PICK x : SyncBecomes(n, x) /\ x.pc # "swap" /\ UNCHANGED row
    BY <1>0, <1>2 DEF SyncLookup, SyncAsk, SyncTimeout, SyncDone, IdleSync, Sync
  <2>2. \A m \in Node : KeepsPrepared(m)
    BY <2>1 DEF KeepsPrepared, Prepared, SyncBecomes, TypeOK
  <2> QED BY <2>2, MatchKept
<1>3. ASSUME NEW s \in Sandbox, SyncRead(n, s)
      PROVE  SwapsMatch'
  <2> DEFINE skip   == [sync[n] EXCEPT !.batch = @ \ {s}]
             merged == [row[s] EXCEPT !.phase = MergedPhase(@, sync[n].seen[s])]
             swap   == [sync[n] EXCEPT !.pc = "swap", !.batch = @ \ {s}, !.sb = s,
                                       !.current = TRUE, !.next = merged]
  <2>1. CASE SyncSkips(row[s], sync[n].seen[s])
    <3>1. SyncBecomes(n, skip) /\ UNCHANGED row /\ sync[n].pc = "merge"
      BY <1>3, <2>1 DEF SyncRead
    <3>2. skip \in Sync /\ skip.pc = sync[n].pc
      BY <1>0 DEF Sync
    <3> HIDE DEF skip
    <3> QED BY <1>1, <3>1, <3>2
  <2>2. CASE ~ SyncSkips(row[s], sync[n].seen[s])
    <3>1. SyncBecomes(n, swap) /\ UNCHANGED row
      BY <1>3, <2>2 DEF SyncRead
    <3>2. row[s].phase \notin {"Absent", "Deleting"}
      BY <2>2 DEF SyncSkips
    <3>3. merged.node = row[s].node /\ merged.ports = row[s].ports /\ merged.phase # "Absent"
      <4>1. row[s] \in Row /\ sync[n].seen[s] \in NodePhases
        BY <1>0 DEF TypeOK, Sync
      <4>2. MergedPhase(row[s].phase, sync[n].seen[s]) # "Absent"
        BY <3>2, <4>1 DEF MergedPhase, NodePhases
      <4> QED BY <4>1, <4>2 DEF Row
    <3> HIDE DEF merged
    <3>4. swap.sb = s /\ swap.next = merged
      BY <1>0 DEF Sync
    <3>5. \A m \in Node : sync'[m] = IF m = n THEN swap ELSE sync[m]
      BY <3>1 DEF SyncBecomes, TypeOK
    <3> HIDE DEF swap
    <3> QED BY <3>1, <3>2, <3>3, <3>4, <3>5 DEF SwapsMatch, Prepared
  <2> QED BY <2>1, <2>2
<1>4. CASE SyncSwap(n)
  <2> DEFINE x == [sync[n] EXCEPT !.pc = "merge", !.sb = NoSandbox,
                                  !.next = NoRow, !.current = FALSE]
             t == sync[n].sb
  <2>1. sync' = [Outdated(sync, t) EXCEPT ![n] = x]
    BY <1>4 DEF SyncSwap
  <2>2. x.pc = "merge"
    BY <1>0 DEF Sync
  <2> HIDE DEF x
  <2>3. \A s \in Sandbox \ {t} : row'[s] = row[s]
    BY <1>4 DEF SyncSwap, TypeOK
  <2>4. ASSUME NEW m \in Node, Prepared(m)'
        PROVE  KeepsPrepared(m)
    <3>1. m # n
      BY <2>1, <2>2, <2>4 DEF Prepared, Outdated
    <3>2. sync'[m] = IF sync[m].sb = t THEN [sync[m] EXCEPT !.current = FALSE] ELSE sync[m]
      BY <2>1, <3>1 DEF Outdated
    <3>3. sync[m] \in Sync
      BY DEF TypeOK
    <3>4. sync[m].sb # t /\ sync'[m] = sync[m]
      BY <2>4, <3>2, <3>3 DEF Prepared, Sync
    <3>5. Prepared(m) /\ sync[m].sb \in Sandbox
      BY <2>4, <3>4 DEF Prepared, SwapsMatch
    <3> QED BY <2>3, <3>4, <3>5 DEF KeepsPrepared
  <2>5. \A m \in Node : KeepsPrepared(m)
    BY <2>4 DEF KeepsPrepared
  <2> QED BY <2>5, MatchKept
<1> QED BY <1>2, <1>3, <1>4 DEF SyncStep

LEMMA NextMatches == TypeOK /\ SwapsMatch /\ [Next]_vars => SwapsMatch'
<1> SUFFICES ASSUME TypeOK, SwapsMatch, [Next]_vars PROVE SwapsMatch'
  OBVIOUS
<1>1. CASE SchedStep
  BY <1>1, SchedulerKeeps, MatchKept
<1>2. ASSUME NEW w, FinalizeStep(w) PROVE SwapsMatch'
  BY <1>2, FinalizeKeeps, MatchKept
<1>3. CASE ReconcileStep
  <2>1. CASE ReconcileTick
    BY <2>1, UnchangedKeeps, MatchKept DEF ReconcileTick
  <2>2. CASE \E s \in Sandbox : ReconcileVisit(s)
    BY <2>2, UnchangedKeeps, MatchKept DEF ReconcileVisit
  <2> QED BY <1>2, <1>3, <2>1, <2>2 DEF ReconcileStep
<1>4. ASSUME NEW q \in Remover, RemovalStep(q) PROVE SwapsMatch'
  BY <1>4, RemovalKeeps, MatchKept
<1>5. ASSUME NEW n \in Node, SyncStep(n) PROVE SwapsMatch'
  BY <1>5, SyncMatches
<1>6. CASE SyncTick
  <2>1. \A n \in Node : ~ Prepared(n)'
    BY <1>6 DEF SyncTick, Prepared, IdleSync
  <2> QED BY <2>1 DEF SwapsMatch
<1>7. ASSUME NEW s \in Sandbox, RefreshIP(s) PROVE SwapsMatch'
  <2>1. \E r : UpdateSandboxStatus(s, r) \/ UNCHANGED <<row, sync>>
    BY <1>7 DEF RefreshIP
  <2> QED BY <2>1, UpdateKeeps, MatchKept
<1>8. ASSUME NEW n \in Node, ResourceRead(n) \/ ResourceStore(n) PROVE SwapsMatch'
  BY <1>8, UnchangedKeeps, MatchKept DEF ResourceRead, ResourceStore, dbVars
<1>9. CASE Environment
  <2>1. ASSUME NEW s \in Sandbox, CreateSandbox(s) PROVE SwapsMatch'
    BY <2>1, CreationKeeps, MatchKept
  <2>2. CASE Restart
    <3>1. \A n \in Node : ~ Prepared(n)'
      BY <2>2 DEF Restart, Prepared, IdleSync
    <3> QED BY <3>1 DEF SwapsMatch
  <2>3. CASE /\ Environment /\ ~ Restart
             /\ ~ \E s \in Sandbox : CreateSandbox(s)
    <3>1. UNCHANGED <<row, sync>>
      BY <2>3 DEF Environment, Expire, DeleteRead, ClientGone, RemovalGone, RegisterNode, Heartbeat,
                  SbxletReady, SbxletRecovers, SbxletBreaks, SbxletRemoves,
                  NodeCreateSandbox, NodeDeleteSandbox, dbVars, actors
    <3> QED BY <3>1, UnchangedKeeps, MatchKept
  <2> QED BY <1>9, <2>1, <2>2, <2>3
<1>10. CASE UNCHANGED vars
  BY <1>10, UnchangedKeeps, MatchKept DEF vars, dbVars, actors
<1> QED
  BY <1>1, <1>2, <1>3, <1>4, <1>5, <1>6, <1>7, <1>8, <1>9, <1>10 DEF Next, Orchestrator

LEMMA SwapsOnlyPhases == TypeOK /\ SwapsMatch => ChangesOnlyPhases
<1> SUFFICES ASSUME TypeOK, SwapsMatch, NEW n \in Node, NEW s \in Sandbox, SyncSwap(n)
             PROVE  /\ row'[s].node = row[s].node
                    /\ row'[s].ports = row[s].ports
                    /\ row[s].phase \in {"Absent", "Deleting"} => row'[s].phase = row[s].phase
  BY DEF ChangesOnlyPhases
<1>1. row' = IF sync[n].current THEN [row EXCEPT ![sync[n].sb] = sync[n].next] ELSE row
  BY DEF SyncSwap
<1>2. CASE row'[s] = row[s]
  BY <1>2
<1>3. CASE sync[n].current /\ s = sync[n].sb
  <2>1. row'[s] = sync[n].next
    BY <1>1, <1>3 DEF TypeOK
  <2>2. Prepared(n)
    BY <1>3 DEF SyncSwap, Prepared
  <2> QED BY <1>3, <2>1, <2>2 DEF SwapsMatch
<1> QED BY <1>1, <1>2, <1>3 DEF TypeOK

\* Whatever a status-sync goroutine read and however long ago, its write never
\* brings back a deleted row, never takes a row out of Deleting and never touches
\* node or ports: the comparison of updated_at is enough, because every other
\* writer changes it (sandbox_ops.go, syncNodeSandboxBatch; sandbox_repo.go,
\* UpdateSandboxStatusIfUnchanged).
THEOREM SyncNeverUndoes == Spec => SyncChangesOnlyPhases
<1>1. Init => SwapsMatch
  BY DEF Init, SwapsMatch, Prepared, IdleSync
<1>2. TypeOK /\ SwapsMatch /\ [Next]_vars => SwapsMatch'
  BY NextMatches
<1>3. TypeOK /\ SwapsMatch /\ [Next]_vars => [ChangesOnlyPhases]_vars
  BY SwapsOnlyPhases
<1> QED BY <1>1, <1>2, <1>3, TypeCorrect, PTL DEF Spec, SyncChangesOnlyPhases

=============================================================================
