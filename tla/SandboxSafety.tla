---------------------------- MODULE SandboxSafety ----------------------------
(***************************************************************************)
(* Where sandboxes are and when they go, for any number of sandboxes,      *)
(* nodes and requests, with calls lost and with restarts: nobody's sandbox *)
(* is deleted that was not meant, none is on two nodes, and one whose      *)
(* deletion was answered is on none.  When nothing is lost, the ports that *)
(* are reserved are the ports that the sandboxes have.                     *)
(***************************************************************************)
EXTENDS SandboxRefinement

-----------------------------------------------------------------------------
(* Of a sandbox that nobody means to delete, no goroutine has a copy that   *)
(* would delete it.                                                         *)

RowSpared(s) ==
  /\ s \notin expired
  /\ row[s].phase # "Deleting"
  /\ creates[s] > 0 => row[s].phase # "Absent"

JobSpares(w, s) == job[w].sb = s => job[w].pc \in {"acked", "done"}

RemovalSpares(q, s) ==
  removal[q].pc # "done" =>
    /\ removal[q].list[s].phase # "Deleting"
    /\ removal[q].pc = "drop" => removal[q].sb # s

Spared(s) ==
  /\ RowSpared(s)
  /\ todo[s] = NoRow
  /\ \A w \in Worker : JobSpares(w, s)
  /\ \A q \in Remover : RemovalSpares(q, s)

\* Status sync neither deletes a row, nor begins its deletion, nor has it scheduled again.
SwapsAreMild ==
  \A n \in Node :
    sync[n].pc = "swap" => sync[n].next.phase \notin {"Absent", "Pending", "Deleting"}

SpareInv == TypeOK /\ SwapsAreMild /\ \A s \in Sandbox \ doomed : Spared(s)

\* What a step may do to the row of a sandbox nobody means to delete.
RowMild(s) ==
  row'[s] = row[s] \/ (row[s].phase # "Absent" /\ row'[s].phase \notin {"Absent", "Deleting"})

LEMMA MildKeepsRow ==
  ASSUME NEW s, RowSpared(s), RowMild(s), s \notin expired', creates'[s] = creates[s]
  PROVE  RowSpared(s)'
BY DEF RowSpared, RowMild

LEMMA UpdateIsMild ==
  ASSUME TypeOK, NEW t, NEW r, NEW s \in Sandbox, UpdateSandboxStatus(t, r),
         t = s => r.phase \notin {"Absent", "Deleting"}
  PROVE  RowMild(s)
BY DEF UpdateSandboxStatus, Exists, RowMild, TypeOK

LEMMA DeleteIsMild ==
  ASSUME TypeOK, NEW t, NEW s \in Sandbox, DeleteRow(t), t # s
  PROVE  RowMild(s)
BY DEF DeleteRow, RowMild, TypeOK

LEMMA SchedulerIsMild ==
  ASSUME TypeOK, SchedStep, NEW s \in Sandbox
  PROVE  RowMild(s)
<1>1. CASE UNCHANGED row
  BY <1>1 DEF RowMild
<1>2. CASE SchedFail
  BY <1>2, UpdateIsMild DEF SchedFail, PendingRow
<1>3. CASE SchedReserve /\ Exists(sched.sb) /\ ~ PortConflict
  BY <1>3, UpdateIsMild DEF SchedReserve
<1>4. CASE SchedCreateFailed \/ SchedMarkRunning
  <2>1. \A p : [sched.fresh EXCEPT !.phase = p].phase = p
    BY DEF TypeOK, SchedOK, Sched, Row
  <2> QED BY <1>4, <2>1, UpdateIsMild DEF SchedCreateFailed, SchedMarkRunning
<1> QED
  BY <1>1, <1>2, <1>3, <1>4
     DEF SchedStep, SchedTick, SchedPick, SchedReserve, SchedReload, SchedLookup, SchedCall,
         SchedRelease, SchedAccount, dbVars

LEMMA FinalizeIsMild ==
  ASSUME TypeOK, NEW w \in Worker, FinalizeStep(w), NEW s \in Sandbox, JobSpares(w, s)
  PROVE  RowMild(s)
<1>1. job[w].sb # s
  BY DEF JobSpares, FinalizeStep, JobMark, JobLookup, JobCall, JobFailed, JobRelease, JobRemove,
         JobAccount
<1>2. CASE UNCHANGED row
  BY <1>2 DEF RowMild
<1>3. CASE JobMark(w) \/ JobFailed(w)
  BY <1>1, <1>3, UpdateIsMild DEF JobMark, JobFailed
<1>4. CASE JobRemove(w)
  BY <1>1, <1>4, DeleteIsMild DEF JobRemove
<1> QED
  BY <1>2, <1>3, <1>4 DEF FinalizeStep, JobLookup, JobCall, JobRelease, JobAccount

LEMMA SyncIsMild ==
  ASSUME TypeOK, SwapsAreMild, SwapsMatch, NEW n \in Node, SyncStep(n), NEW s \in Sandbox
  PROVE  RowMild(s)
<1>1. CASE UNCHANGED row
  BY <1>1 DEF RowMild
<1>2. CASE SyncSwap(n) /\ sync[n].current
  <2>1. /\ row' = [row EXCEPT ![sync[n].sb] = sync[n].next]
        /\ sync[n].next.phase \notin {"Absent", "Deleting"}
    BY <1>2 DEF SyncSwap, SwapsAreMild
  <2>2. Exists(sync[n].sb)
    BY <1>2 DEF SwapsMatch, Prepared, SyncSwap, Exists
  <2> QED BY <2>1, <2>2 DEF RowMild, Exists, TypeOK
<1> QED
  BY <1>1, <1>2 DEF SyncStep, SyncLookup, SyncAsk, SyncRead, SyncSwap, SyncTimeout, SyncDone

LEMMA RemovalIsMild ==
  ASSUME TypeOK, NEW q \in Remover, RemovalStep(q), NEW s \in Sandbox, RemovalSpares(q, s)
  PROVE  RowMild(s)
<1>1. CASE UNCHANGED row
  BY <1>1 DEF RowMild
<1>2. CASE RemovalDetach(q)
  BY <1>2, UpdateIsMild DEF RemovalDetach, PendingRow
<1>3. CASE RemovalDrop(q)
  BY <1>3, DeleteIsMild DEF RemovalDrop, RemovalSpares
<1> QED
  BY <1>1, <1>2, <1>3
     DEF RemovalStep, RemovalStart, RemovalList, RemovalVisit, RemovalCall, RemovalVisited,
         RemovalPorts, RemovalNode, dbVars

-----------------------------------------------------------------------------
(* What status sync prepares.                                              *)

LEMMA OutdatedIsMild ==
  ASSUME TypeOK, SwapsAreMild, NEW s, sync' = Outdated(sync, s)
  PROVE  SwapsAreMild'
<1>1. \A n \in Node : sync'[n].pc = sync[n].pc /\ sync'[n].next = sync[n].next
  BY DEF Outdated, TypeOK, Sync
<1> QED BY <1>1 DEF SwapsAreMild

LEMMA MergeIsMild ==
  ASSUME NEW phase \in Phases \ {"Absent", "Deleting"}, NEW seen \in NodePhases,
         seen # "absent" => MergedPhase(phase, seen) # phase
  PROVE  MergedPhase(phase, seen) \notin {"Absent", "Pending", "Deleting"}
BY DEF MergedPhase, NodePhases

LEMMA SyncStaysMild ==
  ASSUME TypeOK, SwapsAreMild, NEW n \in Node, SyncStep(n)
  PROVE  SwapsAreMild'
<1>0. sync[n] \in Sync
  BY DEF TypeOK
<1>1. ASSUME NEW x, SyncBecomes(n, x), x.pc = "swap" => x.next.phase \notin {"Absent", "Pending", "Deleting"}
      PROVE  SwapsAreMild'
  BY <1>1 DEF SyncBecomes, SwapsAreMild, TypeOK
<1>2. CASE SyncLookup(n) \/ SyncAsk(n) \/ SyncTimeout(n) \/ SyncDone(n)
  <2>1. IdleSync.pc # "swap" /\ [sync[n] EXCEPT !.pc = "ask"].pc # "swap"
    BY <1>0 DEF Sync, IdleSync
  <2>2. \A seen : [sync[n] EXCEPT !.pc = "merge", !.seen = seen].pc # "swap"
    BY <1>0 DEF Sync
  <2> QED BY <1>1, <1>2, <2>1, <2>2 DEF SyncLookup, SyncAsk, SyncTimeout, SyncDone
<1>3. ASSUME NEW s \in Sandbox, SyncRead(n, s)
      PROVE  SwapsAreMild'
  <2> DEFINE r == row[s]
             next == [row[s] EXCEPT !.phase = MergedPhase(@, sync[n].seen[s])]
  <2>0. r \in Row /\ sync[n].seen[s] \in NodePhases
    BY <1>0 DEF TypeOK, Sync
  <2>1. CASE SyncSkips(r, sync[n].seen[s])
    <3>1. SyncBecomes(n, [sync[n] EXCEPT !.batch = @ \ {s}])
      BY <1>3, <2>1 DEF SyncRead
    <3>2. [sync[n] EXCEPT !.batch = @ \ {s}].pc = "merge"
      BY <1>0, <1>3 DEF SyncRead, Sync
    <3> QED BY <1>1, <3>1, <3>2
  <2>2. CASE ~ SyncSkips(r, sync[n].seen[s])
    <3> DEFINE x == [sync[n] EXCEPT !.pc = "swap", !.batch = @ \ {s}, !.sb = s, !.current = TRUE,
                                    !.next = next]
    <3>1. SyncBecomes(n, x)
      BY <1>3, <2>2 DEF SyncRead
    <3>2. /\ r.phase \in Phases \ {"Absent", "Deleting"}
          /\ sync[n].seen[s] # "absent" => MergedPhase(r.phase, sync[n].seen[s]) # r.phase
      BY <2>0, <2>2 DEF SyncSkips, Row
    <3>3. next.phase \notin {"Absent", "Pending", "Deleting"}
      BY <2>0, <3>2, MergeIsMild DEF Row
    <3>4. x.next = next
      BY <1>0 DEF Sync
    <3> HIDE DEF x, next
    <3> QED BY <1>1, <3>1, <3>3, <3>4
  <2> QED BY <2>1, <2>2
<1>4. CASE SyncSwap(n)
  <2> DEFINE old == Outdated(sync, sync[n].sb)
  <2>0. old \in [Node -> Sync]
    BY OutdatedType DEF TypeOK
  <2>1. \A m \in Node : old[m].pc = sync[m].pc /\ old[m].next = sync[m].next
    BY DEF TypeOK, Outdated, Sync
  <2>2. sync'[n].pc = "merge" /\ \A m \in Node \ {n} : sync'[m] = old[m]
    BY <1>0, <1>4, <2>0 DEF SyncSwap, Sync
  <2> HIDE DEF old
  <2> QED BY <2>1, <2>2 DEF SwapsAreMild
<1> QED BY <1>2, <1>3, <1>4 DEF SyncStep

LEMMA SwapsStayMild ==
  ASSUME TypeOK, SwapsAreMild, [Next]_vars
  PROVE  SwapsAreMild'
<1>1. ASSUME NEW s, NEW r, UpdateSandboxStatus(s, r) \/ DeleteRow(s) \/ UNCHANGED sync
      PROVE  SwapsAreMild'
  BY <1>1, OutdatedIsMild DEF UpdateSandboxStatus, DeleteRow, SwapsAreMild
<1>2. CASE SchedStep
  BY <1>1, <1>2
     DEF SchedStep, SchedTick, SchedPick, SchedFail, SchedReserve, SchedReload, SchedLookup,
         SchedCall, SchedCreateFailed, SchedRelease, SchedMarkRunning, SchedAccount
<1>3. ASSUME NEW w \in Worker, FinalizeStep(w) PROVE SwapsAreMild'
  BY <1>1, <1>3
     DEF FinalizeStep, JobMark, JobLookup, JobCall, JobFailed, JobRelease, JobRemove, JobAccount
<1>4. CASE ReconcileStep
  BY <1>1, <1>3, <1>4 DEF ReconcileStep, ReconcileTick, ReconcileVisit, Worker
<1>5. ASSUME NEW n \in Node, SyncStep(n) PROVE SwapsAreMild'
  BY <1>5, SyncStaysMild
<1>6. ASSUME NEW q \in Remover, RemovalStep(q) PROVE SwapsAreMild'
  BY <1>1, <1>6
     DEF RemovalStep, RemovalStart, RemovalList, RemovalVisit, RemovalDrop, RemovalCall,
         RemovalDetach, RemovalVisited, RemovalPorts, RemovalNode
<1>7. ASSUME NEW s \in Sandbox, RefreshIP(s) PROVE SwapsAreMild'
  BY <1>1, <1>7 DEF RefreshIP
<1>8. CASE SyncTick \/ Restart
  <2>0. IdleSync.pc # "swap" /\ \A B : [IdleSync EXCEPT !.pc = "lookup", !.batch = B].pc # "swap"
    BY DEF IdleSync
  <2>1. \A n \in Node : sync'[n].pc # "swap"
    BY <1>8, <2>0 DEF SyncTick, Restart
  <2> QED BY <2>1 DEF SwapsAreMild
<1>9. CASE \/ \E n \in Node : ResourceRead(n) \/ ResourceStore(n)
           \/ Environment /\ ~ Restart
           \/ UNCHANGED vars
  BY <1>1, <1>9
     DEF ResourceRead, ResourceStore, Environment, CreateSandbox, Expire, DeleteRead, ClientGone,
         RemovalGone, RegisterNode, Heartbeat, SbxletReady, SbxletRecovers, SbxletBreaks,
         SbxletRemoves, NodeCreateSandbox, NodeDeleteSandbox, vars, actors
<1> QED
  BY <1>2, <1>3, <1>4, <1>5, <1>6, <1>7, <1>8, <1>9 DEF Next, Orchestrator, Worker

-----------------------------------------------------------------------------
(* The copies of the goroutines.                                           *)

LEMMA JobsStaySparing ==
  ASSUME TypeOK, NEW s \in Sandbox, Spared(s), s \notin doomed', [Next]_vars
  PROVE  \A w \in Worker : JobSpares(w, s)'
<1>1. ASSUME NEW w \in Worker, NEW x, JobBecomes(w, x), x.sb = s => x.pc \in {"acked", "done"}
      PROVE  \A v \in Worker : JobSpares(v, s)'
  BY <1>1 DEF JobBecomes, JobSpares, Spared, TypeOK
<1>2. ASSUME NEW w \in Worker, NEW pc, To(w, pc), job[w].sb = s => pc \in {"acked", "done"}
      PROVE  \A v \in Worker : JobSpares(v, s)'
  <2>1. [job[w] EXCEPT !.pc = pc].pc = pc /\ [job[w] EXCEPT !.pc = pc].sb = job[w].sb
    BY DEF TypeOK, Job
  <2> QED BY <1>1, <1>2, <2>1 DEF To
<1>3. ASSUME NEW w \in Worker, NEW answer \in {"acked", "done"}, End(w, answer)
      PROVE  \A v \in Worker : JobSpares(v, s)'
  BY <1>1, <1>3, NamesAssumption DEF End, IdleJob
<1>4. ASSUME NEW w \in Worker, FinalizeStep(w)
      PROVE  \A v \in Worker : JobSpares(v, s)'
  <2>1. job[w].sb # s
    BY <1>4 DEF Spared, JobSpares, FinalizeStep, JobMark, JobLookup, JobCall, JobFailed,
                JobRelease, JobRemove, JobAccount
  <2> QED
    BY <1>2, <1>3, <1>4, <2>1
       DEF FinalizeStep, JobMark, JobLookup, JobCall, JobFailed, JobRelease, JobRemove, JobAccount
<1>5. ASSUME NEW t \in Sandbox, ReconcileVisit(t)
      PROVE  \A v \in Worker : JobSpares(v, s)'
  BY <1>1, <1>5 DEF ReconcileVisit, Spared, Worker
<1>6. ASSUME NEW w \in Deleter, NEW t \in Sandbox, DeleteRead(w, t)
      PROVE  \A v \in Worker : JobSpares(v, s)'
  BY <1>1, <1>2, <1>6 DEF DeleteRead, Worker
<1>7. ASSUME NEW w \in Deleter, ClientGone(w)
      PROVE  \A v \in Worker : JobSpares(v, s)'
  BY <1>1, <1>7 DEF ClientGone, IdleJob, Worker
<1>8. CASE Restart
  BY <1>8, NamesAssumption DEF Restart, JobSpares, Spared, IdleJob
<1>9. CASE UNCHANGED job
  BY <1>9 DEF JobSpares, Spared
<1>10. CASE SchedStep
  BY <1>9, <1>10
     DEF SchedStep, SchedTick, SchedPick, SchedFail, SchedReserve, SchedReload, SchedLookup,
         SchedCall, SchedCreateFailed, SchedRelease, SchedMarkRunning, SchedAccount, schedOthers
<1>11. CASE SyncTick \/ (\E n \in Node : SyncStep(n)) \/ (\E t \in Sandbox : RefreshIP(t))
            \/ (\E n \in Node : ResourceRead(n) \/ ResourceStore(n)) \/ ReconcileTick
  BY <1>9, <1>11
     DEF SyncTick, SyncStep, SyncLookup, SyncAsk, SyncRead, SyncSwap, SyncTimeout, SyncDone,
         syncOthers, RefreshIP, ResourceRead, ResourceStore, ReconcileTick
<1>12. CASE \E q \in Remover : RemovalStep(q) \/ RemovalGone(q)
  BY <1>9, <1>12
     DEF RemovalStep, RemovalStart, RemovalList, RemovalVisit, RemovalDrop, RemovalCall,
         RemovalDetach, RemovalVisited, RemovalPorts, RemovalNode, RemovalGone, removalOthers
<1>13. CASE /\ Environment /\ ~ Restart /\ ~ \E q \in Remover : RemovalGone(q)
            /\ ~ \E w \in Deleter : ClientGone(w) \/ \E t \in Sandbox : DeleteRead(w, t)
  BY <1>9, <1>13
     DEF Environment, CreateSandbox, Expire, RegisterNode, Heartbeat, SbxletReady,
         SbxletRecovers, SbxletBreaks, SbxletRemoves, NodeCreateSandbox, NodeDeleteSandbox, actors
<1>14. CASE UNCHANGED vars
  BY <1>9, <1>14 DEF vars, actors
<1> QED
  BY <1>4, <1>5, <1>6, <1>7, <1>8, <1>10, <1>11, <1>12, <1>13, <1>14
     DEF Next, Orchestrator, ReconcileStep, Worker

LEMMA TodoStaysSparing ==
  ASSUME TypeOK, NEW s \in Sandbox, Spared(s), [Next]_vars
  PROVE  todo'[s] = NoRow
<1>1. CASE ReconcileTick
  BY <1>1 DEF ReconcileTick, Spared, RowSpared
<1>2. ASSUME NEW t \in Sandbox, ReconcileVisit(t)
      PROVE  todo'[s] = NoRow
  BY <1>2 DEF ReconcileVisit, Spared, TypeOK
<1>3. CASE Restart
  BY <1>3 DEF Restart
<1>4. CASE UNCHANGED todo
  BY <1>4 DEF Spared
<1>5. ASSUME NEW w \in Worker, FinalizeStep(w)
      PROVE  todo'[s] = NoRow
  BY <1>4, <1>5
     DEF FinalizeStep, JobMark, JobLookup, JobCall, JobFailed, JobRelease, JobRemove, JobAccount
<1>6. CASE SchedStep
  BY <1>4, <1>6
     DEF SchedStep, SchedTick, SchedPick, SchedFail, SchedReserve, SchedReload, SchedLookup,
         SchedCall, SchedCreateFailed, SchedRelease, SchedMarkRunning, SchedAccount, schedOthers
<1>7. CASE SyncTick \/ (\E n \in Node : SyncStep(n)) \/ (\E t \in Sandbox : RefreshIP(t))
           \/ (\E n \in Node : ResourceRead(n) \/ ResourceStore(n))
  BY <1>4, <1>7
     DEF SyncTick, SyncStep, SyncLookup, SyncAsk, SyncRead, SyncSwap, SyncTimeout, SyncDone,
         syncOthers, RefreshIP, ResourceRead, ResourceStore
<1>8. CASE \E q \in Remover : RemovalStep(q) \/ RemovalGone(q)
  BY <1>4, <1>8
     DEF RemovalStep, RemovalStart, RemovalList, RemovalVisit, RemovalDrop, RemovalCall,
         RemovalDetach, RemovalVisited, RemovalPorts, RemovalNode, RemovalGone, removalOthers
<1>9. CASE Environment /\ ~ Restart /\ ~ \E q \in Remover : RemovalGone(q)
  BY <1>4, <1>9
     DEF Environment, CreateSandbox, Expire, DeleteRead, ClientGone, RegisterNode, Heartbeat,
         SbxletReady, SbxletRecovers, SbxletBreaks, SbxletRemoves, NodeCreateSandbox,
         NodeDeleteSandbox, actors
<1>10. CASE UNCHANGED vars
  BY <1>4, <1>10 DEF vars, actors
<1> QED
  BY <1>1, <1>2, <1>3, <1>5, <1>6, <1>7, <1>8, <1>9, <1>10
     DEF Next, Orchestrator, ReconcileStep, Worker

LEMMA RemovalsStaySparing ==
  ASSUME TypeOK, NEW s \in Sandbox, Spared(s), [Next]_vars
  PROVE  \A q \in Remover : RemovalSpares(q, s)'
<1>1. ASSUME NEW q \in Remover, NEW x, RemovalBecomes(q, x),
             x.pc # "done" => /\ x.list[s].phase # "Deleting"
                              /\ x.pc = "drop" => x.sb # s
      PROVE  \A p \in Remover : RemovalSpares(p, s)'
  BY <1>1 DEF RemovalBecomes, RemovalSpares, Spared, TypeOK
<1>2. ASSUME NEW q \in Remover, NEW pc, RemovalTo(q, pc), removal[q].pc # "done", pc # "drop"
      PROVE  \A p \in Remover : RemovalSpares(p, s)'
  <2> DEFINE x == [removal[q] EXCEPT !.pc = pc]
  <2>1. x.pc = pc /\ x.list = removal[q].list
    BY DEF TypeOK, Removal
  <2> QED BY <1>1, <1>2, <2>1 DEF RemovalTo, Spared, RemovalSpares
<1>3. ASSUME NEW q \in Remover, NEW n \in Node, RemovalStart(q, n)
      PROVE  \A p \in Remover : RemovalSpares(p, s)'
  <2> DEFINE pc == IF n \in registered \/ q \in Forced THEN "list" ELSE "done"
             x == [removal[q] EXCEPT !.node = n, !.pc = pc]
  <2>1. x.pc = pc /\ x.list = removal[q].list
    BY DEF TypeOK, Removal
  <2>2. RemovalBecomes(q, x) /\ removal[q].pc # "done" /\ pc # "drop"
    BY <1>3 DEF RemovalStart
  <2> HIDE DEF x
  <2> QED BY <1>1, <2>1, <2>2 DEF Spared, RemovalSpares
<1>4. ASSUME NEW q \in Remover, RemovalList(q)
      PROVE  \A p \in Remover : RemovalSpares(p, s)'
  <2> DEFINE list == [t \in Sandbox |-> IF row[t].node = removal[q].node THEN row[t] ELSE NoRow]
             x == [removal[q] EXCEPT !.pc = "visit", !.list = list]
  <2>1. x.pc = "visit" /\ x.list = list
    BY DEF TypeOK, Removal
  <2>2. list[s].phase # "Deleting"
    BY DEF Spared, RowSpared, NoRow
  <2>3. RemovalBecomes(q, x)
    BY <1>4 DEF RemovalList
  <2> HIDE DEF x, list
  <2> QED BY <1>1, <2>1, <2>2, <2>3
<1>5. ASSUME NEW q \in Remover, NEW t \in Sandbox, RemovalVisit(q, t)
      PROVE  \A p \in Remover : RemovalSpares(p, s)'
  <2> DEFINE r == removal[q].list[t]
             pc == CASE r.phase = "Deleting" -> "drop"
                     [] r.phase \in {"Running", "Scheduled"} ->
                          IF q \in Forced THEN "detach" ELSE "call"
                     [] OTHER -> "visit"
             x == [removal[q] EXCEPT !.list = [@ EXCEPT ![t] = NoRow], !.sb = t, !.pc = pc]
  <2>1. /\ x.pc = pc /\ x.sb = t
        /\ x.list[s] = IF s = t THEN NoRow ELSE removal[q].list[s]
    BY DEF TypeOK, Removal
  <2>2. removal[q].list[s].phase # "Deleting"
    BY <1>5 DEF RemovalVisit, Spared, RemovalSpares
  <2>3. pc = "drop" => t # s
    BY <2>2
  <2>4. RemovalBecomes(q, x)
    BY <1>5 DEF RemovalVisit
  <2> HIDE DEF x, pc
  <2> QED BY <1>1, <2>1, <2>2, <2>3, <2>4 DEF NoRow
<1>6. ASSUME NEW q \in Remover,
             \/ RemovalDrop(q) \/ RemovalCall(q) \/ RemovalDetach(q) \/ RemovalVisited(q)
             \/ RemovalPorts(q) \/ RemovalNode(q) \/ RemovalGone(q)
      PROVE  \A p \in Remover : RemovalSpares(p, s)'
  BY <1>2, <1>6
     DEF RemovalDrop, RemovalCall, RemovalDetach, RemovalVisited, RemovalPorts, RemovalNode,
         RemovalGone
<1>7. CASE Restart
  <2> SUFFICES ASSUME NEW q \in Remover PROVE RemovalSpares(q, s)'
    OBVIOUS
  <2>1. [removal[q] EXCEPT !.pc = "done"].pc = "done"
    BY DEF TypeOK, Removal
  <2> QED BY <1>7, <2>1 DEF Restart, RemovalSpares, Spared
<1>8. CASE UNCHANGED removal
  BY <1>8 DEF RemovalSpares, Spared
<1>9. ASSUME NEW w \in Worker, FinalizeStep(w)
      PROVE  UNCHANGED removal
  BY <1>9
     DEF FinalizeStep, JobMark, JobLookup, JobCall, JobFailed, JobRelease, JobRemove, JobAccount,
         jobOthers
<1>10. CASE SchedStep
  BY <1>8, <1>10
     DEF SchedStep, SchedTick, SchedPick, SchedFail, SchedReserve, SchedReload, SchedLookup,
         SchedCall, SchedCreateFailed, SchedRelease, SchedMarkRunning, SchedAccount, schedOthers
<1>11. CASE SyncTick \/ (\E n \in Node : SyncStep(n)) \/ (\E t \in Sandbox : RefreshIP(t))
            \/ (\E n \in Node : ResourceRead(n) \/ ResourceStore(n)) \/ ReconcileTick
            \/ (\E t \in Sandbox : ReconcileVisit(t))
  BY <1>8, <1>11
     DEF SyncTick, SyncStep, SyncLookup, SyncAsk, SyncRead, SyncSwap, SyncTimeout, SyncDone,
         syncOthers, RefreshIP, ResourceRead, ResourceStore, ReconcileTick, ReconcileVisit,
         jobOthers
<1>12. CASE Environment /\ ~ Restart /\ ~ \E q \in Remover : RemovalGone(q)
  BY <1>8, <1>12
     DEF Environment, CreateSandbox, Expire, DeleteRead, ClientGone, RegisterNode, Heartbeat,
         SbxletReady, SbxletRecovers, SbxletBreaks, SbxletRemoves, NodeCreateSandbox,
         NodeDeleteSandbox, actors, jobOthers
<1>13. CASE UNCHANGED vars
  BY <1>8, <1>13 DEF vars, actors
<1> QED
  BY <1>3, <1>4, <1>5, <1>6, <1>7, <1>8, <1>9, <1>10, <1>11, <1>12, <1>13
     DEF Next, Orchestrator, ReconcileStep, RemovalStep, Worker

-----------------------------------------------------------------------------
(* The row.                                                                *)

LEMMA RowStaysSpared ==
  ASSUME TypeOK, SwapsAreMild, SwapsMatch, NEW s \in Sandbox, Spared(s), s \notin doomed',
         ~ CreateSandbox(s), [Next]_vars
  PROVE  RowSpared(s)'
<1>0. RowSpared(s)
  BY DEF Spared
<1>1. ASSUME RowMild(s), UNCHANGED <<expired, creates>>
      PROVE  RowSpared(s)'
  BY <1>0, <1>1, MildKeepsRow DEF RowSpared
<1>2. CASE SchedStep
  <2>1. UNCHANGED <<expired, creates>>
    BY <1>2
       DEF SchedStep, SchedTick, SchedPick, SchedFail, SchedReserve, SchedReload, SchedLookup,
           SchedCall, SchedCreateFailed, SchedRelease, SchedMarkRunning, SchedAccount, schedOthers,
           envVars
  <2> QED BY <1>1, <1>2, <2>1, SchedulerIsMild
<1>3. ASSUME NEW w \in Worker, FinalizeStep(w)
      PROVE  RowSpared(s)'
  <2>1. UNCHANGED <<expired, creates>>
    BY <1>3
       DEF FinalizeStep, JobMark, JobLookup, JobCall, JobFailed, JobRelease, JobRemove, JobAccount,
           jobOthers
  <2>2. RowMild(s)
    BY <1>3, FinalizeIsMild DEF Spared
  <2> QED BY <1>1, <2>1, <2>2
<1>4. ASSUME NEW n \in Node, SyncStep(n)
      PROVE  RowSpared(s)'
  <2>1. UNCHANGED <<expired, creates>>
    BY <1>4
       DEF SyncStep, SyncLookup, SyncAsk, SyncRead, SyncSwap, SyncTimeout, SyncDone, syncOthers
  <2> QED BY <1>1, <1>4, <2>1, SyncIsMild
<1>5. ASSUME NEW q \in Remover, RemovalStep(q)
      PROVE  RowSpared(s)'
  <2>1. UNCHANGED <<expired, creates>>
    BY <1>5
       DEF RemovalStep, RemovalStart, RemovalList, RemovalVisit, RemovalDrop, RemovalCall,
           RemovalDetach, RemovalVisited, RemovalPorts, RemovalNode, removalOthers
  <2>2. RowMild(s)
    BY <1>5, RemovalIsMild DEF Spared
  <2> QED BY <1>1, <2>1, <2>2
<1>6. ASSUME NEW t \in Sandbox, RefreshIP(t)
      PROVE  RowSpared(s)'
  <2>1. RowMild(s)
    BY <1>6, UpdateIsMild DEF RefreshIP, RowMild
  <2> QED BY <1>1, <1>6, <2>1 DEF RefreshIP, envVars
<1>7. ASSUME NEW t \in Sandbox, CreateSandbox(t)
      PROVE  RowSpared(s)'
  <2>1. t # s /\ row'[s] = row[s] /\ creates'[s] = creates[s] /\ expired' \subseteq expired
    BY <1>7 DEF CreateSandbox, TypeOK
  <2> QED BY <1>0, <2>1, MildKeepsRow DEF RowSpared, RowMild
<1>8. ASSUME NEW t \in Sandbox, Expire(t)
      PROVE  RowSpared(s)'
  BY <1>0, <1>8 DEF Expire, RowSpared, dbVars
<1>9. CASE UNCHANGED <<row, expired, creates>>
  BY <1>0, <1>9 DEF RowSpared
<1>10. CASE SyncTick \/ ReconcileTick \/ (\E t \in Sandbox : ReconcileVisit(t))
            \/ (\E n \in Node : ResourceRead(n) \/ ResourceStore(n))
  BY <1>9, <1>10
     DEF SyncTick, ReconcileTick, ReconcileVisit, ResourceRead, ResourceStore, syncOthers,
         jobOthers, dbVars, envVars
<1>11. CASE Environment /\ ~ \E t \in Sandbox : CreateSandbox(t) \/ Expire(t)
  BY <1>9, <1>11
     DEF Environment, DeleteRead, ClientGone, RemovalGone, RegisterNode, Heartbeat, SbxletReady,
         SbxletRecovers, SbxletBreaks, SbxletRemoves, NodeCreateSandbox, NodeDeleteSandbox, Restart,
         dbVars, envVars, jobOthers, removalOthers
<1>12. CASE UNCHANGED vars
  BY <1>9, <1>12 DEF vars, dbVars, envVars
<1> QED
  BY <1>2, <1>3, <1>4, <1>5, <1>6, <1>7, <1>8, <1>10, <1>11, <1>12
     DEF Next, Orchestrator, ReconcileStep, Worker

\* Meaning to delete an id ends with its next creation, and only when nobody works for
\* the earlier sandbox any more.
LEMMA CreationSpares ==
  ASSUME TypeOK, NEW s \in Sandbox, CreateSandbox(s), s \notin doomed'
  PROVE  Spared(s)'
<1>1. ~ Held(s)
  BY DEF CreateSandbox
<1>2. RowSpared(s)'
  BY DEF CreateSandbox, TypeOK, RowSpared, PendingRow
<1>3. UNCHANGED <<todo, job, removal>>
  BY DEF CreateSandbox, actors
<1>4. \A q \in Remover : RemovalSpares(q, s)
  BY <1>1 DEF Held, RemovalSpares, NoRow
<1> QED
  BY <1>1, <1>2, <1>3, <1>4 DEF Held, Spared, JobSpares, RemovalSpares

LEMMA DoomedStay ==
  ASSUME [Next]_vars, NEW s \in doomed, s \in Sandbox, s \notin doomed'
  PROVE  CreateSandbox(s)
<1>1. CASE SchedStep
  BY <1>1
     DEF SchedStep, SchedTick, SchedPick, SchedFail, SchedReserve, SchedReload, SchedLookup,
         SchedCall, SchedCreateFailed, SchedRelease, SchedMarkRunning, SchedAccount, schedOthers,
         envVars
<1>2. ASSUME NEW w \in Worker, FinalizeStep(w)
      PROVE  UNCHANGED doomed
  BY <1>2
     DEF FinalizeStep, JobMark, JobLookup, JobCall, JobFailed, JobRelease, JobRemove, JobAccount,
         jobOthers
<1>3. CASE ReconcileStep
  BY <1>2, <1>3 DEF ReconcileStep, ReconcileTick, ReconcileVisit, Worker, jobOthers
<1>4. CASE SyncTick \/ (\E n \in Node : SyncStep(n)) \/ (\E t \in Sandbox : RefreshIP(t))
           \/ (\E n \in Node : ResourceRead(n) \/ ResourceStore(n))
  BY <1>4
     DEF SyncTick, SyncStep, SyncLookup, SyncAsk, SyncRead, SyncSwap, SyncTimeout, SyncDone,
         syncOthers, RefreshIP, ResourceRead, ResourceStore, envVars
<1>5. CASE \E q \in Remover : RemovalStep(q) \/ RemovalGone(q)
  BY <1>5
     DEF RemovalStep, RemovalStart, RemovalList, RemovalVisit, RemovalDrop, RemovalCall,
         RemovalDetach, RemovalVisited, RemovalPorts, RemovalNode, RemovalGone, removalOthers
<1>6. CASE Environment /\ ~ \E q \in Remover : RemovalGone(q)
  BY <1>6
     DEF Environment, CreateSandbox, Expire, DeleteRead, ClientGone, RegisterNode, Heartbeat,
         SbxletReady, SbxletRecovers, SbxletBreaks, SbxletRemoves, NodeCreateSandbox,
         NodeDeleteSandbox, Restart, envVars, jobOthers
<1>7. CASE UNCHANGED vars
  BY <1>7 DEF vars, envVars
<1> QED
  BY <1>1, <1>2, <1>3, <1>4, <1>5, <1>6, <1>7 DEF Next, Orchestrator, Worker

LEMMA NextSpares ==
  ASSUME SpareInv, SwapsMatch, [Next]_vars
  PROVE  SpareInv'
<1>0. TypeOK /\ SwapsAreMild
  BY DEF SpareInv
<1>1. TypeOK' /\ SwapsAreMild'
  BY <1>0, NextType, SwapsStayMild
<1>2. ASSUME NEW s \in Sandbox, s \notin doomed'
      PROVE  Spared(s)'
  <2>1. CASE CreateSandbox(s)
    BY <1>0, <1>2, <2>1, CreationSpares
  <2>2. CASE ~ CreateSandbox(s)
    <3>1. Spared(s)
      BY <1>2, <2>2, DoomedStay DEF SpareInv
    <3> QED
      BY <1>0, <1>2, <2>2, <3>1, RowStaysSpared, TodoStaysSparing, JobsStaySparing,
         RemovalsStaySparing DEF Spared
  <2> QED BY <2>1, <2>2
<1> QED BY <1>1, <1>2 DEF SpareInv

\* Whatever stale copies the scheduler, the deletions, the node removals and status sync
\* write back, a sandbox that neither a request nor its TTL meant to delete keeps its row
\* and does not become Deleting (sandbox_ops.go: DeleteSandbox, runSandboxReconcileOnce;
\* node_ops.go: detachNodeSandboxes).
THEOREM NobodyElseIsDeleted == Spec => []OnlyDoomedGo
<1>1. Init => SpareInv /\ SwapsMatch
  <2> SUFFICES ASSUME Init PROVE SpareInv /\ SwapsMatch
    OBVIOUS
  <2>1. SwapsAreMild /\ SwapsMatch
    BY DEF Init, SwapsAreMild, SwapsMatch, Prepared, IdleSync
  <2>2. ASSUME NEW s \in Sandbox PROVE Spared(s)
    BY NamesAssumption
       DEF Init, Spared, RowSpared, JobSpares, RemovalSpares, IdleJob, NewRemoval, NoRow
  <2> QED BY <2>1, <2>2, InitType DEF SpareInv
<1>2. SpareInv /\ SwapsMatch /\ [Next]_vars => (SpareInv /\ SwapsMatch)'
  BY NextSpares, NextMatches DEF SpareInv
<1>3. SpareInv => OnlyDoomedGo
  BY DEF SpareInv, OnlyDoomedGo, Spared, RowSpared
<1> QED BY <1>1, <1>2, <1>3, PTL DEF Spec

-----------------------------------------------------------------------------
(* Who changes what.                                                       *)

JobStep ==
  \/ \E w \in Worker : FinalizeStep(w)
  \/ \E t \in Sandbox : ReconcileVisit(t)
  \/ \E w \in Deleter : ClientGone(w) \/ \E t \in Sandbox : DeleteRead(w, t)

LEMMA WhoSteps ==
  ASSUME [Next]_vars
  PROVE  /\ UNCHANGED sched \/ SchedStep \/ Restart
         /\ UNCHANGED job \/ JobStep \/ Restart
         /\ UNCHANGED todo \/ ReconcileTick \/ (\E t \in Sandbox : ReconcileVisit(t)) \/ Restart
         /\ UNCHANGED creates \/ \E t \in Sandbox : CreateSandbox(t)
<1>1. CASE SchedStep
  BY <1>1
     DEF SchedStep, SchedTick, SchedPick, SchedFail, SchedReserve, SchedReload, SchedLookup,
         SchedCall, SchedCreateFailed, SchedRelease, SchedMarkRunning, SchedAccount, schedOthers,
         envVars
<1>2. ASSUME NEW w \in Worker, FinalizeStep(w)
      PROVE  UNCHANGED <<sched, todo, creates>>
  BY <1>2
     DEF FinalizeStep, JobMark, JobLookup, JobCall, JobFailed, JobRelease, JobRemove, JobAccount,
         jobOthers
<1>3. CASE ReconcileTick \/ \E t \in Sandbox : ReconcileVisit(t)
  BY <1>3 DEF ReconcileTick, ReconcileVisit, jobOthers, JobStep
<1>4. CASE SyncTick \/ (\E n \in Node : SyncStep(n)) \/ (\E t \in Sandbox : RefreshIP(t))
           \/ (\E n \in Node : ResourceRead(n) \/ ResourceStore(n))
  BY <1>4
     DEF SyncTick, SyncStep, SyncLookup, SyncAsk, SyncRead, SyncSwap, SyncTimeout, SyncDone,
         syncOthers, RefreshIP, ResourceRead, ResourceStore, envVars
<1>5. CASE \E q \in Remover : RemovalStep(q) \/ RemovalGone(q)
  BY <1>5
     DEF RemovalStep, RemovalStart, RemovalList, RemovalVisit, RemovalDrop, RemovalCall,
         RemovalDetach, RemovalVisited, RemovalPorts, RemovalNode, RemovalGone, removalOthers
<1>6. CASE \E w \in Deleter : ClientGone(w) \/ \E t \in Sandbox : DeleteRead(w, t)
  BY <1>6 DEF ClientGone, DeleteRead, JobStep, jobOthers
<1>7. CASE /\ Environment /\ ~ \E q \in Remover : RemovalGone(q)
           /\ ~ \E w \in Deleter : ClientGone(w) \/ \E t \in Sandbox : DeleteRead(w, t)
  BY <1>7
     DEF Environment, CreateSandbox, Expire, RegisterNode, Heartbeat, SbxletReady,
         SbxletRecovers, SbxletBreaks, SbxletRemoves, NodeCreateSandbox, NodeDeleteSandbox,
         Restart, envVars, actors
<1>8. CASE UNCHANGED vars
  BY <1>8 DEF vars, envVars, actors
<1> QED
  BY <1>1, <1>2, <1>3, <1>4, <1>5, <1>6, <1>7, <1>8
     DEF Next, Orchestrator, ReconcileStep, Worker, JobStep

\* What the steps do to the row of s.
SchedWrites(s) ==
  /\ sched.sb = s /\ row[s].phase # "Absent"
  /\ \/ SchedFail /\ row'[s] = [PendingRow EXCEPT !.phase = "Failed"]
     \/ /\ SchedReserve /\ ~ PortConflict
        /\ row'[s] = [phase |-> "Scheduled", node |-> sched.node, ports |-> sched.ports]
     \/ SchedCreateFailed /\ row'[s] = [sched.fresh EXCEPT !.phase = "Failed"]
     \/ SchedMarkRunning /\ row'[s] = [sched.fresh EXCEPT !.phase = "Running"]

JobWrites(w, s) ==
  /\ job[w].sb = s
  /\ \/ (JobMark(w) \/ JobFailed(w)) /\ row[s].phase # "Absent" /\ row'[s] = job[w].snap
     \/ JobRemove(w) /\ row'[s] = NoRow

SyncWrites(n, s) ==
  SyncSwap(n) /\ Prepared(n) /\ sync[n].sb = s /\ row'[s] = sync[n].next

RemovalWrites(q, s) ==
  /\ removal[q].sb = s
  /\ \/ /\ RemovalDetach(q) /\ row[s].phase # "Absent"
        /\ row'[s] = [PendingRow EXCEPT !.phase = "Failed"]
     \/ RemovalDrop(q) /\ row'[s] = NoRow

RowWritten(s) ==
  \/ row'[s] = row[s]
  \/ CreateSandbox(s)
  \/ SchedWrites(s)
  \/ \E w \in Worker : JobWrites(w, s)
  \/ \E n \in Node : SyncWrites(n, s)
  \/ \E q \in Remover : RemovalWrites(q, s)

LEMMA UpdateWrites ==
  ASSUME TypeOK, NEW t, NEW r, UpdateSandboxStatus(t, r), NEW s \in Sandbox
  PROVE  row'[s] = row[s] \/ (t = s /\ row[s].phase # "Absent" /\ row'[s] = r)
BY DEF UpdateSandboxStatus, Exists, TypeOK

LEMMA DeleteWrites ==
  ASSUME TypeOK, NEW t, DeleteRow(t), NEW s \in Sandbox
  PROVE  row'[s] = row[s] \/ (t = s /\ row'[s] = NoRow)
BY DEF DeleteRow, TypeOK

LEMMA WhoWrites ==
  ASSUME TypeOK, [Next]_vars, NEW s \in Sandbox
  PROVE  RowWritten(s)
<1>0. CASE UNCHANGED row
  BY <1>0 DEF RowWritten
<1>1. CASE SchedStep
  <2>1. CASE SchedFail
    BY <2>1, UpdateWrites DEF SchedFail, RowWritten, SchedWrites
  <2>2. CASE SchedReserve /\ Exists(sched.sb) /\ ~ PortConflict
    BY <2>2, UpdateWrites DEF SchedReserve, RowWritten, SchedWrites
  <2>3. CASE SchedCreateFailed
    BY <2>3, UpdateWrites DEF SchedCreateFailed, RowWritten, SchedWrites
  <2>4. CASE SchedMarkRunning
    BY <2>4, UpdateWrites DEF SchedMarkRunning, RowWritten, SchedWrites
  <2> QED
    BY <1>0, <1>1, <2>1, <2>2, <2>3, <2>4
       DEF SchedStep, SchedTick, SchedPick, SchedReserve, SchedReload, SchedLookup, SchedCall,
           SchedRelease, SchedAccount, dbVars
<1>2. ASSUME NEW w \in Worker, FinalizeStep(w) PROVE RowWritten(s)
  <2>1. CASE JobMark(w)
    BY <2>1, UpdateWrites DEF JobMark, RowWritten, JobWrites
  <2>2. CASE JobFailed(w)
    BY <2>2, UpdateWrites DEF JobFailed, RowWritten, JobWrites
  <2>3. CASE JobRemove(w)
    BY <2>3, DeleteWrites DEF JobRemove, RowWritten, JobWrites
  <2> QED
    BY <1>0, <1>2, <2>1, <2>2, <2>3 DEF FinalizeStep, JobLookup, JobCall, JobRelease, JobAccount
<1>3. ASSUME NEW n \in Node, SyncStep(n) PROVE RowWritten(s)
  <2>1. CASE SyncSwap(n)
    BY <2>1 DEF SyncSwap, TypeOK, RowWritten, SyncWrites, Prepared
  <2> QED
    BY <1>0, <1>3, <2>1 DEF SyncStep, SyncLookup, SyncAsk, SyncRead, SyncTimeout, SyncDone
<1>4. ASSUME NEW q \in Remover, RemovalStep(q) PROVE RowWritten(s)
  <2>1. CASE RemovalDetach(q)
    BY <2>1, UpdateWrites DEF RemovalDetach, RowWritten, RemovalWrites
  <2>2. CASE RemovalDrop(q)
    BY <2>2, DeleteWrites DEF RemovalDrop, RowWritten, RemovalWrites
  <2> QED
    BY <1>0, <1>4, <2>1, <2>2
       DEF RemovalStep, RemovalStart, RemovalList, RemovalVisit, RemovalCall, RemovalVisited,
           RemovalPorts, RemovalNode, dbVars
<1>5. ASSUME NEW t \in Sandbox, RefreshIP(t) PROVE RowWritten(s)
  BY <1>0, <1>5, UpdateWrites DEF RefreshIP, RowWritten
<1>6. ASSUME NEW t \in Sandbox, CreateSandbox(t) PROVE RowWritten(s)
  BY <1>6 DEF CreateSandbox, RowWritten, TypeOK
<1>7. CASE SyncTick \/ ReconcileTick \/ (\E t \in Sandbox : ReconcileVisit(t))
           \/ (\E n \in Node : ResourceRead(n) \/ ResourceStore(n))
  BY <1>0, <1>7 DEF SyncTick, ReconcileTick, ReconcileVisit, ResourceRead, ResourceStore,
         dbVars
<1>8. CASE Environment /\ ~ \E t \in Sandbox : CreateSandbox(t)
  BY <1>0, <1>8
     DEF Environment, Expire, DeleteRead, ClientGone, RemovalGone, RegisterNode, Heartbeat,
         SbxletReady, SbxletRecovers, SbxletBreaks, SbxletRemoves, NodeCreateSandbox,
         NodeDeleteSandbox, Restart, dbVars
<1>9. CASE UNCHANGED vars
  BY <1>0, <1>9 DEF vars, dbVars
<1> QED
  BY <1>1, <1>2, <1>3, <1>4, <1>5, <1>6, <1>7, <1>8, <1>9
     DEF Next, Orchestrator, ReconcileStep, Worker

-----------------------------------------------------------------------------
(* Where a sandbox is.                                                     *)

Nowhere(s)   == \A n \in Node : live[n][s].phase = "absent"
OnOneNode(s) == \A m, n \in Node :
                  live[m][s].phase # "absent" /\ live[n][s].phase # "absent" => m = n

\* No node gets a sandbox that it did not have.
OnlyLeaves(s) ==
  \A n \in Node : live'[n][s].phase # "absent" => live[n][s].phase # "absent"

\* Node n gets what the scheduler calls it for.
Arrives(n, s) ==
  /\ SchedCall /\ sched.sb = s /\ sched.fresh.node = n
  /\ \A m \in Node \ {n} : live'[m][s].phase = live[m][s].phase

LEMMA PhaseLeaves ==
  ASSUME TypeOK, NEW n, NEW s \in Sandbox, NEW t, NEW phase, live[n][t].phase # "absent",
         live' = [live EXCEPT ![n][t].phase = phase]
  PROVE  OnlyLeaves(s)
BY DEF TypeOK, OnNode, OnlyLeaves

LEMMA CallLeaves ==
  ASSUME TypeOK, NEW n, NEW s \in Sandbox, NEW t, CallDeletes(n, t) \/ CallFails(n, t)
  PROVE  OnlyLeaves(s)
<1>1. CASE live' = live
  BY <1>1 DEF OnlyLeaves
<1>2. CASE live' = Begun(n, t)
  <2>1. CASE live[n][t].phase = "absent"
    BY <1>1, <1>2, <2>1 DEF Begun
  <2>2. CASE live[n][t].phase # "absent"
    BY <1>2, <2>2, PhaseLeaves DEF Begun
  <2> QED BY <2>1, <2>2
<1>3. CASE live' = Gone(n, t)
  BY <1>3 DEF Gone, NotThere, TypeOK, OnlyLeaves
<1> QED BY <1>1, <1>2, <1>3 DEF CallDeletes, CallFails

LEMMA WhoArrives ==
  ASSUME TypeOK, [Next]_vars, "create" \notin Routes, NEW s \in Sandbox
  PROVE  OnlyLeaves(s) \/ \E n \in Node : Arrives(n, s)
<1>0. CASE UNCHANGED live
  BY <1>0 DEF OnlyLeaves
<1>1. CASE SchedCall
  <2> DEFINE n == sched.fresh.node
             x == [phase |-> "creating", ports |-> sched.fresh.ports]
  <2>1. CASE live' = [live EXCEPT ![n][sched.sb] = x] /\ n \in Node /\ sched.sb = s
    <3>1. \A m \in Node \ {n} : live'[m][s] = live[m][s]
      BY <2>1 DEF TypeOK
    <3> QED BY <1>1, <2>1, <3>1 DEF Arrives
  <2>2. CASE live' = [live EXCEPT ![n][sched.sb] = x] /\ (n \notin Node \/ sched.sb # s)
    <3>1. \A m \in Node : live'[m][s] = live[m][s]
      BY <2>2 DEF TypeOK
    <3> QED BY <3>1 DEF OnlyLeaves
  <2> QED BY <1>0, <1>1, <2>1, <2>2 DEF SchedCall
<1>2. CASE SchedStep /\ ~ SchedCall
  BY <1>0, <1>2
     DEF SchedStep, SchedTick, SchedPick, SchedFail, SchedReserve, SchedReload, SchedLookup,
         SchedCreateFailed, SchedRelease, SchedMarkRunning, SchedAccount, envVars
<1>3. ASSUME NEW w \in Worker, FinalizeStep(w)
      PROVE  OnlyLeaves(s)
  <2>1. CASE JobCall(w)
    BY <2>1, CallLeaves DEF JobCall
  <2>2. CASE ~ JobCall(w)
    <3>1. UNCHANGED live
      BY <1>3, <2>2
         DEF FinalizeStep, JobMark, JobLookup, JobFailed, JobRelease, JobRemove, JobAccount
    <3> QED BY <3>1 DEF OnlyLeaves
  <2> QED BY <2>1, <2>2
<1>4. CASE ReconcileTick \/ \E t \in Sandbox : ReconcileVisit(t)
  BY <1>0, <1>4 DEF ReconcileTick, ReconcileVisit
<1>5. CASE SyncTick \/ (\E n \in Node : SyncStep(n)) \/ (\E t \in Sandbox : RefreshIP(t))
           \/ (\E n \in Node : ResourceRead(n) \/ ResourceStore(n))
  BY <1>0, <1>5
     DEF SyncTick, SyncStep, SyncLookup, SyncAsk, SyncRead, SyncSwap, SyncTimeout, SyncDone,
         syncOthers, RefreshIP, ResourceRead, ResourceStore, envVars
<1>6. ASSUME NEW q \in Remover, RemovalStep(q) \/ RemovalGone(q)
      PROVE  OnlyLeaves(s)
  <2>1. CASE RemovalCall(q)
    BY <2>1, CallLeaves DEF RemovalCall
  <2>2. CASE ~ RemovalCall(q)
    <3>1. UNCHANGED live
      BY <1>6, <2>2
         DEF RemovalStep, RemovalStart, RemovalList, RemovalVisit, RemovalDrop, RemovalDetach,
             RemovalVisited, RemovalPorts, RemovalNode, RemovalGone
    <3> QED BY <3>1 DEF OnlyLeaves
  <2> QED BY <2>1, <2>2
<1>7. ASSUME NEW n \in Node, NEW t \in Sandbox,
             \/ SbxletReady(n, t) \/ SbxletRecovers(n, t) \/ SbxletBreaks(n, t)
             \/ SbxletRemoves(n, t) \/ NodeDeleteSandbox(n, t)
      PROVE  OnlyLeaves(s)
  <2>1. CASE SbxletReady(n, t) \/ SbxletRecovers(n, t) \/ SbxletBreaks(n, t)
    BY <2>1, PhaseLeaves DEF SbxletReady, SbxletRecovers, SbxletBreaks
  <2>2. CASE SbxletRemoves(n, t)
    BY <2>2 DEF SbxletRemoves, NotThere, TypeOK, OnlyLeaves
  <2>3. CASE NodeDeleteSandbox(n, t)
    BY <2>3, CallLeaves DEF NodeDeleteSandbox
  <2> QED BY <1>7, <2>1, <2>2, <2>3
<1>8. CASE \/ \E t \in Sandbox : CreateSandbox(t) \/ Expire(t)
           \/ \E w \in Deleter : (\E t \in Sandbox : DeleteRead(w, t)) \/ ClientGone(w)
           \/ \E n \in Node : RegisterNode(n) \/ Heartbeat(n)
           \/ Restart
  BY <1>0, <1>8 DEF CreateSandbox, Expire, DeleteRead, ClientGone, RegisterNode, Heartbeat,
                    Restart, envVars
<1>9. CASE UNCHANGED vars
  BY <1>0, <1>9 DEF vars, envVars
<1>10. \A n \in Node, t \in Sandbox : ~ NodeCreateSandbox(n, t)
  BY DEF NodeCreateSandbox
<1> QED
  BY <1>1, <1>2, <1>3, <1>4, <1>5, <1>6, <1>7, <1>8, <1>9, <1>10
     DEF Next, Orchestrator, Environment, ReconcileStep, Worker

-----------------------------------------------------------------------------
(* An id is created on a node once for each time it was requested.         *)

\* The scheduler has s to create on a node, or may list it for that.
Fresh(s) ==
  \/ row[s].phase = "Pending"
  \/ s \in sched.queue
  \/ sched.sb = s /\ sched.pc \in {"fail", "reserve", "reload", "lookup", "call"}

Placing(s) == sched.sb = s /\ sched.pc \in {"reload", "lookup", "call"}

\* What the scheduler has begun to create it does not list again.
OnceCreated(s) ==
  /\ Fresh(s) => Nowhere(s)
  /\ sched.sb = s => s \notin sched.queue
  /\ Placing(s) => row[s].phase # "Pending"
  /\ OnOneNode(s)

\* The copies that are written back.
CopiesOK == TypeOK /\ SwapsMatch /\ SwapsAreMild /\ JobsDelete

LEMMA NextCopies == CopiesOK /\ [Next]_vars => CopiesOK'
BY NextType, NextMatches, SwapsStayMild, JobsKept DEF CopiesOK

LEMMA WhatSchedWrites ==
  ASSUME TypeOK, NEW s, SchedWrites(s)
  PROVE  row'[s].phase = IF SchedReserve THEN "Scheduled"
                         ELSE IF SchedMarkRunning THEN "Running" ELSE "Failed"
<1>1. sched.fresh \in Row
  BY DEF TypeOK, SchedOK, Sched
<1>2. \A p : [sched.fresh EXCEPT !.phase = p].phase = p
  BY <1>1 DEF Row
<1>3. CASE SchedFail
  <2>1. [PendingRow EXCEPT !.phase = "Failed"].phase = "Failed"
    BY DEF PendingRow
  <2> QED BY <1>3, <2>1 DEF SchedWrites, SchedFail, SchedReserve, SchedCreateFailed, SchedMarkRunning
<1>4. CASE SchedReserve
  BY <1>4 DEF SchedWrites, SchedFail, SchedReserve, SchedCreateFailed, SchedMarkRunning
<1>5. CASE SchedCreateFailed
  BY <1>2, <1>5 DEF SchedWrites, SchedFail, SchedReserve, SchedCreateFailed, SchedMarkRunning
<1>6. CASE SchedMarkRunning
  BY <1>2, <1>6 DEF SchedWrites, SchedFail, SchedReserve, SchedCreateFailed, SchedMarkRunning
<1> QED BY <1>3, <1>4, <1>5, <1>6 DEF SchedWrites

LEMMA NotPendingAgain ==
  ASSUME CopiesOK, [Next]_vars, NEW s \in Sandbox, ~ CreateSandbox(s), row[s].phase # "Pending"
  PROVE  row'[s].phase # "Pending"
<1>1. CASE SchedWrites(s)
  BY <1>1, WhatSchedWrites DEF CopiesOK
<1>2. ASSUME NEW w \in Worker, JobWrites(w, s) PROVE row'[s].phase # "Pending"
  <2>1. JobMark(w) \/ JobFailed(w) => job[w].snap.phase = "Deleting"
    BY DEF CopiesOK, JobsDelete, JobMark, JobFailed
  <2> QED BY <1>2, <2>1 DEF JobWrites, NoRow
<1>3. ASSUME NEW n \in Node, SyncWrites(n, s) PROVE row'[s].phase # "Pending"
  BY <1>3 DEF CopiesOK, SwapsAreMild, SyncWrites, SyncSwap
<1>4. ASSUME NEW q \in Remover, RemovalWrites(q, s) PROVE row'[s].phase # "Pending"
  BY <1>4 DEF RemovalWrites, PendingRow, NoRow
<1> QED BY <1>1, <1>2, <1>3, <1>4, WhoWrites DEF CopiesOK, RowWritten

\* How the scheduler comes to its next step.
SchedulerLeaves ==
  /\ sched'.pc \in {"idle", "pick"} /\ sched'.sb = NoSandbox
  /\ sched'.queue = sched.queue \/ sched'.queue = {}

SchedulerGoesOn ==
  /\ sched'.sb = sched.sb /\ sched'.queue = sched.queue
  /\ <<sched.pc, sched'.pc>> \in
       {<<"reserve", "fail">>, <<"reserve", "reload">>, <<"reload", "lookup">>,
        <<"lookup", "call">>, <<"lookup", "refused">>, <<"call", "created">>,
        <<"call", "refused">>, <<"refused", "release">>, <<"created", "account">>}

SchedulerLists ==
  /\ sched'.pc = "pick" /\ sched'.sb = NoSandbox
  /\ sched'.queue = {t \in Sandbox : row[t].phase = "Pending"}

SchedulerTakes(t) ==
  /\ t \in sched.queue /\ sched.pc = "pick" /\ sched'.pc \in {"fail", "reserve"}
  /\ sched'.sb = t /\ sched'.queue = sched.queue \ {t}

LEMMA SchedulerMoves ==
  ASSUME TypeOK, [Next]_vars
  PROVE  \/ UNCHANGED sched \/ SchedulerLeaves \/ SchedulerGoesOn \/ SchedulerLists
         \/ \E t \in Sandbox : SchedulerTakes(t)
<1>0. sched \in Sched
  BY DEF TypeOK, SchedOK
<1>1. CASE SchedLeave
  <2>1. /\ sched'.pc \in {"idle", "pick"} /\ sched'.sb = NoSandbox /\ sched'.queue = sched.queue
    BY <1>1 DEF SchedLeave, IdleSched
  <2> QED BY <2>1 DEF SchedulerLeaves
<1>2. CASE Restart
  BY <1>2 DEF Restart, IdleSched, SchedulerLeaves
<1>3. CASE SchedTick
  <2>1. /\ sched'.pc = "pick" /\ sched'.sb = NoSandbox
        /\ sched'.queue = {t \in Sandbox : row[t].phase = "Pending"}
    BY <1>3 DEF SchedTick, IdleSched
  <2> QED BY <2>1 DEF SchedulerLists
<1>4. ASSUME NEW t \in Sandbox, SchedPick(t)
      PROVE  SchedulerTakes(t)
  <2>1. t \in sched.queue /\ sched.pc = "pick"
    BY <1>4 DEF SchedPick
  <2>2. sched'.pc \in {"fail", "reserve"} /\ sched'.sb = t /\ sched'.queue = sched.queue \ {t}
    BY <1>0, <1>4 DEF SchedPick, Sched
  <2> QED BY <2>1, <2>2 DEF SchedulerTakes
<1>5. ASSUME NEW pc, <<sched.pc, pc>> \in
               {<<"reserve", "fail">>, <<"reserve", "reload">>, <<"reload", "lookup">>,
                <<"lookup", "call">>, <<"lookup", "refused">>, <<"call", "created">>,
                <<"call", "refused">>, <<"refused", "release">>, <<"created", "account">>},
             sched'.pc = pc, sched'.sb = sched.sb, sched'.queue = sched.queue
      PROVE  SchedulerGoesOn
  BY <1>5 DEF SchedulerGoesOn
<1>6. CASE SchedReserve
  <2>1. CASE Exists(sched.sb) /\ ~ PortConflict
    <3>1. sched.pc = "reserve" /\ sched'.pc = "reload" /\ sched'.sb = sched.sb
          /\ sched'.queue = sched.queue
      BY <1>0, <1>6, <2>1 DEF SchedReserve, Sched
    <3> QED BY <1>5, <3>1
  <2>2. CASE ~ (Exists(sched.sb) /\ ~ PortConflict) /\ sched.ports = {}
    <3>1. sched.pc = "reserve" /\ sched'.pc = "fail" /\ sched'.sb = sched.sb
          /\ sched'.queue = sched.queue
      BY <1>0, <1>6, <2>2 DEF SchedReserve, Sched
    <3> QED BY <1>5, <3>1
  <2> QED BY <1>1, <1>6, <2>1, <2>2 DEF SchedReserve
<1>7. CASE SchedReload /\ Exists(sched.sb)
  <2>1. sched.pc = "reload" /\ sched'.pc = "lookup" /\ sched'.sb = sched.sb
        /\ sched'.queue = sched.queue
    BY <1>0, <1>7 DEF SchedReload, Sched
  <2> QED BY <1>5, <2>1
<1>8. CASE SchedLookup
  <2>1. sched.pc = "lookup" /\ sched'.pc \in {"call", "refused"} /\ sched'.sb = sched.sb
        /\ sched'.queue = sched.queue
    BY <1>0, <1>8 DEF SchedLookup, Sched
  <2> QED BY <1>5, <2>1
<1>9. CASE SchedCall
  <2>1. sched.pc = "call" /\ sched'.pc \in {"created", "refused"} /\ sched'.sb = sched.sb
        /\ sched'.queue = sched.queue
    BY <1>0, <1>9 DEF SchedCall, Sched
  <2> QED BY <1>5, <2>1
<1>10. CASE SchedCreateFailed
  <2>1. sched.pc = "refused" /\ sched'.pc = "release" /\ sched'.sb = sched.sb
        /\ sched'.queue = sched.queue
    BY <1>0, <1>10 DEF SchedCreateFailed, Sched
  <2> QED BY <1>5, <2>1
<1>11. CASE SchedMarkRunning
  <2>1. sched.pc = "created" /\ sched'.pc = "account" /\ sched'.sb = sched.sb
        /\ sched'.queue = sched.queue
    BY <1>0, <1>11 DEF SchedMarkRunning, Sched
  <2> QED BY <1>5, <2>1
<1>12. CASE SchedFail \/ SchedRelease \/ SchedAccount \/ (SchedReload /\ ~ Exists(sched.sb))
  BY <1>1, <1>12 DEF SchedFail, SchedRelease, SchedAccount, SchedReload
<1> QED
  BY <1>2, <1>3, <1>4, <1>6, <1>7, <1>8, <1>9, <1>10, <1>11, <1>12, WhoSteps DEF SchedStep

\* What status sync has of a sandbox: it prepares what it was answered for its batch.
SyncTakes(n, t) ==
  /\ SyncRead(n, t) /\ t \in sync[n].batch /\ ~ SyncSkips(row[t], sync[n].seen[t])
  /\ sync'[n].sb = t

SyncSees(n, s) == SyncAsk(n) /\ s \in sync[n].batch /\ live[n][s].phase # "absent"

SyncMove(n) ==
  /\ sync'[n].sb \in {sync[n].sb, NoSandbox} \/ \E t \in Sandbox : SyncTakes(n, t)
  /\ sync'[n].batch \subseteq sync[n].batch \/ (SyncTick /\ sync'[n].batch = BatchOf(n))
  /\ \A s \in Sandbox :
       sync'[n].seen[s] \in {sync[n].seen[s], "absent"} \/ SyncSees(n, s)

LEMMA SyncKept ==
  ASSUME NEW n, sync'[n].sb = sync[n].sb, sync'[n].batch = sync[n].batch,
         sync'[n].seen = sync[n].seen
  PROVE  SyncMove(n)
BY DEF SyncMove

LEMMA SyncIdles ==
  ASSUME NEW n, sync'[n] = IdleSync
  PROVE  SyncMove(n)
BY DEF SyncMove, IdleSync

LEMMA OutdatedMoves ==
  ASSUME TypeOK, NEW s, sync' = Outdated(sync, s) \/ UNCHANGED sync, NEW n \in Node
  PROVE  SyncMove(n)
<1>1. sync'[n].sb = sync[n].sb /\ sync'[n].batch = sync[n].batch /\ sync'[n].seen = sync[n].seen
  <2>0. sync[n] \in Sync
    BY DEF TypeOK
  <2>1. sync'[n] \in {sync[n], [sync[n] EXCEPT !.current = FALSE]}
    BY DEF Outdated
  <2> QED BY <2>0, <2>1 DEF Sync
<1> QED BY <1>1, SyncKept

LEMMA SyncStepMoves ==
  ASSUME TypeOK, NEW m \in Node, SyncStep(m), NEW n \in Node
  PROVE  SyncMove(n)
<1>0. sync \in [Node -> Sync] /\ sync[m] \in Sync
  BY DEF TypeOK
<1>1. ASSUME NEW x, SyncBecomes(m, x)
      PROVE  sync'[m] = x /\ (n # m => SyncMove(n))
  BY <1>0, <1>1, SyncKept DEF SyncBecomes
<1>2. CASE SyncLookup(m) \/ SyncTimeout(m) \/ SyncDone(m)
  <2>1. CASE SyncBecomes(m, IdleSync)
    BY <1>1, <2>1, SyncIdles
  <2>2. CASE SyncBecomes(m, [sync[m] EXCEPT !.pc = "ask"])
    <3>1. /\ sync'[m] = [sync[m] EXCEPT !.pc = "ask"]
          /\ n # m => SyncMove(n)
      BY <1>1, <2>2
    <3>2. sync'[m].sb = sync[m].sb /\ sync'[m].batch = sync[m].batch
          /\ sync'[m].seen = sync[m].seen
      BY <1>0, <3>1 DEF Sync
    <3> QED BY <3>1, <3>2, SyncKept
  <2> QED BY <1>2, <2>1, <2>2 DEF SyncLookup, SyncTimeout, SyncDone
<1>3. CASE SyncAsk(m)
  <2>1. CASE SyncBecomes(m, IdleSync)
    BY <1>1, <2>1, SyncIdles
  <2>2. ASSUME NEW answers \in BOOLEAN, NEW seen \in Statuses(m, answers),
               SyncBecomes(m, [sync[m] EXCEPT !.pc = "merge", !.seen = seen])
        PROVE  SyncMove(n)
    <3>1. /\ sync'[m] = [sync[m] EXCEPT !.pc = "merge", !.seen = seen]
          /\ n # m => SyncMove(n)
      BY <1>1, <2>2
    <3>2. sync'[m].sb = sync[m].sb /\ sync'[m].batch = sync[m].batch /\ sync'[m].seen = seen
      BY <1>0, <3>1 DEF Sync
    <3>3. ASSUME NEW s \in Sandbox, seen[s] # "absent"
          PROVE  s \in sync[m].batch /\ live[m][s].phase # "absent"
      <4>1. seen[s] \in IF s \in sync[m].batch THEN Reported(live[m][s].phase, answers)
                        ELSE {"absent"}
        BY <2>2 DEF Statuses
      <4> QED BY <3>3, <4>1 DEF Reported
    <3> QED BY <1>3, <3>1, <3>2, <3>3 DEF SyncMove, SyncSees
  <2> QED BY <1>3, <2>1, <2>2 DEF SyncAsk
<1>4. ASSUME NEW t \in Sandbox, SyncRead(m, t)
      PROVE  SyncMove(n)
  <2>0. t \in sync[m].batch
    BY <1>4 DEF SyncRead
  <2>1. CASE SyncSkips(row[t], sync[m].seen[t])
    <3>1. /\ sync'[m] = [sync[m] EXCEPT !.batch = @ \ {t}]
          /\ n # m => SyncMove(n)
      BY <1>1, <1>4, <2>1 DEF SyncRead
    <3>2. sync'[m].sb = sync[m].sb /\ sync'[m].batch = sync[m].batch \ {t}
          /\ sync'[m].seen = sync[m].seen
      BY <1>0, <3>1 DEF Sync
    <3> QED BY <3>1, <3>2 DEF SyncMove
  <2>2. CASE ~ SyncSkips(row[t], sync[m].seen[t])
    <3> DEFINE next == [row[t] EXCEPT !.phase = MergedPhase(@, sync[m].seen[t])]
    <3>1. /\ sync'[m] = [sync[m] EXCEPT !.pc = "swap", !.batch = @ \ {t}, !.sb = t,
                                        !.current = TRUE, !.next = next]
          /\ n # m => SyncMove(n)
      BY <1>1, <1>4, <2>2 DEF SyncRead
    <3> HIDE DEF next
    <3>2. sync'[m].sb = t /\ sync'[m].batch = sync[m].batch \ {t}
          /\ sync'[m].seen = sync[m].seen
      BY <1>0, <3>1 DEF Sync
    <3>3. SyncTakes(m, t)
      BY <1>4, <2>0, <2>2, <3>2 DEF SyncTakes
    <3> QED BY <3>1, <3>2, <3>3 DEF SyncMove
  <2> QED BY <2>1, <2>2
<1>5. CASE SyncSwap(m)
  <2> DEFINE old == Outdated(sync, sync[m].sb)
             x == [sync[m] EXCEPT !.pc = "merge", !.sb = NoSandbox, !.next = NoRow,
                                  !.current = FALSE]
  <2>0. old \in [Node -> Sync]
    BY OutdatedType DEF TypeOK
  <2>1. sync' = [old EXCEPT ![m] = x]
    BY <1>5 DEF SyncSwap
  <2>2. x.sb = NoSandbox /\ x.batch = sync[m].batch /\ x.seen = sync[m].seen
    BY <1>0 DEF Sync
  <2>3. old[n].sb = sync[n].sb /\ old[n].batch = sync[n].batch /\ old[n].seen = sync[n].seen
    BY <1>0 DEF Outdated, Sync
  <2> HIDE DEF old, x
  <2>4. sync'[m] = x /\ (n # m => sync'[n] = old[n])
    BY <2>0, <2>1
  <2>5. CASE n = m
    BY <2>2, <2>4, <2>5 DEF SyncMove
  <2>6. CASE n # m
    BY <2>3, <2>4, <2>6, SyncKept
  <2> QED BY <2>5, <2>6
<1> QED BY <1>2, <1>3, <1>4, <1>5 DEF SyncStep

LEMMA SyncMoves ==
  ASSUME TypeOK, [Next]_vars, NEW n \in Node
  PROVE  SyncMove(n)
<1>1. ASSUME NEW s, NEW r, UpdateSandboxStatus(s, r) \/ DeleteRow(s) \/ UNCHANGED sync
      PROVE  SyncMove(n)
  BY <1>1, OutdatedMoves DEF UpdateSandboxStatus, DeleteRow
<1>2. CASE SchedStep
  BY <1>1, <1>2
     DEF SchedStep, SchedTick, SchedPick, SchedFail, SchedReserve, SchedReload, SchedLookup,
         SchedCall, SchedCreateFailed, SchedRelease, SchedMarkRunning, SchedAccount
<1>3. ASSUME NEW w \in Worker, FinalizeStep(w) PROVE SyncMove(n)
  BY <1>1, <1>3
     DEF FinalizeStep, JobMark, JobLookup, JobCall, JobFailed, JobRelease, JobRemove, JobAccount
<1>4. CASE ReconcileStep
  BY <1>1, <1>3, <1>4 DEF ReconcileStep, ReconcileTick, ReconcileVisit, Worker
<1>5. CASE SyncTick
  <2>1. sync'[n] = IF BatchOf(n) = {} THEN IdleSync
                   ELSE [IdleSync EXCEPT !.pc = "lookup", !.batch = BatchOf(n)]
    BY <1>5 DEF SyncTick
  <2>2. sync'[n] = IdleSync \/ /\ sync'[n].batch = BatchOf(n) /\ sync'[n].sb = NoSandbox
                               /\ sync'[n].seen = [s \in Sandbox |-> "absent"]
    BY <2>1 DEF IdleSync
  <2> QED BY <1>5, <2>2, SyncIdles DEF SyncMove
<1>6. ASSUME NEW m \in Node, SyncStep(m) PROVE SyncMove(n)
  BY <1>6, SyncStepMoves
<1>7. ASSUME NEW q \in Remover, RemovalStep(q) PROVE SyncMove(n)
  BY <1>1, <1>7
     DEF RemovalStep, RemovalStart, RemovalList, RemovalVisit, RemovalDrop, RemovalCall,
         RemovalDetach, RemovalVisited, RemovalPorts, RemovalNode
<1>8. ASSUME NEW s \in Sandbox, RefreshIP(s) PROVE SyncMove(n)
  BY <1>1, <1>8 DEF RefreshIP
<1>9. CASE Restart
  BY <1>9, SyncIdles DEF Restart
<1>10. CASE \/ \E m \in Node : ResourceRead(m) \/ ResourceStore(m)
            \/ Environment /\ ~ Restart
            \/ UNCHANGED vars
  BY <1>1, <1>10
     DEF ResourceRead, ResourceStore, Environment, CreateSandbox, Expire, DeleteRead, ClientGone,
         RemovalGone, RegisterNode, Heartbeat, SbxletReady, SbxletRecovers, SbxletBreaks,
         SbxletRemoves, NodeCreateSandbox, NodeDeleteSandbox, vars, actors
<1> QED
  BY <1>2, <1>3, <1>4, <1>5, <1>6, <1>7, <1>8, <1>9, <1>10 DEF Next, Orchestrator, Worker

\* What a job holds of a sandbox.
JobTakes(w, t) ==
  /\ job'[w].sb = t
  /\ \/ ReconcileVisit(t) /\ w = Loop /\ todo[t] # NoRow /\ job'[w].snap = Deleting(todo[t])
        /\ job'[w].pc \in {"mark", "lookup"}
     \/ w \in Deleter /\ DeleteRead(w, t) /\ job'[w].snap = Deleting(row[t])
        /\ job'[w].pc = "mark" /\ row[t].phase \in DeleteFrom \ {"Absent", "Deleting"}

\* What a job goes on to.
JobGoesOn(w) ==
  /\ job'[w].sb = job[w].sb
  /\ \/ job'[w].snap = job[w].snap
        /\ \/ JobMark(w) /\ job'[w].pc = "lookup"
           \/ JobLookup(w) /\ job'[w].pc = IF job[w].snap.node \in registered THEN "call" ELSE "release"
           \/ JobCall(w) /\ job'[w].pc = "failed"
           \/ JobCall(w) /\ CallDeletes(job[w].snap.node, job[w].sb) /\ job'[w].pc = "release"
           \/ JobRelease(w) /\ job'[w].pc = "remove"
           \/ JobRemove(w) /\ job'[w].pc = "account"
     \/ (JobRemove(w) \/ JobAccount(w)) /\ job'[w].pc = "acked"

JobMove(w) ==
  \/ job'[w] = job[w]
  \/ job'[w].sb = NoSandbox /\ job'[w].pc \in {"idle", "done"}
  \/ job'[w].sb = job[w].sb /\ job'[w].pc = "done"
  \/ JobGoesOn(w)
  \/ \E t \in Sandbox : JobTakes(w, t)

LEMMA FinalizeMoves ==
  ASSUME TypeOK, NEW v \in Worker, FinalizeStep(v), NEW w \in Worker
  PROVE  JobMove(w)
<1>0. job \in [Worker -> Job] /\ job[v] \in Job
  BY DEF TypeOK
<1>1. ASSUME NEW x, JobBecomes(v, x)
      PROVE  job'[v] = x /\ (w # v => JobMove(w))
  BY <1>0, <1>1 DEF JobBecomes, JobMove
<1>2. ASSUME NEW pc, To(v, pc)
      PROVE  /\ job'[v].sb = job[v].sb /\ job'[v].snap = job[v].snap /\ job'[v].pc = pc
             /\ w # v => JobMove(w)
  <2>1. job'[v] = [job[v] EXCEPT !.pc = pc] /\ (w # v => JobMove(w))
    BY <1>1, <1>2 DEF To
  <2> QED BY <1>0, <2>1 DEF Job
<1>3. ASSUME NEW answer, End(v, answer)
      PROVE  /\ \/ job'[v].sb = NoSandbox /\ job'[v].pc = "idle"
                \/ job'[v].sb = job[v].sb /\ job'[v].pc = answer
             /\ w # v => JobMove(w)
  <2>1. /\ job'[v] = IF v = Loop THEN IdleJob
                     ELSE [IdleJob EXCEPT !.pc = answer, !.sb = job[v].sb]
        /\ w # v => JobMove(w)
    BY <1>1, <1>3 DEF End
  <2> QED BY <2>1 DEF IdleJob
<1>4. CASE JobMark(v)
  <2>1. To(v, "lookup")
    BY <1>4 DEF JobMark
  <2> QED BY <1>2, <1>4, <2>1 DEF JobMove, JobGoesOn
<1>5. CASE JobLookup(v)
  <2>1. To(v, IF job[v].snap.node \in registered THEN "call" ELSE "release")
    BY <1>5 DEF JobLookup
  <2> QED BY <1>2, <1>5, <2>1 DEF JobMove, JobGoesOn
<1>6. CASE JobCall(v)
  <2>1. \/ CallDeletes(job[v].snap.node, job[v].sb) /\ To(v, "release")
        \/ To(v, "failed")
    BY <1>6 DEF JobCall
  <2> QED BY <1>2, <1>6, <2>1 DEF JobMove, JobGoesOn
<1>7. CASE JobFailed(v)
  <2>1. End(v, "done")
    BY <1>7 DEF JobFailed
  <2> QED BY <1>3, <2>1 DEF JobMove
<1>8. CASE JobRelease(v)
  <2>1. To(v, "remove")
    BY <1>8 DEF JobRelease
  <2> QED BY <1>2, <1>8, <2>1 DEF JobMove, JobGoesOn
<1>9. CASE JobRemove(v)
  <2>1. End(v, "acked") \/ To(v, "account")
    BY <1>9 DEF JobRemove
  <2>2. CASE End(v, "acked")
    BY <1>3, <1>9, <2>2 DEF JobMove, JobGoesOn
  <2>3. CASE To(v, "account")
    BY <1>2, <1>9, <2>3 DEF JobMove, JobGoesOn
  <2> QED BY <2>1, <2>2, <2>3
<1>10. CASE JobAccount(v)
  <2>1. End(v, "acked")
    BY <1>10 DEF JobAccount
  <2> QED BY <1>3, <1>10, <2>1 DEF JobMove, JobGoesOn
<1> QED BY <1>4, <1>5, <1>6, <1>7, <1>8, <1>9, <1>10 DEF FinalizeStep

LEMMA JobMoves ==
  ASSUME TypeOK, [Next]_vars, NEW w \in Worker
  PROVE  JobMove(w)
<1>0. job \in [Worker -> Job]
  BY DEF TypeOK
<1>1. CASE UNCHANGED job
  BY <1>1 DEF JobMove
<1>2. CASE Restart
  <2>1. (job'[w].sb = NoSandbox /\ job'[w].pc \in {"idle", "done"}) \/ job'[w] = job[w]
    BY <1>2 DEF Restart, IdleJob
  <2> QED BY <2>1 DEF JobMove
<1>3. ASSUME NEW v \in Worker, FinalizeStep(v) PROVE JobMove(w)
  BY <1>3, FinalizeMoves
<1>4. ASSUME NEW t \in Sandbox, ReconcileVisit(t) PROVE JobMove(w)
  <2> DEFINE x == [pc   |-> IF todo[t].phase = "Deleting" THEN "lookup" ELSE "mark",
                   sb   |-> t, snap |-> Deleting(todo[t])]
  <2>1. job' = [job EXCEPT ![Loop] = x] /\ todo[t] # NoRow
    BY <1>4 DEF ReconcileVisit, JobBecomes
  <2>2. x.sb = t /\ x.snap = Deleting(todo[t]) /\ x.pc \in {"mark", "lookup"}
    OBVIOUS
  <2> HIDE DEF x
  <2>3. w # Loop => job'[w] = job[w]
    BY <1>0, <2>1
  <2>4. w = Loop => job'[w] = x
    BY <1>0, <2>1 DEF Worker
  <2>5. w = Loop => JobTakes(w, t)
    BY <1>4, <2>1, <2>2, <2>4 DEF JobTakes
  <2> QED BY <2>3, <2>5 DEF JobMove
<1>5. ASSUME NEW v \in Deleter, NEW t \in Sandbox, DeleteRead(v, t) PROVE JobMove(w)
  <2>0. job[v] \in Job
    BY <1>0 DEF Worker
  <2>1. CASE row[t].phase \in {"Absent", "Deleting"}
    <3>1. job' = [job EXCEPT ![v] = [job[v] EXCEPT !.pc = "done"]]
      BY <1>5, <2>1 DEF DeleteRead, To, JobBecomes
    <3>2. job'[w] = job[w] \/ job'[w] = [job[w] EXCEPT !.pc = "done"]
      BY <1>0, <3>1
    <3> QED BY <1>0, <3>2 DEF JobMove, Job
  <2>2. CASE row[t].phase \notin {"Absent", "Deleting"}
    <3> DEFINE x == [pc |-> "mark", sb |-> t, snap |-> Deleting(row[t])]
    <3>1. job' = [job EXCEPT ![v] = x] /\ row[t].phase \in DeleteFrom \ {"Absent", "Deleting"}
      BY <1>5, <2>2 DEF DeleteRead, JobBecomes
    <3>2. x.sb = t /\ x.snap = Deleting(row[t]) /\ x.pc = "mark"
      OBVIOUS
    <3> HIDE DEF x
    <3>3. w # v => job'[w] = job[w]
      BY <1>0, <3>1
    <3>4. w = v => job'[w] = x
      BY <1>0, <3>1
    <3>5. w = v => JobTakes(w, t)
      BY <1>5, <3>1, <3>2, <3>4 DEF JobTakes
    <3> QED BY <3>3, <3>5 DEF JobMove
  <2> QED BY <2>1, <2>2
<1>6. ASSUME NEW v \in Deleter, ClientGone(v) PROVE JobMove(w)
  <2>1. job' = [job EXCEPT ![v] = [IdleJob EXCEPT !.pc = "done"]]
    BY <1>6 DEF ClientGone, JobBecomes
  <2>2. [IdleJob EXCEPT !.pc = "done"].sb = NoSandbox /\ [IdleJob EXCEPT !.pc = "done"].pc = "done"
    BY DEF IdleJob
  <2>3. job'[w] = job[w] \/ job'[w] = [IdleJob EXCEPT !.pc = "done"]
    BY <1>0, <2>1
  <2> QED BY <2>2, <2>3 DEF JobMove
<1> QED BY <1>1, <1>2, <1>3, <1>4, <1>5, <1>6, WhoSteps DEF JobStep

LEMMA TodoMoves ==
  ASSUME TypeOK, [Next]_vars, NEW s \in Sandbox
  PROVE  \/ todo'[s] \in {todo[s], NoRow}
         \/ /\ ReconcileTick /\ todo'[s] = row[s]
            /\ row[s].phase = "Deleting" \/ (row[s].phase # "Absent" /\ s \in expired)
<1>1. CASE ReconcileTick
  BY <1>1 DEF ReconcileTick, Exists
<1>2. CASE (\E t \in Sandbox : ReconcileVisit(t)) \/ Restart
  BY <1>2 DEF ReconcileVisit, Restart, TypeOK
<1> QED BY <1>1, <1>2, WhoSteps

LEMMA NotFreshAgain ==
  ASSUME CopiesOK, [Next]_vars, NEW s \in Sandbox, ~ CreateSandbox(s), ~ Fresh(s)
  PROVE  ~ Fresh(s)'
<1>1. row'[s].phase # "Pending"
  BY NotPendingAgain DEF Fresh
<1>2. CASE UNCHANGED sched
  BY <1>1, <1>2 DEF Fresh
<1>3. CASE SchedulerLeaves
  BY <1>1, <1>3 DEF Fresh, SchedulerLeaves
<1>4. CASE SchedulerGoesOn
  BY <1>1, <1>4 DEF Fresh, SchedulerGoesOn
<1>5. CASE SchedulerLists
  BY <1>1, <1>5 DEF Fresh, SchedulerLists
<1>6. ASSUME NEW t \in Sandbox, SchedulerTakes(t) PROVE ~ Fresh(s)'
  BY <1>1, <1>6 DEF Fresh, SchedulerTakes
<1> QED BY <1>2, <1>3, <1>4, <1>5, <1>6, SchedulerMoves DEF CopiesOK

LEMMA OnceKept ==
  ASSUME CopiesOK, [Next]_vars, "create" \notin Routes, NEW s \in Sandbox, OnceCreated(s),
         CreateSandbox(s) => Nowhere(s) /\ ~ Placing(s)
  PROVE  OnceCreated(s)'
<1>0. TypeOK
  BY DEF CopiesOK
<1>1. ASSUME NEW n \in Node, Arrives(n, s) PROVE OnceCreated(s)'
  <2>1. /\ sched.sb = s /\ sched.pc = "call" /\ row' = row
        /\ sched'.pc \in {"created", "refused"} /\ sched'.sb = s /\ sched'.queue = sched.queue
    <3>1. sched \in Sched
      BY <1>0 DEF TypeOK, SchedOK
    <3> QED BY <1>1, <3>1 DEF Arrives, SchedCall, Sched
  <2>2. Nowhere(s) /\ s \notin sched.queue /\ row[s].phase # "Pending"
    BY <2>1 DEF OnceCreated, Fresh, Placing
  <2>3. ~ Fresh(s)' /\ ~ Placing(s)' /\ s \notin sched'.queue
    BY <2>1, <2>2 DEF Fresh, Placing
  <2>4. OnOneNode(s)'
    BY <1>1, <2>2 DEF Arrives, Nowhere, OnOneNode
  <2> QED BY <2>3, <2>4 DEF OnceCreated
<1>2. CASE OnlyLeaves(s)
  <2>1. Nowhere(s) => Nowhere(s)'
    BY <1>2 DEF OnlyLeaves, Nowhere
  <2>2. OnOneNode(s)'
    BY <1>2 DEF OnlyLeaves, OnOneNode, OnceCreated
  <2>3. Fresh(s)' => Nowhere(s)'
    BY <2>1, NotFreshAgain DEF OnceCreated
  <2>4. sched'.sb = s => s \notin sched'.queue
    <3>0. s # NoSandbox
      BY NamesAssumption
    <3>1. CASE UNCHANGED sched \/ SchedulerGoesOn
      BY <3>1 DEF SchedulerGoesOn, OnceCreated
    <3>2. CASE SchedulerLeaves \/ SchedulerLists
      BY <3>0, <3>2 DEF SchedulerLeaves, SchedulerLists
    <3>3. ASSUME NEW t \in Sandbox, SchedulerTakes(t) PROVE sched'.sb = s => s \notin sched'.queue
      BY <3>3 DEF SchedulerTakes
    <3> QED BY <1>0, <3>1, <3>2, <3>3, SchedulerMoves
  <2>5. Placing(s)' => row'[s].phase # "Pending"
    <3>1. CASE Placing(s)
      BY <3>1, NotPendingAgain DEF OnceCreated
    <3>2. CASE ~ Placing(s) /\ Placing(s)'
      <4>1. SchedulerGoesOn
        BY <1>0, <3>2, SchedulerMoves, NamesAssumption
           DEF Placing, SchedulerLeaves, SchedulerLists, SchedulerTakes
      <4>2. sched.pc = "reserve" /\ sched'.pc = "reload" /\ sched.sb = s
        BY <3>2, <4>1 DEF SchedulerGoesOn, Placing
      <4>3. SchedReserve /\ Exists(s) /\ ~ PortConflict
        <5>1. ~ Restart
          BY <4>2 DEF Restart, IdleSched
        <5>2. SchedStep
          BY <4>2, <5>1, WhoSteps
        <5>3. SchedReserve
          BY <4>2, <5>2
             DEF SchedStep, SchedTick, SchedPick, SchedFail, SchedReload, SchedLookup, SchedCall,
                 SchedCreateFailed, SchedRelease, SchedMarkRunning, SchedAccount
        <5>4. sched \in Sched
          BY <1>0 DEF TypeOK, SchedOK
        <5> QED BY <4>2, <5>3, <5>4 DEF SchedReserve, SchedLeave, IdleSched, Sched
      <4>4. row'[s].phase = "Scheduled"
        BY <1>0, <4>2, <4>3 DEF SchedReserve, UpdateSandboxStatus, Exists, TypeOK
      <4> QED BY <4>4
    <3> QED BY <3>1, <3>2
  <2> QED BY <2>2, <2>3, <2>4, <2>5 DEF OnceCreated
<1> QED BY <1>0, <1>1, <1>2, WhoArrives

\* Nothing is known of an id before its first creation.
Unheard(s) ==
  /\ row[s] = NoRow /\ todo[s] = NoRow /\ Nowhere(s)
  /\ sched.sb # s /\ s \notin sched.queue
  /\ \A w \in Worker : job[w].sb # s
  /\ \A n \in Node : sync[n].sb # s /\ s \notin sync[n].batch /\ sync[n].seen[s] = "absent"

LEMMA UnheardStays ==
  ASSUME CopiesOK, [Next]_vars, "create" \notin Routes, NEW s \in Sandbox, Unheard(s),
         ~ CreateSandbox(s)
  PROVE  Unheard(s)'
<1>0. TypeOK /\ s # NoSandbox
  BY NamesAssumption DEF CopiesOK
<1>1. row'[s] = NoRow
  <2>1. ~ SchedWrites(s) /\ (\A w \in Worker : ~ JobWrites(w, s))
        /\ (\A n \in Node : ~ SyncWrites(n, s))
    BY DEF Unheard, SchedWrites, JobWrites, SyncWrites
  <2>2. \A q \in Remover : RemovalWrites(q, s) => row'[s] = NoRow
    BY DEF Unheard, NoRow, RemovalWrites
  <2> QED BY <1>0, <2>1, <2>2, WhoWrites DEF RowWritten, Unheard
<1>2. todo'[s] = NoRow
  BY <1>0, TodoMoves DEF Unheard
<1>3. Nowhere(s)'
  BY <1>0, WhoArrives DEF Unheard, Arrives, OnlyLeaves, Nowhere
<1>4. sched'.sb # s /\ s \notin sched'.queue
  <2>1. CASE UNCHANGED sched \/ SchedulerGoesOn
    BY <2>1 DEF SchedulerGoesOn, Unheard
  <2>2. CASE SchedulerLeaves \/ SchedulerLists
    BY <1>0, <2>2 DEF SchedulerLeaves, SchedulerLists, Unheard, NoRow
  <2>3. ASSUME NEW t \in Sandbox, SchedulerTakes(t) PROVE sched'.sb # s /\ s \notin sched'.queue
    BY <2>3 DEF SchedulerTakes, Unheard
  <2> QED BY <1>0, <2>1, <2>2, <2>3, SchedulerMoves
<1>5. ASSUME NEW w \in Worker PROVE job'[w].sb # s
  <2>1. ~ JobTakes(w, s)
    BY DEF JobTakes, Unheard, NoRow
  <2>2. \A t \in Sandbox : JobTakes(w, t) => job'[w].sb = t
    BY DEF JobTakes
  <2>3. JobGoesOn(w) => job'[w].sb = job[w].sb
    BY DEF JobGoesOn
  <2> QED BY <1>0, <2>1, <2>2, <2>3, JobMoves DEF JobMove, Unheard
<1>6. ASSUME NEW n \in Node
      PROVE  sync'[n].sb # s /\ s \notin sync'[n].batch /\ sync'[n].seen[s] = "absent"
  <2>1. SyncMove(n)
    BY <1>0, SyncMoves
  <2>2. ~ SyncTakes(n, s) /\ ~ SyncSees(n, s) /\ s \notin BatchOf(n)
    BY DEF SyncTakes, SyncSees, BatchOf, Unheard, NoRow
  <2>3. \A t \in Sandbox : SyncTakes(n, t) => sync'[n].sb = t
    BY DEF SyncTakes
  <2>4. sync'[n].sb # s
    BY <1>0, <2>1, <2>2, <2>3 DEF SyncMove, Unheard
  <2>5. s \notin sync'[n].batch
    BY <2>1, <2>2 DEF SyncMove, Unheard
  <2>6. sync'[n].seen[s] = "absent"
    BY <2>1, <2>2 DEF SyncMove, Unheard
  <2> QED BY <2>4, <2>5, <2>6
<1> QED BY <1>1, <1>2, <1>3, <1>4, <1>5, <1>6 DEF Unheard

OnceInv ==
  /\ CopiesOK
  /\ \A s \in Sandbox : OnceCreated(s) /\ (creates[s] = 0 => Unheard(s))

LEMMA UnheardIsOnce ==
  ASSUME NEW s, Unheard(s)
  PROVE  OnceCreated(s) /\ ~ Placing(s)
BY DEF Unheard, OnceCreated, Fresh, Placing, Nowhere, OnOneNode, NoRow

LEMMA CreationsCount ==
  ASSUME TypeOK, [Next]_vars, NEW s \in Sandbox
  PROVE  IF CreateSandbox(s) THEN creates'[s] = creates[s] + 1 /\ creates[s] < MaxCreates
                             ELSE creates'[s] = creates[s]
<1>1. \A t \in Sandbox : CreateSandbox(t) =>
        creates' = [creates EXCEPT ![t] = @ + 1] /\ creates[t] < MaxCreates
  BY DEF CreateSandbox
<1>2. creates \in [Sandbox -> Nat]
  BY DEF TypeOK
<1>3. CASE CreateSandbox(s)
  BY <1>1, <1>2, <1>3
<1>4. CASE ~ CreateSandbox(s)
  BY <1>1, <1>2, <1>4, WhoSteps
<1> QED BY <1>3, <1>4

LEMMA UnheardFirst ==
  ASSUME CopiesOK, [Next]_vars, "create" \notin Routes, NEW s \in Sandbox,
         creates[s] = 0 => Unheard(s), creates'[s] = 0
  PROVE  Unheard(s)'
<1>1. creates[s] \in Nat
  BY DEF CopiesOK, TypeOK
<1>2. ~ CreateSandbox(s) /\ creates[s] = 0
  BY <1>1, CreationsCount DEF CopiesOK
<1> QED BY <1>2, UnheardStays

LEMMA NextOnce ==
  ASSUME MaxCreates <= 1, "create" \notin Routes, OnceInv, [Next]_vars
  PROVE  OnceInv'
<1>1. CopiesOK /\ TypeOK
  BY DEF OnceInv, CopiesOK
<1>2. ASSUME NEW s \in Sandbox PROVE OnceCreated(s)' /\ (creates'[s] = 0 => Unheard(s)')
  <2>1. creates[s] \in Nat /\ MaxCreates \in Nat
    BY <1>1, SizeAssumption DEF TypeOK
  <2>2. CreateSandbox(s) => Unheard(s)
    BY <1>1, <2>1, CreationsCount DEF OnceInv
  <2>3. CreateSandbox(s) => Nowhere(s) /\ ~ Placing(s)
    BY <2>2, UnheardIsOnce DEF Unheard
  <2> QED BY <1>1, <2>3, OnceKept, UnheardFirst DEF OnceInv
<1> QED BY <1>1, <1>2, NextCopies DEF OnceInv

\* An id that is used once is never on two nodes, whatever is lost, times out or restarts,
\* and whoever deletes it or removes its node meanwhile: a sandbox is Pending once, it is
\* listed as such once, and the node is called once for each time it is listed
\* (sandbox_ops.go, runSchedulerOnce and scheduleOne).
THEOREM UsedOnceIsOnOneNode ==
  ASSUME MaxCreates <= 1, "create" \notin Routes
  PROVE  Spec => []AtMostOneNode
<1>1. Init => OnceInv
  <2> SUFFICES ASSUME Init PROVE OnceInv
    OBVIOUS
  <2>1. CopiesOK
    BY InitType DEF Init, CopiesOK, SwapsAreMild, SwapsMatch, Prepared, IdleSync, JobsDelete,
                    IdleJob
  <2>2. ASSUME NEW s \in Sandbox PROVE Unheard(s)
    BY NamesAssumption
       DEF Init, Unheard, Nowhere, NotThere, IdleSched, IdleJob, IdleSync
  <2> QED BY <2>1, <2>2, UnheardIsOnce DEF OnceInv
<1>2. OnceInv => AtMostOneNode
  BY DEF OnceInv, CopiesOK, TypeOK, OnceCreated, OnOneNode, AtMostOneNode
<1> QED BY <1>1, NextOnce, <1>2, PTL DEF Spec

-----------------------------------------------------------------------------
(* When nothing is deleted before it was placed.                           *)

\* Clients ask to delete what is Running or Failed, and neither a TTL nor the removal of a
\* node, nor a request to a node directly, interferes.
Orderly ==
  /\ Remover = {} /\ TTLSandbox = {} /\ "create" \notin Routes
  /\ DeleteFrom \subseteq {"Running", "Failed"}

\* Until its creation was attempted, only the scheduler works for a sandbox.
FreshIsAlone(s) ==
  Fresh(s) =>
    /\ row[s].phase \in {"Pending", "Scheduled"} /\ todo[s] = NoRow
    /\ \A w \in Worker : job[w].sb # s
    /\ \A n \in Node : sync[n].sb # s /\ sync[n].seen[s] = "absent"

ListedIsPlaced(s) == \A n \in Node : s \in sync[n].batch => row[s].phase # "Pending"

SchedulerKnows(s) ==
  sched.sb = s =>
    /\ sched.pc \notin {"fail", "reserve"} => row[s].phase # "Pending"
    /\ sched.pc \in {"reload", "lookup", "call"} => row[s].phase = "Scheduled"
    /\ sched.pc \in {"lookup", "call"} => sched.fresh = row[s]
    /\ sched.pc = "call" => sched.fresh.node \in registered

\* Whoever works for the sandbox knows the node it is on.
KnownAt(s, n) ==
  /\ n \in registered
  /\ row[s].phase # "Absent" /\ row[s].node = n
  /\ todo[s] # NoRow => todo[s].node = n
  /\ sched.sb = s /\ sched.pc \in {"refused", "created"} => sched.fresh.node = n
  /\ \A w \in Worker :
       job[w].sb = s /\ job[w].pc \in {"mark", "lookup", "call", "failed"} => job[w].snap.node = n

NodeIsKnown(s) == \A n \in Node : live[n][s].phase # "absent" => KnownAt(s, n)

\* Who has asked the node to delete it has seen it gone.
GoneIsGone(s) ==
  \A w \in Worker :
    job[w].sb = s /\ job[w].pc \in {"release", "remove", "account", "acked"} => Nowhere(s)

UsedOnce(s) ==
  /\ OnceCreated(s) /\ FreshIsAlone(s) /\ ListedIsPlaced(s) /\ SchedulerKnows(s)
  /\ NodeIsKnown(s) /\ GoneIsGone(s)

\* A job that is at work, or has answered 200, has a sandbox.
JobsHaveOne == \A w \in Worker : job[w].pc \notin {"new", "idle", "done"} => job[w].sb \in Sandbox

GoneInv ==
  /\ CopiesOK /\ JobsHaveOne /\ expired = {}
  /\ \A s \in Sandbox : /\ creates[s] = 0 => Unheard(s)
                        /\ creates[s] = 1 => UsedOnce(s)

LEMMA OrderlySteps ==
  ASSUME Orderly, TypeOK, [Next]_vars
  PROVE  registered \subseteq registered' /\ (expired = {} => expired' = {})
<1>1. CASE UNCHANGED <<registered, expired>>
  BY <1>1
<1>2. CASE SchedStep
  BY <1>1, <1>2
     DEF SchedStep, SchedTick, SchedPick, SchedFail, SchedReserve, SchedReload, SchedLookup,
         SchedCall, SchedCreateFailed, SchedRelease, SchedMarkRunning, SchedAccount, schedOthers,
         dbVars, envVars
<1>3. ASSUME NEW w \in Worker, FinalizeStep(w)
      PROVE  UNCHANGED <<registered, expired>>
  BY <1>3
     DEF FinalizeStep, JobMark, JobLookup, JobCall, JobFailed, JobRelease, JobRemove, JobAccount,
         jobOthers
<1>4. CASE ReconcileTick \/ \E t \in Sandbox : ReconcileVisit(t)
  BY <1>1, <1>4 DEF ReconcileTick, ReconcileVisit, jobOthers
<1>5. CASE SyncTick \/ (\E n \in Node : SyncStep(n)) \/ (\E t \in Sandbox : RefreshIP(t))
           \/ (\E n \in Node : ResourceRead(n) \/ ResourceStore(n))
  BY <1>1, <1>5
     DEF SyncTick, SyncStep, SyncLookup, SyncAsk, SyncRead, SyncSwap, SyncTimeout, SyncDone,
         syncOthers, RefreshIP, ResourceRead, ResourceStore, dbVars, envVars
<1>6. CASE \E s \in Sandbox : CreateSandbox(s) \/ Expire(s)
  BY <1>6 DEF CreateSandbox, Expire, dbVars, Orderly
<1>7. CASE Environment /\ ~ (\E s \in Sandbox : CreateSandbox(s) \/ Expire(s))
  BY <1>1, <1>7
     DEF Environment, DeleteRead, ClientGone, RegisterNode, Heartbeat, SbxletReady,
         SbxletRecovers, SbxletBreaks, SbxletRemoves, NodeCreateSandbox, NodeDeleteSandbox,
         Restart, dbVars, envVars, jobOthers, Orderly
<1>8. CASE UNCHANGED vars
  BY <1>1, <1>8 DEF vars, dbVars, envVars
<1>9. \A q \in Remover : FALSE
  BY DEF Orderly
<1> QED
  BY <1>1, <1>2, <1>3, <1>4, <1>5, <1>6, <1>7, <1>8, <1>9
     DEF Next, Orchestrator, ReconcileStep, Worker

\* A sandbox that is placed nowhere, and that the scheduler is done with, stays away.
LEMMA NowhereStays ==
  ASSUME CopiesOK, [Next]_vars, "create" \notin Routes, NEW s \in Sandbox, Nowhere(s), ~ Fresh(s)
  PROVE  Nowhere(s)'
<1>1. \A n \in Node : ~ Arrives(n, s)
  BY DEF Arrives, SchedCall, Fresh
<1>2. OnlyLeaves(s)
  BY <1>1, WhoArrives DEF CopiesOK
<1> QED BY <1>2 DEF OnlyLeaves, Nowhere

LEMMA FreshStaysAlone ==
  ASSUME Orderly, CopiesOK, expired = {}, [Next]_vars, NEW s \in Sandbox, ~ CreateSandbox(s),
         UsedOnce(s)
  PROVE  FreshIsAlone(s)'
<1> SUFFICES ASSUME Fresh(s)' PROVE FreshIsAlone(s)'
  BY DEF FreshIsAlone
<1>0. TypeOK /\ s # NoSandbox
  BY NamesAssumption DEF CopiesOK
<1>1. Fresh(s) /\ Nowhere(s)
  BY NotFreshAgain DEF UsedOnce, OnceCreated
<1>2. /\ row[s].phase \in {"Pending", "Scheduled"} /\ todo[s] = NoRow
      /\ \A w \in Worker : job[w].sb # s
      /\ \A n \in Node : sync[n].sb # s /\ sync[n].seen[s] = "absent"
  BY <1>1 DEF UsedOnce, FreshIsAlone
<1>3. row'[s].phase \in {"Pending", "Scheduled"}
  <2>1. CASE SchedWrites(s)
    <3>1. sched.sb = s /\ s \notin sched.queue
      BY <2>1 DEF SchedWrites, UsedOnce, OnceCreated
    <3>2. CASE SchedReserve
      BY <1>0, <2>1, <3>2, WhatSchedWrites
    <3>3. CASE ~ SchedReserve
      <4>1. row'[s].phase # "Pending"
        BY <1>0, <2>1, <3>3, WhatSchedWrites
      <4>2. ~ Fresh(s)'
        <5>1. CASE SchedFail
          <6>1. sched'.sb = NoSandbox /\ sched'.queue = sched.queue
            BY <5>1 DEF SchedFail, SchedLeave, IdleSched
          <6> QED BY <1>0, <3>1, <4>1, <6>1 DEF Fresh
        <5>2. CASE SchedCreateFailed \/ SchedMarkRunning
          <6>1. sched \in Sched
            BY <1>0 DEF TypeOK, SchedOK
          <6>2. sched'.pc \in {"release", "account"} /\ sched'.queue = sched.queue
            BY <5>2, <6>1 DEF SchedCreateFailed, SchedMarkRunning, Sched
          <6> QED BY <3>1, <4>1, <6>2 DEF Fresh
        <5> QED BY <2>1, <3>3, <5>1, <5>2 DEF SchedWrites
      <4> QED BY <4>2
    <3> QED BY <3>2, <3>3
  <2>2. (\A w \in Worker : ~ JobWrites(w, s)) /\ (\A n \in Node : ~ SyncWrites(n, s))
        /\ (\A q \in Remover : ~ RemovalWrites(q, s))
    BY <1>2 DEF JobWrites, SyncWrites, Orderly
  <2> QED BY <1>0, <1>2, <2>1, <2>2, WhoWrites DEF RowWritten
<1>4. todo'[s] = NoRow
  BY <1>0, <1>2, TodoMoves
<1>5. ASSUME NEW w \in Worker PROVE job'[w].sb # s
  <2>1. ~ JobTakes(w, s)
    BY <1>2 DEF JobTakes, Orderly
  <2>2. \A t \in Sandbox : JobTakes(w, t) => job'[w].sb = t
    BY DEF JobTakes
  <2>3. JobGoesOn(w) => job'[w].sb = job[w].sb
    BY DEF JobGoesOn
  <2> QED BY <1>0, <1>2, <2>1, <2>2, <2>3, JobMoves DEF JobMove
<1>6. ASSUME NEW n \in Node PROVE sync'[n].sb # s /\ sync'[n].seen[s] = "absent"
  <2>1. SyncMove(n)
    BY <1>0, SyncMoves
  <2>2. ~ SyncTakes(n, s)
    BY <1>2 DEF SyncTakes, SyncSkips, UsedOnce, ListedIsPlaced
  <2>3. ~ SyncSees(n, s)
    BY <1>1 DEF SyncSees, Nowhere
  <2>4. \A t \in Sandbox : SyncTakes(n, t) => sync'[n].sb = t
    BY DEF SyncTakes
  <2>5. sync'[n].sb # s
    BY <1>0, <1>2, <2>1, <2>2, <2>4 DEF SyncMove
  <2>6. sync'[n].seen[s] = "absent"
    BY <1>2, <2>1, <2>3 DEF SyncMove
  <2> QED BY <2>5, <2>6
<1> QED BY <1>3, <1>4, <1>5, <1>6 DEF FreshIsAlone

LEMMA ListedStaysPlaced ==
  ASSUME CopiesOK, [Next]_vars, NEW s \in Sandbox, ~ CreateSandbox(s), ListedIsPlaced(s)
  PROVE  ListedIsPlaced(s)'
<1> SUFFICES ASSUME NEW n \in Node, s \in sync'[n].batch PROVE row'[s].phase # "Pending"
  BY DEF ListedIsPlaced
<1>1. SyncMove(n)
  BY SyncMoves DEF CopiesOK
<1>2. s \in sync[n].batch \/ s \in BatchOf(n)
  BY <1>1 DEF SyncMove
<1>3. row[s].phase # "Pending"
  BY <1>2 DEF BatchOf, ListedIsPlaced
<1> QED BY <1>3, NotPendingAgain

LEMMA SchedulerStillKnows ==
  ASSUME Orderly, CopiesOK, [Next]_vars, NEW s \in Sandbox, ~ CreateSandbox(s), UsedOnce(s)
  PROVE  SchedulerKnows(s)'
<1> SUFFICES ASSUME sched'.sb = s PROVE SchedulerKnows(s)'
  BY DEF SchedulerKnows
<1>0. TypeOK /\ s # NoSandbox
  BY NamesAssumption DEF CopiesOK
<1>1. registered \subseteq registered'
  BY <1>0, OrderlySteps
<1>2. sched.sb = s /\ sched.pc \in {"reload", "lookup", "call"} => row'[s] = row[s]
  <2> SUFFICES ASSUME sched.sb = s, sched.pc \in {"reload", "lookup", "call"}
               PROVE  row'[s] = row[s]
    OBVIOUS
  <2>1. Fresh(s)
    BY DEF Fresh
  <2>2. ~ SchedWrites(s)
    BY DEF SchedWrites, SchedFail, SchedReserve, SchedCreateFailed, SchedMarkRunning
  <2>3. (\A w \in Worker : ~ JobWrites(w, s)) /\ (\A n \in Node : ~ SyncWrites(n, s))
        /\ (\A q \in Remover : ~ RemovalWrites(q, s))
    BY <2>1 DEF JobWrites, SyncWrites, Orderly, UsedOnce, FreshIsAlone
  <2> QED BY <1>0, <2>2, <2>3, WhoWrites DEF RowWritten
<1>3. CASE UNCHANGED sched
  <2>1. sched.pc \notin {"fail", "reserve"} => row'[s].phase # "Pending"
    BY <1>3, NotPendingAgain DEF UsedOnce, SchedulerKnows
  <2> QED BY <1>1, <1>2, <1>3, <2>1 DEF UsedOnce, SchedulerKnows
<1>4. CASE SchedulerLeaves \/ SchedulerLists
  BY <1>0, <1>4 DEF SchedulerLeaves, SchedulerLists
<1>5. ASSUME NEW t \in Sandbox, SchedulerTakes(t) PROVE SchedulerKnows(s)'
  BY <1>5 DEF SchedulerTakes, SchedulerKnows
<1>6. CASE SchedulerGoesOn
  <2>0. sched.sb = s /\ sched \in Sched /\ sched.pc \in SchedPcs
    BY <1>0, <1>6 DEF SchedulerGoesOn, TypeOK, SchedOK, Sched
  <2>1. CASE UNCHANGED sched
    BY <1>3, <2>1
  <2>2. CASE SchedStep
    <3>1. CASE SchedReserve
      <4>1. CASE sched'.pc = "reload"
        <5>1. Exists(s) /\ ~ PortConflict
          BY <2>0, <3>1, <4>1 DEF SchedReserve, SchedLeave, IdleSched, Sched
        <5>2. row'[s].phase = "Scheduled"
          BY <1>0, <2>0, <3>1, <5>1 DEF SchedReserve, UpdateSandboxStatus, Exists, TypeOK
        <5> QED BY <4>1, <5>2 DEF SchedulerKnows
      <4>2. CASE sched'.pc = "fail"
        BY <4>2 DEF SchedulerKnows
      <4>3. sched.pc = "reserve"
        BY <3>1 DEF SchedReserve
      <4> QED BY <1>6, <4>1, <4>2, <4>3 DEF SchedulerGoesOn
    <3>2. CASE SchedReload
      <4>1. sched.pc = "reload" /\ sched'.pc = "lookup"
        BY <1>6, <3>2 DEF SchedReload, SchedulerGoesOn
      <4>2. sched'.fresh = row[s]
        <5>1. Exists(s)
          BY <1>0, <2>0, <3>2, <4>1 DEF SchedReload, SchedLeave, IdleSched
        <5> QED BY <2>0, <3>2, <5>1 DEF SchedReload, Sched
      <4> QED BY <1>2, <2>0, <4>1, <4>2 DEF UsedOnce, SchedulerKnows
    <3>3. CASE SchedLookup
      <4>1. sched.pc = "lookup" /\ sched'.pc \in {"call", "refused"}
        BY <1>6, <3>3 DEF SchedLookup, SchedulerGoesOn
      <4>2. sched'.fresh = sched.fresh /\ (sched'.pc = "call" => sched.fresh.node \in registered)
        BY <2>0, <3>3 DEF SchedLookup, Sched
      <4> QED BY <1>1, <1>2, <2>0, <4>1, <4>2 DEF UsedOnce, SchedulerKnows
    <3>4. CASE SchedCall
      <4>1. sched.pc = "call" /\ sched'.pc \in {"created", "refused"}
        BY <1>6, <3>4 DEF SchedCall, SchedulerGoesOn
      <4> QED BY <1>2, <2>0, <4>1 DEF UsedOnce, SchedulerKnows
    <3>5. CASE SchedCreateFailed \/ SchedMarkRunning
      <4>1. sched.pc \in {"refused", "created"} /\ sched'.pc \in {"release", "account"}
        BY <1>6, <3>5 DEF SchedCreateFailed, SchedMarkRunning, SchedulerGoesOn
      <4>2. row'[s].phase # "Pending"
        BY <2>0, <4>1, NotPendingAgain DEF UsedOnce, SchedulerKnows
      <4> QED BY <4>1, <4>2 DEF SchedulerKnows
    <3>6. CASE SchedTick \/ (\E t \in Sandbox : SchedPick(t)) \/ SchedFail \/ SchedRelease \/ SchedAccount
      <4>1. sched.pc \in {"idle", "pick", "fail", "release", "account"}
        BY <3>6 DEF SchedTick, SchedPick, SchedFail, SchedRelease, SchedAccount
      <4> QED BY <1>6, <4>1 DEF SchedulerGoesOn
    <3> QED BY <2>2, <3>1, <3>2, <3>3, <3>4, <3>5, <3>6 DEF SchedStep
  <2>3. CASE Restart
    BY <1>0, <2>3 DEF Restart, IdleSched
  <2> QED BY <2>1, <2>2, <2>3, WhoSteps
<1> QED BY <1>0, <1>3, <1>4, <1>5, <1>6, SchedulerMoves

LEMMA DeletingNode ==
  ASSUME NEW r \in Row
  PROVE  Deleting(r).node = r.node /\ Deleting(r).phase = "Deleting"
BY DEF Deleting, Row

LEMMA ArrivalIsKnown ==
  ASSUME Orderly, CopiesOK, expired = {}, [Next]_vars, NEW s \in Sandbox, ~ CreateSandbox(s),
         UsedOnce(s), NEW n \in Node, Arrives(n, s)
  PROVE  NodeIsKnown(s)'
<1>0. TypeOK /\ sched \in Sched
  BY DEF CopiesOK, TypeOK, SchedOK
<1>1. sched.sb = s /\ sched.pc = "call" /\ UNCHANGED <<row, job, todo, registered>>
  BY DEF Arrives, SchedCall, schedOthers
<1>2. sched'.fresh = sched.fresh
  BY <1>0 DEF Arrives, SchedCall, Sched
<1>3. Fresh(s)
  BY <1>1 DEF Fresh
<1>4. Nowhere(s) /\ todo[s] = NoRow /\ \A w \in Worker : job[w].sb # s
  BY <1>3 DEF UsedOnce, OnceCreated, FreshIsAlone
<1>5. row[s].phase = "Scheduled" /\ row[s].node = n /\ sched.fresh.node = n /\ n \in registered
  BY <1>1 DEF UsedOnce, SchedulerKnows, Arrives
<1>6. KnownAt(s, n)'
  BY <1>1, <1>2, <1>4, <1>5 DEF KnownAt
<1>7. \A m \in Node \ {n} : live'[m][s].phase = "absent"
  BY <1>4 DEF Nowhere, Arrives
<1> QED BY <1>6, <1>7 DEF NodeIsKnown

LEMMA NodeStaysKnown ==
  ASSUME Orderly, CopiesOK, expired = {}, [Next]_vars, NEW s \in Sandbox, ~ CreateSandbox(s),
         UsedOnce(s), OnlyLeaves(s)
  PROVE  NodeIsKnown(s)'
<1> SUFFICES ASSUME NEW n \in Node, live'[n][s].phase # "absent" PROVE KnownAt(s, n)'
  BY DEF NodeIsKnown
<1>0. TypeOK /\ s # NoSandbox
  BY NamesAssumption DEF CopiesOK
<1>1. live[n][s].phase # "absent" /\ KnownAt(s, n)
  BY DEF OnlyLeaves, UsedOnce, NodeIsKnown
<1>2. ~ Nowhere(s) /\ ~ Fresh(s)
  BY <1>1 DEF Nowhere, UsedOnce, OnceCreated
<1>3. n \in registered'
  BY <1>0, <1>1, OrderlySteps DEF KnownAt
<1>4. row'[s].phase # "Absent" /\ row'[s].node = n
  <2>1. CASE SchedWrites(s)
    <3>1. ~ SchedFail /\ ~ SchedReserve
      BY <1>2, <2>1 DEF SchedFail, SchedReserve, SchedWrites, Fresh
    <3>2. sched.sb = s /\ sched.pc \in {"refused", "created"} /\ sched.fresh \in Row
      BY <1>0, <2>1, <3>1
         DEF SchedWrites, SchedCreateFailed, SchedMarkRunning, TypeOK, SchedOK, Sched
    <3>3. \A p : [sched.fresh EXCEPT !.phase = p].node = sched.fresh.node
      BY <3>2 DEF Row
    <3>4. row'[s].node = sched.fresh.node
      BY <2>1, <3>1, <3>3 DEF SchedWrites
    <3>5. row'[s].phase # "Absent"
      BY <1>0, <2>1, WhatSchedWrites
    <3> QED BY <1>1, <3>2, <3>4, <3>5 DEF KnownAt
  <2>2. ASSUME NEW w \in Worker, JobWrites(w, s) PROVE row'[s].phase # "Absent" /\ row'[s].node = n
    <3>1. ~ JobRemove(w)
      BY <1>2, <2>2 DEF JobWrites, JobRemove, UsedOnce, GoneIsGone
    <3>2. job[w].sb = s /\ job[w].pc \in {"mark", "failed"} /\ row'[s] = job[w].snap
      BY <2>2, <3>1 DEF JobWrites, JobMark, JobFailed
    <3> QED BY <1>1, <3>2 DEF KnownAt, CopiesOK, JobsDelete
  <2>3. ASSUME NEW m \in Node, SyncWrites(m, s)
        PROVE  row'[s].phase # "Absent" /\ row'[s].node = n
    BY <1>1, <2>3 DEF SyncWrites, CopiesOK, SwapsMatch, KnownAt
  <2> QED BY <1>0, <1>1, <2>1, <2>2, <2>3, WhoWrites DEF RowWritten, Orderly, KnownAt
<1>5. todo'[s] # NoRow => todo'[s].node = n
  BY <1>0, <1>1, TodoMoves DEF KnownAt
<1>6. sched'.sb = s /\ sched'.pc \in {"refused", "created"} => sched'.fresh.node = n
  <2>1. CASE UNCHANGED sched
    BY <1>1, <2>1 DEF KnownAt
  <2>2. CASE SchedulerGoesOn
    BY <1>2, <2>2 DEF SchedulerGoesOn, Fresh
  <2>3. CASE SchedulerLeaves \/ SchedulerLists \/ \E t \in Sandbox : SchedulerTakes(t)
    BY <2>3 DEF SchedulerLeaves, SchedulerLists, SchedulerTakes
  <2> QED BY <1>0, <2>1, <2>2, <2>3, SchedulerMoves
<1>7. ASSUME NEW w \in Worker, job'[w].sb = s, job'[w].pc \in {"mark", "lookup", "call", "failed"}
      PROVE  job'[w].snap.node = n
  <2>1. CASE job'[w] = job[w]
    BY <1>1, <1>7, <2>1 DEF KnownAt
  <2>2. CASE JobGoesOn(w)
    <3>1. job[w].sb = s /\ job'[w].snap = job[w].snap /\ job[w].pc \in {"mark", "lookup", "call"}
      BY <1>7, <2>2 DEF JobGoesOn, JobMark, JobLookup, JobCall
    <3> QED BY <1>1, <3>1 DEF KnownAt
  <2>3. ASSUME NEW t \in Sandbox, JobTakes(w, t) PROVE job'[w].snap.node = n
    <3>1. t = s
      BY <1>7, <2>3 DEF JobTakes
    <3>2. row[s] \in Row /\ todo[s] \in Row
      BY <1>0 DEF TypeOK
    <3> QED BY <1>1, <2>3, <3>1, <3>2, DeletingNode DEF JobTakes, KnownAt
  <2> QED BY <1>0, <1>7, <2>1, <2>2, <2>3, JobMoves DEF JobMove
<1> QED BY <1>3, <1>4, <1>5, <1>6, <1>7 DEF KnownAt

LEMMA GoneStaysGone ==
  ASSUME Orderly, CopiesOK, [Next]_vars, NEW s \in Sandbox, ~ CreateSandbox(s), UsedOnce(s)
  PROVE  GoneIsGone(s)'
<1> SUFFICES ASSUME NEW w \in Worker, job'[w].sb = s,
                    job'[w].pc \in {"release", "remove", "account", "acked"}
             PROVE  Nowhere(s)'
  BY DEF GoneIsGone
<1>0. TypeOK /\ s # NoSandbox
  BY NamesAssumption DEF CopiesOK
<1>1. job[w].sb = s /\ Nowhere(s) => Nowhere(s)'
  BY NowhereStays DEF Orderly, UsedOnce, FreshIsAlone
<1>2. CASE job'[w] = job[w]
  BY <1>1, <1>2 DEF UsedOnce, GoneIsGone
<1>3. CASE JobGoesOn(w)
  <2>0. job[w].sb = s
    BY <1>3 DEF JobGoesOn
  <2>1. CASE JobLookup(w) /\ job[w].snap.node \notin registered
    <3>1. job[w].pc = "lookup"
      BY <2>1 DEF JobLookup
    <3>2. Nowhere(s)
      BY <2>0, <2>1, <3>1 DEF UsedOnce, NodeIsKnown, KnownAt, Nowhere
    <3> QED BY <1>1, <2>0, <3>2
  <2>2. CASE JobCall(w) /\ CallDeletes(job[w].snap.node, job[w].sb)
    <3>1. job[w].pc = "call"
      BY <2>2 DEF JobCall
    <3>2. \A n \in Node : live[n][s].phase # "absent" => n = job[w].snap.node
      BY <2>0, <3>1 DEF UsedOnce, NodeIsKnown, KnownAt
    <3>3. live' = [live EXCEPT ![job[w].snap.node][s] = NotThere]
      BY <2>0, <2>2 DEF CallDeletes, Gone
    <3>4. \A n \in Node : live'[n][s].phase = "absent"
      BY <1>0, <3>2, <3>3 DEF NotThere, TypeOK
    <3> QED BY <3>4 DEF Nowhere
  <2>3. CASE JobRelease(w) \/ JobRemove(w) \/ JobAccount(w)
    <3>1. job[w].pc \in {"release", "remove", "account"}
      BY <2>3 DEF JobRelease, JobRemove, JobAccount
    <3> QED BY <1>1, <2>0, <3>1 DEF UsedOnce, GoneIsGone
  <2> QED BY <1>3, <2>1, <2>2, <2>3 DEF JobGoesOn
<1>4. ASSUME NEW t \in Sandbox, JobTakes(w, t) PROVE FALSE
  BY <1>4 DEF JobTakes
<1> QED BY <1>0, <1>2, <1>3, <1>4, JobMoves DEF JobMove

LEMMA NextUsedOnce ==
  ASSUME Orderly, CopiesOK, expired = {}, [Next]_vars, NEW s \in Sandbox, ~ CreateSandbox(s),
         UsedOnce(s)
  PROVE  UsedOnce(s)'
<1>1. OnceCreated(s)'
  BY OnceKept DEF UsedOnce, Orderly
<1>2. NodeIsKnown(s)'
  BY ArrivalIsKnown, NodeStaysKnown, WhoArrives DEF CopiesOK, Orderly
<1> QED
  BY <1>1, <1>2, FreshStaysAlone, ListedStaysPlaced, SchedulerStillKnows, GoneStaysGone
     DEF UsedOnce

LEMMA FirstCreation ==
  ASSUME CopiesOK, [Next]_vars, "create" \notin Routes, NEW s \in Sandbox, CreateSandbox(s),
         Unheard(s)
  PROVE  UsedOnce(s)'
<1>1. OnceCreated(s)'
  BY OnceKept, UnheardIsOnce DEF Unheard
<1>2. row'[s] = PendingRow /\ UNCHANGED <<live, actors>>
  BY DEF CreateSandbox, CopiesOK, TypeOK
<1>3. FreshIsAlone(s)' /\ ListedIsPlaced(s)' /\ SchedulerKnows(s)'
  BY <1>2 DEF actors, Unheard, FreshIsAlone, ListedIsPlaced, SchedulerKnows, PendingRow
<1>4. NodeIsKnown(s)' /\ GoneIsGone(s)'
  BY <1>2 DEF actors, Unheard, NodeIsKnown, GoneIsGone, Nowhere
<1> QED BY <1>1, <1>3, <1>4 DEF UsedOnce

LEMMA JobsStillHaveOne ==
  ASSUME TypeOK, JobsHaveOne, [Next]_vars
  PROVE  JobsHaveOne'
<1> SUFFICES ASSUME NEW w \in Worker, job'[w].pc \notin {"new", "idle", "done"}
             PROVE  job'[w].sb \in Sandbox
  BY DEF JobsHaveOne
<1>1. CASE JobGoesOn(w)
  BY <1>1 DEF JobGoesOn, JobMark, JobLookup, JobCall, JobRelease, JobRemove, JobAccount, JobsHaveOne
<1>2. ASSUME NEW t \in Sandbox, JobTakes(w, t) PROVE job'[w].sb \in Sandbox
  BY <1>2 DEF JobTakes
<1> QED BY <1>1, <1>2, JobMoves DEF JobMove, JobsHaveOne

LEMMA NextGone == Orderly /\ GoneInv /\ [Next]_vars => GoneInv'
<1> SUFFICES ASSUME Orderly, GoneInv, [Next]_vars PROVE GoneInv'
  OBVIOUS
<1>1. CopiesOK /\ TypeOK /\ "create" \notin Routes
  BY DEF GoneInv, CopiesOK, Orderly
<1>2. expired = {} /\ expired' = {}
  BY <1>1, OrderlySteps DEF GoneInv
<1>3. ASSUME NEW s \in Sandbox, creates'[s] = 1 PROVE UsedOnce(s)'
  <2>1. creates[s] \in Nat
    BY <1>1 DEF TypeOK
  <2>2. CASE CreateSandbox(s)
    <3>1. creates[s] = 0
      BY <1>1, <1>3, <2>1, <2>2, CreationsCount
    <3> QED BY <1>1, <2>2, <3>1, FirstCreation DEF GoneInv
  <2>3. CASE ~ CreateSandbox(s)
    <3>1. creates[s] = 1
      BY <1>1, <1>3, <2>3, CreationsCount
    <3> QED BY <1>1, <1>2, <2>3, <3>1, NextUsedOnce DEF GoneInv
  <2> QED BY <2>2, <2>3
<1>4. ASSUME NEW s \in Sandbox, creates'[s] = 0 PROVE Unheard(s)'
  BY <1>1, <1>4, UnheardFirst DEF GoneInv
<1> QED BY <1>1, <1>2, <1>3, <1>4, NextCopies, JobsStillHaveOne DEF GoneInv

LEMMA InitGone == Init => GoneInv /\ OnceInv
<1> SUFFICES ASSUME Init PROVE GoneInv /\ OnceInv
  OBVIOUS
<1>1. CopiesOK /\ JobsHaveOne /\ expired = {}
  BY InitType DEF Init, CopiesOK, JobsHaveOne, SwapsAreMild, SwapsMatch, Prepared, IdleSync,
                  JobsDelete, IdleJob
<1>2. \A s \in Sandbox : Unheard(s) /\ creates[s] = 0
  BY NamesAssumption DEF Init, Unheard, Nowhere, NotThere, IdleSched, IdleJob, IdleSync
<1> QED BY <1>1, <1>2, UnheardIsOnce DEF GoneInv, OnceInv

\* When the deletion of a sandbox whose id was used once is answered 200, no node has the
\* sandbox any more, and none gets it later: finalizeSandboxDelete asks the node that the
\* row named, and nobody calls a node for the id again (sandbox_ops.go, DeleteSandbox,
\* scheduleOne).
THEOREM DeletedIsGone ==
  ASSUME Orderly
  PROVE  Spec => []DeletedMeansGone
<1>1. GoneInv => DeletedMeansGone
  <2> SUFFICES ASSUME GoneInv, NEW w \in Deleter, job[w].pc = "acked", creates[job[w].sb] = 1,
                      row[job[w].sb].phase = "Absent"
               PROVE  \A n \in registered : live[n][job[w].sb].phase = "absent"
    BY DEF DeletedMeansGone
  <2>1. job[w].sb \in Sandbox /\ w \in Worker /\ registered \subseteq Node
    BY DEF GoneInv, JobsHaveOne, CopiesOK, TypeOK, Worker
  <2> QED BY <2>1 DEF GoneInv, UsedOnce, GoneIsGone, Nowhere
<1> QED BY <1>1, InitGone, NextGone, PTL DEF Spec

\* Nor is an id on two nodes that was deleted and created once more, whatever calls are lost
\* and whatever restarts: the second sandbox is called for when the first one is gone, since
\* the row that keeps the id in use names the node until it was asked (sandbox_ops.go,
\* finalizeSandboxDelete, scheduleOne).
THEOREM ReusedIsOnOneNode ==
  ASSUME Orderly, MaxCreates <= 2
  PROVE  Spec => []AtMostOneNode
<1>1. GoneInv /\ OnceInv /\ [Next]_vars => GoneInv' /\ OnceInv'
  <2> SUFFICES ASSUME GoneInv, OnceInv, [Next]_vars PROVE GoneInv' /\ OnceInv'
    OBVIOUS
  <2>1. CopiesOK /\ TypeOK /\ "create" \notin Routes
    BY DEF OnceInv, CopiesOK, Orderly
  <2>2. ASSUME NEW s \in Sandbox PROVE OnceCreated(s)' /\ (creates'[s] = 0 => Unheard(s)')
    <3>1. creates[s] \in Nat /\ MaxCreates \in Nat
      BY <2>1, SizeAssumption DEF TypeOK
    <3>2. ASSUME CreateSandbox(s) PROVE Nowhere(s) /\ ~ Placing(s)
      <4>1. creates[s] = 0 \/ creates[s] = 1
        BY <2>1, <3>1, <3>2, CreationsCount
      <4>2. CASE creates[s] = 0
        BY <4>2, UnheardIsOnce DEF OnceInv, Unheard
      <4>3. CASE creates[s] = 1
        <5>1. UsedOnce(s) /\ row[s].phase = "Absent"
          BY <3>2, <4>3 DEF GoneInv, CreateSandbox, Exists
        <5> QED BY <5>1 DEF UsedOnce, NodeIsKnown, KnownAt, Nowhere, SchedulerKnows, Placing
      <4> QED BY <4>1, <4>2, <4>3
    <3> QED BY <2>1, <3>2, OnceKept, UnheardFirst DEF OnceInv
  <2> QED BY <2>1, <2>2, NextCopies, NextGone DEF OnceInv
<1>2. OnceInv => AtMostOneNode
  BY DEF OnceInv, CopiesOK, TypeOK, OnceCreated, OnOneNode, AtMostOneNode
<1> QED BY <1>1, <1>2, InitGone, PTL DEF Spec

-----------------------------------------------------------------------------
(***************************************************************************)
(* The reservations agree with the rows, as long as nothing is lost and    *)
(* every id is used once.  A sandbox is being finalized, and then whatever *)
(* is reserved for it is given back in the end; or it has left and holds   *)
(* nothing; or row, scheduler and removals agree about it.                 *)
(***************************************************************************)
NothingLost ==
  MaxFaults = 0 /\ MaxRestarts = 0 /\ MaxCreates <= 1 /\ "create" \notin Routes

Unreserved(s) == \A n \in Node, p \in HostPort : reserved[<<n, p>>] # s

\* All that is reserved for s is what the row r assigns.
Within(s, r) ==
  \A n \in Node, p \in HostPort : reserved[<<n, p>>] = s => r.node = n /\ p \in r.ports

\* All that the row r assigns is reserved for s, unless its node is being removed.
Leaving(n)  == \E q \in Remover : removal[q].node = n
Holds(s, r) == Leaving(r.node) \/ \A p \in r.ports : reserved[<<r.node, p>>] = s

Bare(r) == r.node = NoNode => r.ports = {}

Finalizing(s) ==
  \E w \in Worker : job[w].sb = s /\ job[w].pc \in {"mark", "lookup", "call", "release", "remove"}

HasLeft(s) == row[s].phase = "Absent" /\ Unreserved(s)

\* No node has s, and status sync has not heard of it.
Silent(s) ==
  /\ Nowhere(s)
  /\ \A n \in Node : /\ sync[n].seen[s] = "absent"
                     /\ Prepared(n) /\ sync[n].sb = s => sync[n].next.phase = "Failed"

\* Where the scheduler is with s.
At(s, pcs) == sched.sb = s /\ sched.pc \in pcs
Waits(s)   == s \in sched.queue \/ At(s, {"fail", "reserve"})
Copied(s)  == At(s, {"lookup", "call", "refused", "created"})

CopyAgrees(s) ==
  /\ Bare(sched.fresh) /\ Within(s, sched.fresh) /\ Holds(s, sched.fresh)
  /\ sched.fresh.node \in {NoNode, row[s].node} \/ row[s].node = NoNode

\* A Failed sandbox may have lost its ports, but no node has it either.
RowAgrees(s) ==
  /\ Bare(row[s]) /\ Within(s, row[s])
  /\ row[s].phase = "Pending" => row[s].node = NoNode /\ (sched.sb = s => Waits(s))
  /\ Waits(s) => row[s].phase = "Pending"
  /\ At(s, {"release"}) => row[s].phase = "Failed"
  /\ \/ Holds(s, row[s])
     \/ row[s].phase = "Failed" /\ Silent(s) /\ ~ Copied(s) /\ ~ At(s, {"reload"})

RemovalAgrees(q, s) ==
  /\ removal[q].list[s] # NoRow =>
       /\ row[s].phase # "Pending"
       /\ row[s].node \in {NoNode, removal[q].node}
       /\ Copied(s) => sched.fresh.node \in {NoNode, removal[q].node}
  /\ removal[q].pc \in {"call", "detach"} /\ removal[q].sb = s =>
       Unreserved(s) /\ row[s].phase # "Pending"

Agree(s) ==
  /\ row[s].phase \notin {"Absent", "Deleting"}
  /\ RowAgrees(s)
  /\ Copied(s) => CopyAgrees(s)
  /\ \A q \in Remover : RemovalAgrees(q, s)

RemovalOK(q) ==
  IF removal[q].pc = "new"
  THEN removal[q].node = NoNode /\ removal[q].list = [s \in Sandbox |-> NoRow]
  ELSE removal[q].node \in Node

Untouched(s) == \A q \in Remover : removal[q].list[s] = NoRow /\ removal[q].sb # s

Calm(s) ==
  /\ Finalizing(s) \/ HasLeft(s) \/ Agree(s)
  /\ Fresh(s) \/ At(s, {"refused", "release"}) => Silent(s)
  /\ ListedIsPlaced(s)
  /\ row[s].phase = "Pending" => \A n \in Node : sync[n].sb # s
  /\ creates[s] = 0 => Untouched(s)

CalmInv ==
  /\ OnceInv
  /\ \A w \in Worker : job[w].pc # "failed"
  /\ \A q \in Remover : RemovalOK(q)
  /\ \A s \in Sandbox : Calm(s)

LEMMA NothingIsLost ==
  ASSUME NothingLost, TypeOK
  PROVE  ~ Fault /\ ~ Restart /\ (\A w \in Worker : ~ ClientGone(w))
         /\ (\A q \in Remover : ~ RemovalGone(q))
<1>1. faults \in Nat /\ restarts \in Nat
  BY DEF TypeOK
<1>2. ~ Fault
  BY <1>1 DEF NothingLost, Fault
<1>3. ~ Restart
  BY <1>1 DEF NothingLost, Restart
<1> QED BY <1>2, <1>3 DEF ClientGone, RemovalGone

-----------------------------------------------------------------------------
(* Who reserves and releases.                                              *)

SamePorts(s) ==
  \A n \in Node, p \in HostPort : (reserved'[<<n, p>>] = s) <=> (reserved[<<n, p>>] = s)

FewerPorts(s) ==
  \A n \in Node, p \in HostPort : reserved'[<<n, p>>] = s => reserved[<<n, p>>] = s

LEMMA ReleaseOne ==
  ASSUME TypeOK, NEW t, reserved' = PortsWithout(reserved, t), NEW s \in Sandbox
  PROVE  IF t = s THEN Unreserved(s)' ELSE SamePorts(s)
<1>1. \A n \in Node, p \in HostPort :
        reserved'[<<n, p>>] = IF reserved[<<n, p>>] = t THEN NoSandbox ELSE reserved[<<n, p>>]
  BY DEF PortsWithout
<1>2. s # NoSandbox
  BY NamesAssumption
<1> QED BY <1>1, <1>2 DEF Unreserved, SamePorts

LEMMA GrantPorts ==
  ASSUME TypeOK, SchedReserve, NEW s \in Sandbox
  PROVE  \/ SamePorts(s)
         \/ /\ sched.sb = s /\ Exists(s) /\ ~ PortConflict
            /\ \A n \in Node, p \in HostPort :
                 (reserved'[<<n, p>>] = s) <=>
                   (reserved[<<n, p>>] = s \/ (n = sched.node /\ p \in sched.ports))
<1>1. CASE Exists(sched.sb) /\ ~ PortConflict
  <2>1. \A n \in Node, p \in HostPort :
          reserved'[<<n, p>>] = IF n = sched.node /\ p \in sched.ports
                                THEN sched.sb ELSE reserved[<<n, p>>]
    BY <1>1 DEF SchedReserve
  <2>2. \A n \in Node, p \in HostPort :
          n = sched.node /\ p \in sched.ports => reserved[<<n, p>>] = NoSandbox
    BY <1>1 DEF PortConflict
  <2>3. s # NoSandbox
    BY NamesAssumption
  <2>4. CASE sched.sb = s
    BY <1>1, <2>1, <2>4
  <2>5. CASE sched.sb # s
    BY <2>1, <2>2, <2>3, <2>5 DEF SamePorts
  <2> QED BY <2>4, <2>5
<1>2. CASE UNCHANGED reserved
  BY <1>2 DEF SamePorts
<1> QED BY <1>1, <1>2 DEF SchedReserve

-----------------------------------------------------------------------------
(* What the goroutines know of a sandbox that is not on any node.          *)

\* What is prepared was prepared before, or from the row and what was seen.
SyncPrepares(n, t) ==
  /\ SyncRead(n, t) /\ sync'[n].sb = t
  /\ sync'[n].next.phase = MergedPhase(row[t].phase, sync[n].seen[t])

LEMMA WhatIsPrepared ==
  ASSUME TypeOK, SwapsMatch, [Next]_vars, NEW n \in Node
  PROVE  KeepsPrepared(n) \/ \E t \in Sandbox : SyncPrepares(n, t)
<1>0. sync \in [Node -> Sync]
  BY DEF TypeOK
<1>1. CASE SchedStep
  BY <1>1, SchedulerKeeps
<1>2. ASSUME NEW w, FinalizeStep(w) PROVE KeepsPrepared(n)
  BY <1>2, FinalizeKeeps
<1>3. CASE ReconcileTick \/ \E s \in Sandbox : ReconcileVisit(s)
  BY <1>3, UnchangedKeeps DEF ReconcileTick, ReconcileVisit
<1>4. ASSUME NEW q \in Remover, RemovalStep(q) PROVE KeepsPrepared(n)
  BY <1>4, RemovalKeeps
<1>5. CASE SyncTick \/ Restart
  <2>1. IdleSync.pc # "swap" /\ \A B : [IdleSync EXCEPT !.pc = "lookup", !.batch = B].pc # "swap"
    BY DEF IdleSync
  <2>2. CASE Restart
    BY <2>1, <2>2 DEF Restart, KeepsPrepared, Prepared
  <2>3. CASE SyncTick
    <3>1. sync'[n] = IF BatchOf(n) = {} THEN IdleSync
                     ELSE [IdleSync EXCEPT !.pc = "lookup", !.batch = BatchOf(n)]
      BY <2>3 DEF SyncTick
    <3>2. sync'[n].pc # "swap"
      BY <2>1, <3>1
    <3> QED BY <3>2 DEF KeepsPrepared, Prepared
  <2> QED BY <1>5, <2>2, <2>3
<1>6. ASSUME NEW s \in Sandbox, RefreshIP(s) PROVE KeepsPrepared(n)
  <2>1. \E r : UpdateSandboxStatus(s, r) \/ UNCHANGED <<row, sync>>
    BY <1>6 DEF RefreshIP
  <2> QED BY <2>1, UpdateKeeps
<1>7. ASSUME NEW s \in Sandbox, CreateSandbox(s) PROVE KeepsPrepared(n)
  BY <1>7, CreationKeeps
<1>8. CASE \/ \E m \in Node : ResourceRead(m) \/ ResourceStore(m)
           \/ Environment /\ ~ Restart /\ ~ \E s \in Sandbox : CreateSandbox(s)
           \/ UNCHANGED vars
  <2>1. UNCHANGED <<row, sync>>
    BY <1>8
       DEF ResourceRead, ResourceStore, Environment, Expire, DeleteRead, ClientGone, RemovalGone,
           RegisterNode, Heartbeat, SbxletReady, SbxletRecovers, SbxletBreaks, SbxletRemoves,
           NodeCreateSandbox, NodeDeleteSandbox, dbVars, actors, vars
  <2> QED BY <2>1, UnchangedKeeps
<1>9. ASSUME NEW m \in Node, SyncStep(m), ~ SyncSwap(m)
      PROVE  KeepsPrepared(n) \/ \E t \in Sandbox : SyncPrepares(n, t)
  <2>0. UNCHANGED row
    BY <1>9 DEF SyncStep, SyncLookup, SyncAsk, SyncRead, SyncTimeout, SyncDone
  <2>1. ASSUME NEW x, SyncBecomes(m, x), x.pc # "swap" PROVE KeepsPrepared(n)
    BY <1>0, <2>0, <2>1 DEF SyncBecomes, KeepsPrepared, Prepared
  <2>2. CASE SyncLookup(m) \/ SyncAsk(m) \/ SyncTimeout(m) \/ SyncDone(m)
    <3>0. sync[m] \in Sync
      BY <1>0
    <3>1. IdleSync.pc # "swap" /\ [sync[m] EXCEPT !.pc = "ask"].pc # "swap"
      BY <3>0 DEF Sync, IdleSync
    <3>2. \A seen : [sync[m] EXCEPT !.pc = "merge", !.seen = seen].pc # "swap"
      BY <3>0 DEF Sync
    <3> QED BY <2>1, <2>2, <3>1, <3>2 DEF SyncLookup, SyncAsk, SyncTimeout, SyncDone
  <2>3. ASSUME NEW t \in Sandbox, SyncRead(m, t)
        PROVE  KeepsPrepared(n) \/ SyncPrepares(n, t)
    <3>0. sync[m] \in Sync /\ row[t] \in Row
      BY <1>0 DEF TypeOK
    <3>1. CASE SyncSkips(row[t], sync[m].seen[t])
      <4>1. SyncBecomes(m, [sync[m] EXCEPT !.batch = @ \ {t}])
        BY <2>3, <3>1 DEF SyncRead
      <4>2. [sync[m] EXCEPT !.batch = @ \ {t}].pc # "swap"
        BY <2>3, <3>0 DEF SyncRead, Sync
      <4> QED BY <2>1, <4>1, <4>2
    <3>2. CASE ~ SyncSkips(row[t], sync[m].seen[t])
      <4> DEFINE next == [row[t] EXCEPT !.phase = MergedPhase(@, sync[m].seen[t])]
                 x == [sync[m] EXCEPT !.pc = "swap", !.batch = @ \ {t}, !.sb = t,
                                      !.current = TRUE, !.next = next]
      <4>1. SyncBecomes(m, x)
        BY <2>3, <3>2 DEF SyncRead
      <4>2. x.sb = t /\ x.next = next
        BY <3>0 DEF Sync
      <4>3. next.phase = MergedPhase(row[t].phase, sync[m].seen[t])
        BY <3>0 DEF Row
      <4> HIDE DEF x, next
      <4>4. CASE n = m
        BY <1>0, <2>3, <4>1, <4>2, <4>3, <4>4 DEF SyncBecomes, SyncPrepares
      <4>5. CASE n # m
        BY <1>0, <2>0, <4>1, <4>5 DEF SyncBecomes, KeepsPrepared, Prepared
      <4> QED BY <4>4, <4>5
    <3> QED BY <3>1, <3>2
  <2> QED BY <1>9, <2>2, <2>3 DEF SyncStep
<1>10. ASSUME NEW m \in Node, SyncSwap(m) PROVE KeepsPrepared(n)
  <2> DEFINE old == Outdated(sync, sync[m].sb)
  <2>0. old \in [Node -> Sync]
    BY <1>0, OutdatedType
  <2>1. sync'[m].pc = "merge" /\ \A k \in Node \ {m} : sync'[k] = old[k]
    BY <1>0, <1>10, <2>0 DEF SyncSwap, Sync
  <2>2. CASE n = m
    BY <2>1, <2>2 DEF KeepsPrepared, Prepared
  <2>3. CASE n # m /\ sync[n].sb = sync[m].sb
    <3>1. sync'[n] = [sync[n] EXCEPT !.current = FALSE]
      BY <2>1, <2>3 DEF Outdated
    <3>2. ~ sync'[n].current
      BY <1>0, <3>1 DEF Sync
    <3> QED BY <3>2 DEF KeepsPrepared, Prepared
  <2>4. CASE n # m /\ sync[n].sb # sync[m].sb
    <3>1. sync'[n] = sync[n]
      BY <2>1, <2>4 DEF Outdated
    <3>2. row' = row \/ row' = [row EXCEPT ![sync[m].sb] = sync[m].next]
      BY <1>10 DEF SyncSwap
    <3>3. row'[sync[n].sb] = row[sync[n].sb] \/ sync[n].sb \notin Sandbox
      BY <2>4, <3>2 DEF TypeOK
    <3> QED BY <3>1, <3>3 DEF KeepsPrepared, Prepared, SwapsMatch
  <2> QED BY <2>2, <2>3, <2>4
<1> QED
  BY <1>1, <1>2, <1>3, <1>4, <1>5, <1>6, <1>7, <1>8, <1>9, <1>10
     DEF Next, Orchestrator, ReconcileStep, Worker

LEMMA SilentStays ==
  ASSUME CopiesOK, [Next]_vars, NEW s \in Sandbox, Silent(s), OnlyLeaves(s)
  PROVE  Silent(s)'
<1>0. TypeOK /\ SwapsMatch
  BY DEF CopiesOK
<1>1. Nowhere(s)'
  BY DEF OnlyLeaves, Nowhere, Silent
<1>2. ASSUME NEW n \in Node PROVE sync'[n].seen[s] = "absent"
  BY <1>0, SyncMoves DEF SyncMove, SyncSees, Silent, Nowhere
<1>3. ASSUME NEW n \in Node, Prepared(n)', sync'[n].sb = s PROVE sync'[n].next.phase = "Failed"
  <2>1. CASE KeepsPrepared(n)
    BY <1>3, <2>1 DEF KeepsPrepared, Silent
  <2>2. ASSUME NEW t \in Sandbox, SyncPrepares(n, t) PROVE sync'[n].next.phase = "Failed"
    BY <1>3, <2>2 DEF SyncPrepares, Silent, MergedPhase
  <2> QED BY <1>0, <2>1, <2>2, WhatIsPrepared
<1> QED BY <1>1, <1>2, <1>3 DEF Silent

LEMMA UnheardIsSilent ==
  ASSUME NEW s, Unheard(s)
  PROVE  Silent(s)
BY DEF Unheard, Silent

LEMMA CallOnly ==
  ASSUME NothingLost, TypeOK, [Next]_vars, NEW s \in Sandbox
  PROVE  \/ OnlyLeaves(s)
         \/ /\ At(s, {"call"}) /\ sched'.sb = s /\ sched'.pc = "created"
            /\ sched'.queue = sched.queue /\ UNCHANGED row
<1>0. sched \in Sched
  BY DEF TypeOK, SchedOK
<1>1. ASSUME NEW n \in Node, Arrives(n, s), ~ UNCHANGED live
      PROVE  At(s, {"call"}) /\ sched'.sb = s /\ sched'.pc = "created"
             /\ sched'.queue = sched.queue /\ UNCHANGED row
  <2>1. ~ Fault
    BY NothingIsLost
  <2>2. sched' = [sched EXCEPT !.pc = "created"] /\ UNCHANGED row
    BY <1>1, <2>1 DEF Arrives, SchedCall
  <2>3. sched.sb = s /\ sched.pc = "call"
    BY <1>1 DEF Arrives, SchedCall
  <2> QED BY <1>0, <2>2, <2>3 DEF At, Sched
<1>2. CASE UNCHANGED live
  BY <1>2 DEF OnlyLeaves
<1> QED BY <1>1, <1>2, WhoArrives DEF NothingLost

\* Until a call was answered well, nothing is known of s anywhere.
LEMMA StillSilent ==
  ASSUME NothingLost, CopiesOK, [Next]_vars, NEW s \in Sandbox, OnceCreated(s), ~ CreateSandbox(s),
         Fresh(s) \/ At(s, {"refused", "release"}) => Silent(s),
         Fresh(s)' \/ At(s, {"refused", "release"})'
  PROVE  Silent(s)'
<1>0. TypeOK /\ s # NoSandbox
  BY NamesAssumption DEF CopiesOK
<1>1. Fresh(s) \/ At(s, {"refused", "release"})
  <2>1. CASE Fresh(s)'
    BY <2>1, NotFreshAgain
  <2>2. CASE At(s, {"refused", "release"})'
    BY <1>0, <2>2, SchedulerMoves
       DEF At, Fresh, SchedulerLeaves, SchedulerGoesOn, SchedulerLists, SchedulerTakes
  <2> QED BY <2>1, <2>2
<1>2. OnlyLeaves(s)
  <2> SUFFICES ASSUME At(s, {"call"}), sched'.sb = s, sched'.pc = "created",
                      sched'.queue = sched.queue, UNCHANGED row
               PROVE  FALSE
    BY <1>0, CallOnly
  <2>1. s \notin sched.queue /\ row[s].phase # "Pending"
    BY DEF At, OnceCreated, Placing
  <2> QED BY <2>1 DEF Fresh, At
<1> QED BY <1>1, <1>2, SilentStays

LEMMA SyncStaysPlaced ==
  ASSUME CopiesOK, [Next]_vars, NEW s \in Sandbox, ~ CreateSandbox(s), ListedIsPlaced(s),
         row[s].phase = "Pending" => \A n \in Node : sync[n].sb # s,
         row'[s].phase = "Pending", NEW n \in Node
  PROVE  sync'[n].sb # s
<1>1. row[s].phase = "Pending"
  BY NotPendingAgain
<1>2. \A t \in Sandbox : SyncTakes(n, t) => t \in sync[n].batch /\ sync'[n].sb = t
  BY DEF SyncTakes
<1>3. s \notin sync[n].batch /\ s # NoSandbox
  BY <1>1, NamesAssumption DEF ListedIsPlaced
<1> QED BY <1>1, <1>2, <1>3, SyncMoves DEF SyncMove, CopiesOK

-----------------------------------------------------------------------------
(* The removals of nodes.                                                  *)

RemovalGoesOn(q) ==
  /\ removal'[q].node = removal[q].node /\ removal'[q].list = removal[q].list
  /\ removal'[q].sb = removal[q].sb
  /\ \/ removal'[q].pc \in {"done", "visit", "ports", "node"}
     \/ removal[q].pc = "call" /\ removal'[q].pc = "detach"
  /\ removal[q].pc # "new"

RemovalStarts(q) ==
  /\ removal[q].pc = "new" /\ removal'[q].pc \in {"list", "done"} /\ removal'[q].node \in Node
  /\ removal'[q].list = removal[q].list /\ removal'[q].sb = removal[q].sb

RemovalLists(q) ==
  /\ removal[q].pc = "list" /\ removal'[q].pc = "visit" /\ removal'[q].node = removal[q].node
  /\ removal'[q].sb = removal[q].sb
  /\ removal'[q].list = [s \in Sandbox |-> IF row[s].node = removal[q].node THEN row[s] ELSE NoRow]

RemovalVisits(q, t) ==
  /\ RemovalVisit(q, t) /\ removal[q].pc = "visit" /\ removal[q].list[t] # NoRow
  /\ removal'[q].node = removal[q].node /\ removal'[q].sb = t
  /\ removal'[q].list = [removal[q].list EXCEPT ![t] = NoRow]
  /\ removal'[q].pc # "new"

RemovalMove(q) ==
  \/ removal'[q] = removal[q] \/ RemovalGoesOn(q) \/ RemovalStarts(q) \/ RemovalLists(q)
  \/ \E t \in Sandbox : RemovalVisits(q, t)

LEMMA RemovalStepMoves ==
  ASSUME TypeOK, NEW p \in Remover, RemovalStep(p), NEW q \in Remover
  PROVE  RemovalMove(q)
<1>0. removal \in [Remover -> Removal] /\ removal[p] \in Removal
  BY DEF TypeOK
<1>1. ASSUME NEW x, RemovalBecomes(p, x)
      PROVE  removal'[p] = x /\ (q # p => RemovalMove(q))
  BY <1>0, <1>1 DEF RemovalBecomes, RemovalMove
<1>2. ASSUME NEW n \in Node, RemovalStart(p, n) PROVE RemovalMove(q)
  <2> DEFINE pc == IF n \in registered \/ p \in Forced THEN "list" ELSE "done"
             x == [removal[p] EXCEPT !.node = n, !.pc = pc]
  <2>1. RemovalBecomes(p, x) /\ removal[p].pc = "new"
    BY <1>2 DEF RemovalStart
  <2>2. x.node = n /\ x.pc = pc /\ x.list = removal[p].list /\ x.sb = removal[p].sb
    BY <1>0 DEF Removal
  <2>3. pc \in {"list", "done"}
    OBVIOUS
  <2> HIDE DEF x, pc
  <2>4. removal'[p] = x /\ (q # p => RemovalMove(q))
    BY <1>1, <2>1
  <2> QED BY <2>1, <2>2, <2>3, <2>4 DEF RemovalMove, RemovalStarts
<1>3. CASE RemovalList(p)
  <2> DEFINE list == [t \in Sandbox |-> IF row[t].node = removal[p].node THEN row[t] ELSE NoRow]
             x == [removal[p] EXCEPT !.pc = "visit", !.list = list]
  <2>1. RemovalBecomes(p, x) /\ removal[p].pc = "list"
    BY <1>3 DEF RemovalList
  <2>2. x.node = removal[p].node /\ x.pc = "visit" /\ x.list = list /\ x.sb = removal[p].sb
    BY <1>0 DEF Removal
  <2> HIDE DEF x
  <2>3. removal'[p] = x /\ (q # p => RemovalMove(q))
    BY <1>1, <2>1
  <2> QED BY <2>1, <2>2, <2>3 DEF RemovalMove, RemovalLists
<1>4. ASSUME NEW t \in Sandbox, RemovalVisit(p, t) PROVE RemovalMove(q)
  <2> DEFINE r == removal[p].list[t]
             pc == CASE r.phase = "Deleting" -> "drop"
                     [] r.phase \in {"Running", "Scheduled"} ->
                          IF p \in Forced THEN "detach" ELSE "call"
                     [] OTHER -> "visit"
             x == [removal[p] EXCEPT !.list = [@ EXCEPT ![t] = NoRow], !.sb = t, !.pc = pc]
  <2>1. RemovalBecomes(p, x) /\ removal[p].pc = "visit" /\ r # NoRow
    BY <1>4 DEF RemovalVisit
  <2>2. /\ x.node = removal[p].node /\ x.pc = pc /\ x.sb = t
        /\ x.list = [removal[p].list EXCEPT ![t] = NoRow]
    BY <1>0 DEF Removal
  <2>3. pc # "new"
    OBVIOUS
  <2> HIDE DEF x, pc
  <2>4. removal'[p] = x /\ (q # p => RemovalMove(q))
    BY <1>1, <2>1
  <2> QED BY <1>4, <2>1, <2>2, <2>3, <2>4 DEF RemovalMove, RemovalVisits
<1>5. ASSUME NEW pc, RemovalTo(p, pc), removal[p].pc # "new",
             pc \in {"done", "visit", "ports", "node"} \/ (removal[p].pc = "call" /\ pc = "detach")
      PROVE  RemovalMove(q)
  <2> DEFINE x == [removal[p] EXCEPT !.pc = pc]
  <2>1. RemovalBecomes(p, x)
    BY <1>5 DEF RemovalTo
  <2>2. x.node = removal[p].node /\ x.pc = pc /\ x.list = removal[p].list /\ x.sb = removal[p].sb
    BY <1>0 DEF Removal
  <2> HIDE DEF x
  <2>3. removal'[p] = x /\ (q # p => RemovalMove(q))
    BY <1>1, <2>1
  <2> QED BY <1>5, <2>2, <2>3 DEF RemovalMove, RemovalGoesOn
<1>6. CASE RemovalDrop(p) \/ RemovalCall(p) \/ RemovalDetach(p) \/ RemovalVisited(p)
           \/ RemovalPorts(p) \/ RemovalNode(p)
  BY <1>5, <1>6
     DEF RemovalDrop, RemovalCall, RemovalDetach, RemovalVisited, RemovalPorts, RemovalNode
<1> QED BY <1>2, <1>3, <1>4, <1>6 DEF RemovalStep

LEMMA WhoRemoves ==
  ASSUME TypeOK, [Next]_vars
  PROVE  UNCHANGED removal \/ (\E p \in Remover : RemovalStep(p) \/ RemovalGone(p)) \/ Restart
<1>1. CASE SchedStep
  BY <1>1
     DEF SchedStep, SchedTick, SchedPick, SchedFail, SchedReserve, SchedReload, SchedLookup,
         SchedCall, SchedCreateFailed, SchedRelease, SchedMarkRunning, SchedAccount, schedOthers
<1>2. ASSUME NEW w \in Worker, FinalizeStep(w)
      PROVE  UNCHANGED removal
  BY <1>2
     DEF FinalizeStep, JobMark, JobLookup, JobCall, JobFailed, JobRelease, JobRemove, JobAccount,
         jobOthers
<1>3. CASE SyncTick \/ (\E n \in Node : SyncStep(n)) \/ (\E t \in Sandbox : RefreshIP(t))
           \/ (\E n \in Node : ResourceRead(n) \/ ResourceStore(n)) \/ ReconcileTick
           \/ (\E t \in Sandbox : ReconcileVisit(t))
  BY <1>3
     DEF SyncTick, SyncStep, SyncLookup, SyncAsk, SyncRead, SyncSwap, SyncTimeout, SyncDone,
         syncOthers, RefreshIP, ResourceRead, ResourceStore, ReconcileTick, ReconcileVisit,
         jobOthers
<1>4. CASE Environment
  BY <1>4
     DEF Environment, CreateSandbox, Expire, DeleteRead, ClientGone, RegisterNode, Heartbeat,
         SbxletReady, SbxletRecovers, SbxletBreaks, SbxletRemoves, NodeCreateSandbox,
         NodeDeleteSandbox, actors, jobOthers
<1>5. CASE UNCHANGED vars
  BY <1>5 DEF vars, actors
<1> QED
  BY <1>1, <1>2, <1>3, <1>4, <1>5 DEF Next, Orchestrator, ReconcileStep, Worker

-----------------------------------------------------------------------------
(* The steps that keep row, scheduler and removals in agreement.           *)

LEMMA KeptWithin ==
  ASSUME NEW s, NEW r, FewerPorts(s), Within(s, r)
  PROVE  \A n \in Node, p \in HostPort : reserved'[<<n, p>>] = s => r.node = n /\ p \in r.ports
BY DEF FewerPorts, Within

LEMMA KeptHolds ==
  ASSUME NEW s, NEW r \in Row, SamePorts(s), Bare(r), NEW p \in r.ports,
         reserved[<<r.node, p>>] = s
  PROVE  reserved'[<<r.node, p>>] = s
<1>1. r.node \in Node /\ p \in HostPort
  BY DEF Row, Bare
<1> QED BY <1>1 DEF SamePorts

LEMMA SameAgree ==
  ASSUME TypeOK, NEW s \in Sandbox, Agree(s), row'[s] = row[s], SamePorts(s),
         UNCHANGED <<sched, removal>>, Silent(s) => Silent(s)'
  PROVE  Agree(s)'
<1>1. /\ Waits(s)' <=> Waits(s)
      /\ Copied(s)' <=> Copied(s)
      /\ \A pcs : At(s, pcs)' <=> At(s, pcs)
  BY DEF Waits, Copied, At
<1>2. Unreserved(s) => Unreserved(s)'
  BY DEF Unreserved, SamePorts
<1>3. row[s] \in Row /\ FewerPorts(s)
  BY DEF TypeOK, SamePorts, FewerPorts
<1>4. Within(s, row[s])'
  BY <1>3, KeptWithin DEF Agree, RowAgrees, Within
<1>5. Holds(s, row[s]) => Holds(s, row[s])'
  BY <1>3, KeptHolds DEF Agree, RowAgrees, Holds, Leaving
<1>6. RowAgrees(s)'
  BY <1>1, <1>4, <1>5 DEF Agree, RowAgrees, Bare, At
<1>7. Copied(s) => CopyAgrees(s)'
  <2> SUFFICES ASSUME Copied(s) PROVE CopyAgrees(s)'
    OBVIOUS
  <2>1. CopyAgrees(s) /\ sched.fresh \in Row
    BY DEF Agree, TypeOK, SchedOK, Sched
  <2>2. Within(s, sched.fresh)'
    BY <1>3, <2>1, KeptWithin DEF CopyAgrees, Within
  <2>3. Holds(s, sched.fresh)'
    BY <2>1, KeptHolds DEF CopyAgrees, Holds, Leaving
  <2> QED BY <2>1, <2>2, <2>3 DEF CopyAgrees, Bare
<1>8. \A q \in Remover : RemovalAgrees(q, s)'
  BY <1>1, <1>2 DEF Agree, RemovalAgrees
<1> QED BY <1>1, <1>6, <1>7, <1>8 DEF Agree

LEMMA NeverCalled ==
  ASSUME NothingLost, CopiesOK, [Next]_vars, NEW s \in Sandbox, Silent(s), ~ At(s, {"call"})
  PROVE  Silent(s)'
BY CallOnly, SilentStays DEF CopiesOK

LEMMA LeaveForgets ==
  ASSUME SchedLeave, NEW s \in Sandbox
  PROVE  sched'.sb # s /\ sched'.queue = sched.queue
BY NamesAssumption DEF SchedLeave, IdleSched

\* What the scheduler has not placed yet is nobody's.
LEMMA PendingIsBare ==
  ASSUME NEW s, Agree(s), row[s].phase = "Pending"
  PROVE  /\ Unreserved(s)
         /\ \A q \in Remover : /\ removal[q].list[s] = NoRow
                               /\ removal[q].sb = s => removal[q].pc \notin {"call", "detach"}
BY NamesAssumption DEF Agree, RowAgrees, RemovalAgrees, Within, Unreserved

LEMMA FailAgrees ==
  ASSUME TypeOK, NEW s \in Sandbox, s \notin sched.queue, Agree(s), sched.sb = s, SchedFail
  PROVE  Agree(s)'
<1> DEFINE r == [PendingRow EXCEPT !.phase = "Failed"]
<1>1. r.phase = "Failed" /\ r.node = NoNode /\ r.ports = {}
  BY DEF PendingRow
<1>2. row'[s] = r /\ UNCHANGED <<reserved, removal>> /\ SchedLeave
  BY DEF SchedFail, UpdateSandboxStatus, Exists, Agree, TypeOK, schedOthers
<1>3. row[s].phase = "Pending"
  BY DEF SchedFail, Agree, RowAgrees, Waits, At
<1> HIDE DEF r
<1>4. ~ Waits(s)' /\ ~ Copied(s)' /\ ~ At(s, {"release"})' /\ ~ At(s, {"reload"})'
  BY <1>2, LeaveForgets DEF Waits, Copied, At
<1>5. RowAgrees(s)'
  BY <1>1, <1>2, <1>3, <1>4, PendingIsBare DEF RowAgrees, Bare, Within, Unreserved, Holds
<1>6. \A q \in Remover : RemovalAgrees(q, s)'
  BY <1>2, <1>3, PendingIsBare DEF RemovalAgrees
<1> QED BY <1>1, <1>2, <1>4, <1>5, <1>6 DEF Agree

LEMMA ReserveAgrees ==
  ASSUME TypeOK, NEW s \in Sandbox, s \notin sched.queue, Agree(s), sched.sb = s, SchedReserve
  PROVE  Agree(s)'
<1>0. sched \in Sched /\ Exists(s) /\ sched.node \in Node /\ sched.pc = "reserve"
  BY DEF TypeOK, SchedOK, Agree, Exists, SchedReserve
<1>1. row[s].phase = "Pending" /\ UNCHANGED removal
  BY <1>0 DEF Agree, RowAgrees, Waits, At, SchedReserve, schedOthers
<1>2. CASE ~ PortConflict
  <2> DEFINE r == [phase |-> "Scheduled", node |-> sched.node, ports |-> sched.ports]
  <2>1. r.phase = "Scheduled" /\ r.node = sched.node /\ r.ports = sched.ports
    OBVIOUS
  <2>2. row'[s] = r
    BY <1>0, <1>2 DEF SchedReserve, UpdateSandboxStatus, TypeOK
  <2>3. \A n \in Node, p \in HostPort :
          (reserved'[<<n, p>>] = s) <=> (n = sched.node /\ p \in sched.ports)
    <3>1. \A n \in Node, p \in HostPort :
            reserved'[<<n, p>>] = IF n = sched.node /\ p \in sched.ports
                                  THEN sched.sb ELSE reserved[<<n, p>>]
      BY <1>0, <1>2 DEF SchedReserve
    <3> QED BY <1>1, <3>1, PendingIsBare DEF Unreserved
  <2>4. sched'.pc = "reload" /\ sched'.sb = s /\ sched'.queue = sched.queue
    BY <1>0, <1>2 DEF SchedReserve, Sched
  <2> HIDE DEF r
  <2>5. ~ Waits(s)' /\ ~ Copied(s)' /\ ~ At(s, {"release"})'
    BY <2>4 DEF Waits, Copied, At
  <2>6. sched.ports \subseteq HostPort
    BY <1>0 DEF Sched
  <2>7. Holds(s, row[s])'
    BY <1>0, <2>1, <2>2, <2>3, <2>6 DEF Holds
  <2>8. RowAgrees(s)'
    BY <1>0, <2>1, <2>2, <2>3, <2>5, <2>7, NamesAssumption DEF RowAgrees, Bare, Within
  <2>9. \A q \in Remover : RemovalAgrees(q, s)'
    BY <1>1, <2>1, <2>2, PendingIsBare DEF RemovalAgrees
  <2> QED BY <2>1, <2>2, <2>5, <2>8, <2>9 DEF Agree
<1>3. CASE PortConflict
  <2>1. UNCHANGED <<row, reserved>>
    BY <1>3 DEF SchedReserve
  <2>2. sched.ports # {} /\ SchedLeave
    BY <1>3 DEF SchedReserve, PortConflict
  <2>3. ~ Waits(s)' /\ ~ Copied(s)' /\ ~ At(s, {"release"})' /\ ~ At(s, {"reload"})' /\ sched'.sb # s
    BY <2>2, LeaveForgets DEF Waits, Copied, At
  <2>4. Holds(s, row[s])'
    BY <1>1, <2>1 DEF Agree, RowAgrees, Holds, Leaving
  <2>5. RowAgrees(s)'
    BY <1>1, <2>1, <2>3, <2>4 DEF Agree, RowAgrees, Within
  <2>6. \A q \in Remover : RemovalAgrees(q, s)'
    BY <1>1, <2>1, PendingIsBare DEF RemovalAgrees
  <2> QED BY <1>1, <2>1, <2>3, <2>5, <2>6 DEF Agree
<1> QED BY <1>2, <1>3

\* From the copy of the row to the answer of the node.
LEMMA CallAgrees ==
  ASSUME TypeOK, NEW s \in Sandbox, s \notin sched.queue, Agree(s), sched.sb = s,
         SchedReload \/ SchedLookup \/ SchedCall
  PROVE  Agree(s)'
<1>0. sched \in Sched /\ UNCHANGED <<row, reserved, removal>>
  BY DEF TypeOK, SchedOK, SchedReload, SchedLookup, SchedCall, dbVars, schedOthers
<1>1. /\ Copied(s)' /\ sched'.sb = s /\ sched'.queue = sched.queue
      /\ sched'.pc \in {"lookup", "call", "refused", "created"}
      /\ sched'.fresh = IF SchedReload THEN row[s] ELSE sched.fresh
  <2>1. CASE SchedReload
    <3>1. sched' = [sched EXCEPT !.pc = "lookup", !.fresh = row[sched.sb]]
      BY <2>1 DEF SchedReload, Agree, Exists
    <3> QED BY <1>0, <2>1, <3>1 DEF Sched, Copied, At
  <2>2. CASE SchedLookup \/ SchedCall
    <3>1. \E pc \in {"call", "refused", "created"} : sched' = [sched EXCEPT !.pc = pc]
      BY <2>2 DEF SchedLookup, SchedCall
    <3>2. ~ SchedReload
      BY <2>2 DEF SchedLookup, SchedCall, SchedReload
    <3> QED BY <1>0, <3>1, <3>2 DEF Sched, Copied, At
  <2> QED BY <2>1, <2>2
<1>2. (SchedReload => At(s, {"reload"})) /\ (~ SchedReload => Copied(s))
  BY DEF SchedReload, SchedLookup, SchedCall, At, Copied
<1>3. row[s].phase # "Pending" /\ Holds(s, row[s])
  BY <1>2 DEF Agree, RowAgrees, Waits, At, Copied
<1>4. Holds(s, row[s])'
  BY <1>0, <1>3 DEF Holds, Leaving
<1>5. RowAgrees(s)'
  BY <1>0, <1>1, <1>3, <1>4 DEF Agree, RowAgrees, Within, Waits, At
<1>6. CopyAgrees(s)'
  <2>1. CASE SchedReload
    BY <1>0, <1>1, <1>3, <1>4, <2>1 DEF Agree, RowAgrees, CopyAgrees, Within, Holds, Leaving
  <2>2. CASE ~ SchedReload
    <3>1. CopyAgrees(s)
      BY <1>2, <2>2 DEF Agree
    <3> QED BY <1>0, <1>1, <2>2, <3>1 DEF CopyAgrees, Within, Holds, Leaving
  <2> QED BY <2>1, <2>2
<1>7. \A q \in Remover : RemovalAgrees(q, s)'
  <2> SUFFICES ASSUME NEW q \in Remover PROVE RemovalAgrees(q, s)'
    OBVIOUS
  <2>1. RemovalAgrees(q, s)
    BY DEF Agree
  <2>2. removal[q].list[s] # NoRow => sched'.fresh.node \in {NoNode, removal[q].node}
    BY <1>1, <1>2, <2>1 DEF RemovalAgrees
  <2> QED BY <1>0, <2>1, <2>2 DEF RemovalAgrees, Unreserved
<1> QED BY <1>0, <1>5, <1>6, <1>7 DEF Agree

LEMMA WrittenAgrees ==
  ASSUME TypeOK, NEW s \in Sandbox, s \notin sched.queue, Agree(s), sched.sb = s,
         SchedCreateFailed \/ SchedMarkRunning
  PROVE  Agree(s)'
<1>0. sched \in Sched /\ UNCHANGED <<reserved, removal>> /\ Exists(s) /\ Copied(s)
  BY DEF TypeOK, SchedOK, SchedCreateFailed, SchedMarkRunning, schedOthers, Agree, Exists, Copied,
         At
<1>1. /\ row'[s].phase = IF SchedCreateFailed THEN "Failed" ELSE "Running"
      /\ row'[s].node = sched.fresh.node /\ row'[s].ports = sched.fresh.ports
  <2>1. row'[s] = [sched.fresh EXCEPT !.phase = IF SchedCreateFailed THEN "Failed" ELSE "Running"]
    BY <1>0 DEF SchedCreateFailed, SchedMarkRunning, UpdateSandboxStatus, TypeOK
  <2>2. sched.fresh \in Row
    BY <1>0 DEF Sched
  <2> QED BY <2>1, <2>2 DEF Row
<1>2. /\ sched'.pc = IF SchedCreateFailed THEN "release" ELSE "account"
      /\ sched'.sb = s /\ sched'.queue = sched.queue
  BY <1>0 DEF SchedCreateFailed, SchedMarkRunning, Sched
<1>3. ~ Waits(s)' /\ ~ Copied(s)' /\ (At(s, {"release"})' => row'[s].phase = "Failed")
  BY <1>1, <1>2 DEF Waits, Copied, At
<1>4. Bare(sched.fresh) /\ Within(s, sched.fresh) /\ Holds(s, sched.fresh)
  BY <1>0 DEF Agree, CopyAgrees
<1>5. RowAgrees(s)'
  BY <1>0, <1>1, <1>3, <1>4 DEF RowAgrees, Bare, Within, Holds, Leaving
<1>6. \A q \in Remover : RemovalAgrees(q, s)'
  <2> SUFFICES ASSUME NEW q \in Remover PROVE RemovalAgrees(q, s)'
    OBVIOUS
  <2>1. RemovalAgrees(q, s)
    BY DEF Agree
  <2>2. removal[q].list[s] # NoRow => sched.fresh.node \in {NoNode, removal[q].node}
    BY <1>0, <2>1 DEF RemovalAgrees
  <2>3. row'[s].phase # "Pending"
    BY <1>1
  <2>4. Unreserved(s) => Unreserved(s)'
    BY <1>0 DEF Unreserved
  <2> QED BY <1>0, <1>1, <1>3, <2>1, <2>2, <2>3, <2>4 DEF RemovalAgrees
<1> QED BY <1>1, <1>3, <1>5, <1>6 DEF Agree

LEMMA ReleaseAgrees ==
  ASSUME TypeOK, NEW s \in Sandbox, s \notin sched.queue, Agree(s), sched.sb = s,
         SchedRelease => Silent(s)', SchedRelease \/ SchedAccount, Silent(s) => Silent(s)'
  PROVE  Agree(s)'
<1>0. UNCHANGED <<row, removal>> /\ SchedLeave
  BY DEF SchedRelease, SchedAccount, schedOthers
<1>1. ~ Waits(s)' /\ ~ Copied(s)' /\ ~ At(s, {"release"})' /\ ~ At(s, {"reload"})' /\ sched'.sb # s
  BY <1>0, LeaveForgets DEF Waits, Copied, At
<1>2. CASE SchedRelease
  <2>1. Unreserved(s)'
    BY <1>2, ReleaseOne DEF SchedRelease, ReleaseSandboxPorts
  <2>2. row[s].phase = "Failed"
    BY <1>2 DEF SchedRelease, Agree, RowAgrees, At
  <2>3. RowAgrees(s)'
    BY <1>0, <1>1, <1>2, <2>1, <2>2 DEF Agree, RowAgrees, Within, Unreserved
  <2>4. \A q \in Remover : RemovalAgrees(q, s)'
    BY <1>0, <1>1, <2>1, <2>2 DEF Agree, RemovalAgrees
  <2> QED BY <1>0, <1>1, <2>2, <2>3, <2>4 DEF Agree
<1>3. CASE SchedAccount
  <2>1. UNCHANGED reserved
    BY <1>3 DEF SchedAccount
  <2>2. Holds(s, row[s]) => Holds(s, row[s])'
    BY <1>0, <2>1 DEF Holds, Leaving
  <2>3. RowAgrees(s)'
    BY <1>0, <1>1, <2>1, <2>2 DEF Agree, RowAgrees, Within
  <2>4. \A q \in Remover : RemovalAgrees(q, s)'
    BY <1>0, <1>1, <2>1 DEF Agree, RemovalAgrees, Unreserved
  <2> QED BY <1>0, <1>1, <2>3, <2>4 DEF Agree
<1> QED BY <1>2, <1>3

\* The scheduler turns to another sandbox, or lists what is Pending.
LEMMA TurnAgrees ==
  ASSUME TypeOK, NEW s \in Sandbox, Agree(s), row'[s] = row[s], SamePorts(s), UNCHANGED removal,
         Silent(s) => Silent(s)', Waits(s)' => row[s].phase = "Pending", sched'.sb = s => Waits(s)',
         ~ Copied(s)', ~ At(s, {"release"})', ~ At(s, {"reload"})'
  PROVE  Agree(s)'
<1>1. Unreserved(s) => Unreserved(s)'
  BY DEF Unreserved, SamePorts
<1>2. row[s] \in Row /\ FewerPorts(s)
  BY DEF TypeOK, SamePorts, FewerPorts
<1>3. Within(s, row[s])'
  BY <1>2, KeptWithin DEF Agree, RowAgrees, Within
<1>4. Holds(s, row[s]) => Holds(s, row[s])'
  BY <1>2, KeptHolds DEF Agree, RowAgrees, Holds, Leaving
<1>5. RowAgrees(s)'
  BY <1>3, <1>4 DEF Agree, RowAgrees, Bare
<1>6. \A q \in Remover : RemovalAgrees(q, s)'
  BY <1>1 DEF Agree, RemovalAgrees
<1> QED BY <1>5, <1>6 DEF Agree

LEMMA SchedulerElsewhere ==
  ASSUME TypeOK, SchedStep, NEW s \in Sandbox,
         SchedTick \/ (\E t \in Sandbox : SchedPick(t)) \/ sched.sb # s
  PROVE  row'[s] = row[s] /\ SamePorts(s) /\ UNCHANGED removal
<1>1. CASE UNCHANGED <<row, reserved, removal>>
  BY <1>1 DEF SamePorts
<1>2. CASE SchedTick \/ (\E t \in Sandbox : SchedPick(t)) \/ SchedReload \/ SchedLookup \/ SchedCall
           \/ SchedAccount
  BY <1>1, <1>2
     DEF SchedTick, SchedPick, SchedReload, SchedLookup, SchedCall, SchedAccount, dbVars,
         schedOthers
<1>3. CASE sched.sb # s /\ (SchedFail \/ SchedCreateFailed \/ SchedMarkRunning)
  <2>1. UNCHANGED <<reserved, removal>> /\ \E r : UpdateSandboxStatus(sched.sb, r)
    BY <1>3 DEF SchedFail, SchedCreateFailed, SchedMarkRunning, schedOthers
  <2> QED BY <1>3, <2>1, UpdateWrites DEF SamePorts
<1>4. CASE sched.sb # s /\ SchedReserve
  <2>1. row'[s] = row[s]
    BY <1>4, UpdateWrites DEF SchedReserve
  <2>2. SamePorts(s)
    BY <1>4, GrantPorts
  <2> QED BY <1>4, <2>1, <2>2 DEF SchedReserve, schedOthers
<1>5. CASE sched.sb # s /\ SchedRelease
  <2>1. SamePorts(s)
    BY <1>5, ReleaseOne DEF SchedRelease, ReleaseSandboxPorts
  <2> QED BY <1>5, <2>1 DEF SchedRelease, schedOthers
<1> QED BY <1>2, <1>3, <1>4, <1>5 DEF SchedStep

LEMMA SchedulerAgrees ==
  ASSUME NothingLost, CopiesOK, [Next]_vars, SchedStep, NEW s \in Sandbox, Agree(s),
         OnceCreated(s), At(s, {"refused", "release"}) => Silent(s)
  PROVE  Agree(s)'
<1>0. TypeOK /\ s # NoSandbox
  BY NamesAssumption DEF CopiesOK
<1>1. At(s, {"call"}) \/ (Silent(s) => Silent(s)')
  BY NeverCalled
<1>2. CASE SchedTick \/ (\E t \in Sandbox : SchedPick(t)) \/ sched.sb # s
  <2>0. ~ At(s, {"call"})
    BY <1>2 DEF At, SchedTick, SchedPick
  <2>1. Waits(s) => row[s].phase = "Pending"
    BY DEF Agree, RowAgrees
  <2>2. row'[s] = row[s] /\ SamePorts(s) /\ UNCHANGED removal
    BY <1>0, <1>2, SchedulerElsewhere
  <2>3. CASE UNCHANGED sched
    BY <1>0, <1>1, <2>0, <2>2, <2>3, SameAgree
  <2>4. CASE SchedulerLeaves
    BY <1>0, <1>1, <2>0, <2>1, <2>2, <2>4, TurnAgrees DEF SchedulerLeaves, Waits, Copied, At
  <2>5. CASE SchedulerGoesOn
    <3>1. sched.sb # s
      BY <1>2, <2>5 DEF SchedulerGoesOn, SchedTick, SchedPick
    <3> QED BY <1>0, <1>1, <2>0, <2>1, <2>2, <2>5, <3>1, TurnAgrees
            DEF SchedulerGoesOn, Waits, Copied, At
  <2>6. CASE SchedulerLists
    BY <1>0, <1>1, <2>0, <2>2, <2>6, TurnAgrees DEF SchedulerLists, Waits, Copied, At
  <2>7. ASSUME NEW t \in Sandbox, SchedulerTakes(t) PROVE Agree(s)'
    BY <1>0, <1>1, <2>0, <2>1, <2>2, <2>7, TurnAgrees DEF SchedulerTakes, Waits, Copied, At
  <2> QED BY <1>0, <2>3, <2>4, <2>5, <2>6, <2>7, SchedulerMoves
<1>3. CASE sched.sb = s /\ ~ SchedTick /\ ~ \E t \in Sandbox : SchedPick(t)
  <2>1. s \notin sched.queue
    BY <1>3 DEF OnceCreated
  <2>2. CASE SchedRelease \/ SchedAccount
    <3>1. ~ At(s, {"call"}) /\ (SchedRelease => At(s, {"refused", "release"}))
      BY <1>3, <2>2 DEF At, SchedRelease, SchedAccount
    <3> QED BY <1>0, <1>1, <1>3, <2>1, <2>2, <3>1, ReleaseAgrees
  <2> QED
    BY <1>0, <1>3, <2>1, <2>2, FailAgrees, ReserveAgrees, CallAgrees, WrittenAgrees DEF SchedStep
<1> QED BY <1>2, <1>3

\* A removal that has begun keeps its node.
LEMMA LeavingStays ==
  ASSUME NEW n, n # NoNode, Leaving(n), \A q \in Remover : RemovalOK(q) /\ RemovalMove(q)
  PROVE  Leaving(n)'
<1> PICK q \in Remover : removal[q].node = n
  BY DEF Leaving
<1>1. removal[q].pc # "new"
  BY DEF RemovalOK
<1>2. removal'[q].node = n
  BY <1>1
     DEF RemovalMove, RemovalGoesOn, RemovalStarts, RemovalLists, RemovalVisits
<1> QED BY <1>2 DEF Leaving

\* Whatever a removal does elsewhere: what r assigns stays reserved, or its node is leaving.
LEMMA RemovalHolds ==
  ASSUME NEW s, NEW r \in Row, Bare(r), Holds(s, r),
         \A q \in Remover : RemovalOK(q) /\ RemovalMove(q),
         \A p \in HostPort : r.node \in Node /\ reserved[<<r.node, p>>] = s =>
                               reserved'[<<r.node, p>>] = s \/ Leaving(r.node)'
  PROVE  Leaving(r.node)' \/ \A p \in r.ports : reserved'[<<r.node, p>>] = s
<1>1. CASE r.node = NoNode
  BY <1>1 DEF Bare
<1>2. CASE r.node # NoNode /\ Leaving(r.node)
  BY <1>2, LeavingStays
<1>3. CASE r.node # NoNode /\ \A p \in r.ports : reserved[<<r.node, p>>] = s
  <2>1. r.node \in Node /\ r.ports \subseteq HostPort
    BY <1>3 DEF Row
  <2> QED BY <1>3, <2>1
<1> QED BY <1>1, <1>2, <1>3 DEF Holds

LEMMA RemovalStaysAgreed ==
  ASSUME TypeOK, NEW s \in Sandbox, Agree(s), NEW q \in Remover, RemovalOK(q), RemovalMove(q),
         UNCHANGED sched, FewerPorts(s), RemovalVisit(q, s) => Unreserved(s)',
         \/ row'[s] = row[s]
         \/ row'[s].node = NoNode /\ row'[s].phase # "Pending"
  PROVE  RemovalAgrees(q, s)'
<1>0. /\ RemovalAgrees(q, s) /\ (Unreserved(s) => Unreserved(s)') /\ (Copied(s)' <=> Copied(s))
      /\ removal[q].list \in [Sandbox -> Row]
  BY DEF Agree, FewerPorts, Unreserved, Copied, At, TypeOK, Removal
<1>1. CASE removal'[q] = removal[q]
  BY <1>0, <1>1 DEF RemovalAgrees
<1>2. CASE RemovalGoesOn(q)
  BY <1>0, <1>2 DEF RemovalAgrees, RemovalGoesOn
<1>3. CASE RemovalStarts(q)
  <2>1. removal'[q].list[s] = NoRow
    BY <1>3 DEF RemovalStarts, RemovalOK
  <2> QED BY <1>3, <2>1 DEF RemovalAgrees, RemovalStarts
<1>4. CASE RemovalLists(q)
  <2>1. removal[q].node \in Node /\ removal[q].node # NoNode
    BY <1>4, NamesAssumption DEF RemovalLists, RemovalOK
  <2>2. removal'[q].list[s] # NoRow => row[s].node = removal[q].node
    BY <1>4 DEF RemovalLists
  <2>3. row[s].phase = "Pending" => row[s].node = NoNode
    BY DEF Agree, RowAgrees
  <2>4. Copied(s) => sched.fresh.node \in {NoNode, row[s].node} \/ row[s].node = NoNode
    BY DEF Agree, CopyAgrees
  <2>5. removal'[q].list[s] # NoRow =>
          /\ row'[s].phase # "Pending"
          /\ row'[s].node \in {NoNode, removal[q].node}
          /\ Copied(s) => sched.fresh.node \in {NoNode, removal[q].node}
    BY <2>1, <2>2, <2>3, <2>4
  <2> QED BY <1>0, <1>4, <2>5 DEF RemovalAgrees, RemovalLists
<1>5. ASSUME NEW t \in Sandbox, t # s, RemovalVisits(q, t) PROVE RemovalAgrees(q, s)'
  <2>1. removal'[q].list[s] = removal[q].list[s] /\ removal'[q].sb # s
        /\ removal'[q].node = removal[q].node
    BY <1>0, <1>5 DEF RemovalVisits
  <2> QED BY <1>0, <2>1 DEF RemovalAgrees
<1>6. CASE RemovalVisits(q, s)
  <2>1. removal'[q].list[s] = NoRow
    BY <1>0, <1>6 DEF RemovalVisits
  <2>2. Unreserved(s)' /\ row'[s].phase # "Pending"
    BY <1>0, <1>6 DEF RemovalVisits, RemovalAgrees
  <2> QED BY <2>1, <2>2 DEF RemovalAgrees
<1> QED BY <1>1, <1>2, <1>3, <1>4, <1>5, <1>6 DEF RemovalMove

\* A step of a removal that leaves the row alone.
LEMMA RemovalLeavesRow ==
  ASSUME TypeOK, NEW s \in Sandbox, Agree(s), row'[s] = row[s], UNCHANGED sched, FewerPorts(s),
         Silent(s) => Silent(s)', \A q \in Remover : RemovalAgrees(q, s)',
         Holds(s, row[s]) => Holds(s, row[s])',
         Copied(s) => Holds(s, sched.fresh)'
  PROVE  Agree(s)'
<1>1. /\ Waits(s)' <=> Waits(s)
      /\ Copied(s)' <=> Copied(s)
      /\ \A pcs : At(s, pcs)' <=> At(s, pcs)
  BY DEF Waits, Copied, At
<1>2. Within(s, row[s])'
  BY KeptWithin DEF Agree, RowAgrees, Within
<1>3. RowAgrees(s)'
  BY <1>1, <1>2 DEF Agree, RowAgrees, Bare, At
<1>4. Copied(s) => CopyAgrees(s)'
  <2> SUFFICES ASSUME Copied(s) PROVE CopyAgrees(s)'
    OBVIOUS
  <2>1. CopyAgrees(s)
    BY DEF Agree
  <2>2. Within(s, sched.fresh)'
    BY <2>1, KeptWithin DEF CopyAgrees, Within
  <2> QED BY <2>1, <2>2 DEF CopyAgrees, Bare
<1> QED BY <1>1, <1>3, <1>4 DEF Agree

\* "node removed": neither the row nor a copy has ports that are reserved.
LEMMA DetachAgrees ==
  ASSUME TypeOK, NEW p \in Remover, RemovalDetach(p), NEW s \in Sandbox, removal[p].sb = s,
         Agree(s), \A q \in Remover : RemovalOK(q) /\ RemovalMove(q)
  PROVE  Agree(s)'
<1> DEFINE r == [PendingRow EXCEPT !.phase = "Failed"]
<1>1. r.phase = "Failed" /\ r.node = NoNode /\ r.ports = {}
  BY DEF PendingRow
<1>2. row'[s] = r /\ UNCHANGED <<reserved, sched>>
  BY DEF RemovalDetach, UpdateSandboxStatus, Exists, Agree, TypeOK, removalOthers
<1> HIDE DEF r
<1>3. Unreserved(s) /\ row[s].phase # "Pending"
  BY DEF RemovalDetach, Agree, RemovalAgrees
<1>4. Unreserved(s)' /\ FewerPorts(s) /\ (\A pcs : At(s, pcs)' <=> At(s, pcs))
      /\ (Waits(s)' <=> Waits(s)) /\ (Copied(s)' <=> Copied(s))
  BY <1>2, <1>3 DEF Unreserved, FewerPorts, At, Waits, Copied
<1>5. RowAgrees(s)'
  BY <1>1, <1>2, <1>3, <1>4 DEF Agree, RowAgrees, Bare, Within, Unreserved, Holds
<1>6. \A q \in Remover : RemovalAgrees(q, s)'
  BY <1>1, <1>2, <1>4, RemovalStaysAgreed
<1>7. Copied(s) => CopyAgrees(s)'
  <2> SUFFICES ASSUME Copied(s) PROVE CopyAgrees(s)'
    OBVIOUS
  <2>1. CopyAgrees(s) /\ sched.fresh \in Row
    BY DEF Agree, TypeOK, SchedOK, Sched
  <2>2. Holds(s, sched.fresh)'
    BY <1>2, <2>1, RemovalHolds DEF CopyAgrees, Holds
  <2> QED BY <1>1, <1>2, <1>4, <2>1, <2>2 DEF CopyAgrees, Bare, Within, Unreserved
<1> QED BY <1>1, <1>2, <1>4, <1>5, <1>6, <1>7 DEF Agree

\* What a removal takes from s it takes from a node that is leaving.
LEMMA RemovalStepAgrees ==
  ASSUME CopiesOK, NEW p \in Remover, RemovalStep(p), NEW s \in Sandbox, Agree(s),
         \A q \in Remover : RemovalOK(q) /\ RemovalMove(q), Silent(s) => Silent(s)',
         ~ (RemovalDrop(p) /\ removal[p].sb = s)
  PROVE  Agree(s)'
<1>0. TypeOK /\ row[s] \in Row /\ sched.fresh \in Row /\ UNCHANGED sched
  BY DEF CopiesOK, TypeOK, SchedOK, Sched, RemovalStep, RemovalStart, RemovalList, RemovalVisit,
         RemovalDrop, RemovalCall, RemovalDetach, RemovalVisited, RemovalPorts, RemovalNode,
         removalOthers
<1>1. CASE RemovalDetach(p) /\ removal[p].sb = s
  BY <1>0, <1>1, DetachAgrees
<1>2. CASE ~ (RemovalDetach(p) /\ removal[p].sb = s)
  <2>1. row'[s] = row[s]
    BY <1>0, <1>2, UpdateWrites, DeleteWrites
       DEF RemovalStep, RemovalStart, RemovalList, RemovalVisit, RemovalDrop, RemovalCall,
           RemovalDetach, RemovalVisited, RemovalPorts, RemovalNode, dbVars
  <2>2. \/ SamePorts(s)
        \/ RemovalVisit(p, s) /\ Unreserved(s)'
        \/ RemovalPorts(p)
    <3>1. CASE UNCHANGED reserved
      BY <3>1 DEF SamePorts
    <3>2. ASSUME NEW t \in Sandbox, RemovalVisit(p, t)
          PROVE  SamePorts(s) \/ (RemovalVisit(p, s) /\ Unreserved(s)')
      BY <1>0, <3>2, ReleaseOne DEF RemovalVisit, ReleaseSandboxPorts
    <3>3. CASE RemovalDrop(p)
      BY <1>0, <3>3, ReleaseOne DEF RemovalDrop, DeleteRow
    <3> QED
      BY <3>1, <3>2, <3>3
         DEF RemovalStep, RemovalStart, RemovalList, RemovalCall, RemovalDetach, RemovalVisited,
             RemovalNode, UpdateSandboxStatus, dbVars
  <2>3. RemovalPorts(p) => \A n \in Node, h \in HostPort :
          reserved'[<<n, h>>] = IF n = removal[p].node THEN NoSandbox ELSE reserved[<<n, h>>]
    BY DEF RemovalPorts
  <2>4. FewerPorts(s)
    BY <2>2, <2>3, NamesAssumption DEF SamePorts, FewerPorts, Unreserved
  <2>5. removal[p].pc # "new" => removal'[p].node = removal[p].node
    BY DEF RemovalMove, RemovalGoesOn, RemovalStarts, RemovalLists, RemovalVisits
  <2>6. ASSUME NEW r \in Row, Bare(r), Holds(s, r),
               RemovalVisit(p, s) => r.node \in {NoNode, removal[p].node}
        PROVE  Leaving(r.node)' \/ \A h \in r.ports : reserved'[<<r.node, h>>] = s
    <3>1. removal[p].pc # "new" /\ r.node = removal[p].node => Leaving(r.node)'
      BY <2>5 DEF Leaving
    <3>2. RemovalVisit(p, s) \/ RemovalPorts(p) => removal[p].pc # "new"
      BY DEF RemovalVisit, RemovalPorts
    <3>3. ASSUME NEW h \in HostPort, r.node \in Node, reserved[<<r.node, h>>] = s
          PROVE  reserved'[<<r.node, h>>] = s \/ Leaving(r.node)'
      <4>1. CASE SamePorts(s)
        BY <3>3, <4>1 DEF SamePorts
      <4>2. CASE RemovalVisit(p, s)
        BY <2>6, <3>1, <3>2, <3>3, <4>2, NamesAssumption
      <4>3. CASE RemovalPorts(p)
        BY <2>3, <3>1, <3>2, <3>3, <4>3
      <4> QED BY <2>2, <4>1, <4>2, <4>3
    <3> QED BY <2>6, <3>3, RemovalHolds
  <2>7. RemovalVisit(p, s) =>
          /\ row[s].node \in {NoNode, removal[p].node}
          /\ Copied(s) => sched.fresh.node \in {NoNode, removal[p].node}
    BY DEF RemovalVisit, Agree, RemovalAgrees
  <2>8. Holds(s, row[s]) => Holds(s, row[s])'
    BY <1>0, <2>1, <2>6, <2>7 DEF Agree, RowAgrees, Holds
  <2>9. Copied(s) => Holds(s, sched.fresh)'
    BY <1>0, <2>6, <2>7 DEF Agree, CopyAgrees, Holds
  <2>10. ASSUME NEW q \in Remover, RemovalVisit(q, s) PROVE Unreserved(s)'
    BY <1>0, <2>10, ReleaseOne DEF RemovalVisit, ReleaseSandboxPorts
  <2>11. \A q \in Remover : RemovalAgrees(q, s)'
    BY <1>0, <2>1, <2>4, <2>10, RemovalStaysAgreed
  <2> QED BY <1>0, <2>1, <2>4, <2>8, <2>9, <2>11, RemovalLeavesRow
<1> QED BY <1>1, <1>2

\* Status sync: only the phase changes, and a sandbox no node has can only have failed.
LEMMA SwapAgrees ==
  ASSUME CopiesOK, NEW s \in Sandbox, Agree(s), NEW n \in Node, SyncWrites(n, s),
         At(s, {"release"}) => Silent(s), Silent(s) => Silent(s)',
         row[s].phase = "Pending" => sync[n].sb # s
  PROVE  Agree(s)'
<1>1. /\ row'[s].phase \notin {"Absent", "Pending", "Deleting"}
      /\ row'[s].node = row[s].node /\ row'[s].ports = row[s].ports
      /\ Silent(s) => row'[s].phase = "Failed"
  BY DEF CopiesOK, SwapsMatch, SwapsAreMild, SyncWrites, Prepared, Silent
<1>2. row[s].phase # "Pending" /\ UNCHANGED <<reserved, sched, removal>>
  BY DEF SyncWrites, SyncSwap, syncOthers
<1>3. (\A pcs : At(s, pcs)' <=> At(s, pcs)) /\ (Waits(s)' <=> Waits(s)) /\ (Copied(s)' <=> Copied(s))
  BY <1>2 DEF At, Waits, Copied
<1>4. (Holds(s, row[s]) => Holds(s, row[s])') /\ (Within(s, row[s]) => Within(s, row[s])')
  BY <1>1, <1>2 DEF Holds, Within, Leaving
<1>5. Holds(s, row[s])'
      \/ (row'[s].phase = "Failed" /\ Silent(s)' /\ ~ Copied(s)' /\ ~ At(s, {"reload"})')
  BY <1>1, <1>3, <1>4 DEF Agree, RowAgrees
<1>6. RowAgrees(s)'
  BY <1>1, <1>2, <1>3, <1>4, <1>5 DEF Agree, RowAgrees, Bare
<1>7. Copied(s) => CopyAgrees(s)'
  BY <1>1, <1>2 DEF Agree, CopyAgrees, Bare, Within, Holds, Leaving
<1>8. \A q \in Remover : RemovalAgrees(q, s)'
  BY <1>1, <1>2, <1>3 DEF Agree, RemovalAgrees, Unreserved
<1> QED BY <1>1, <1>3, <1>6, <1>7, <1>8 DEF Agree

-----------------------------------------------------------------------------
(* Who gives up the ports of a sandbox, and who takes its row away.        *)

LEMMA WhoReserves ==
  ASSUME TypeOK, [Next]_vars, NEW s \in Sandbox
  PROVE  FewerPorts(s) \/ (SchedReserve /\ sched.sb = s /\ Exists(s))
<1>1. UNCHANGED reserved => FewerPorts(s)
  BY DEF FewerPorts
<1>2. ASSUME NEW t, reserved' = PortsWithout(reserved, t) PROVE FewerPorts(s)
  BY <1>2, ReleaseOne DEF Unreserved, SamePorts, FewerPorts
<1>3. CASE SchedStep
  <2>1. CASE SchedReserve
    BY <2>1, GrantPorts DEF SamePorts, FewerPorts
  <2>2. CASE SchedRelease
    BY <1>2, <2>2 DEF SchedRelease, ReleaseSandboxPorts
  <2> QED
    BY <1>1, <1>3, <2>1, <2>2
       DEF SchedStep, SchedTick, SchedPick, SchedFail, SchedReload, SchedLookup, SchedCall,
           SchedCreateFailed, SchedMarkRunning, SchedAccount, dbVars
<1>4. ASSUME NEW w \in Worker, FinalizeStep(w) PROVE FewerPorts(s)
  <2>1. UNCHANGED reserved \/ reserved' = PortsWithout(reserved, job[w].sb)
    BY <1>4
       DEF FinalizeStep, JobMark, JobLookup, JobCall, JobFailed, JobRelease, JobRemove, JobAccount,
           ReleaseSandboxPorts, DeleteRow
  <2> QED BY <1>1, <1>2, <2>1
<1>5. ASSUME NEW q \in Remover, RemovalStep(q) PROVE FewerPorts(s)
  <2>1. CASE RemovalPorts(q)
    BY <2>1, NamesAssumption DEF RemovalPorts, FewerPorts
  <2>2. CASE RemovalDrop(q) \/ \E t \in Sandbox : RemovalVisit(q, t)
    <3>1. \E t : reserved' = PortsWithout(reserved, t)
      BY <2>2 DEF RemovalDrop, RemovalVisit, ReleaseSandboxPorts, DeleteRow
    <3> QED BY <1>2, <3>1
  <2> QED
    BY <1>1, <1>5, <2>1, <2>2
       DEF RemovalStep, RemovalStart, RemovalList, RemovalCall, RemovalDetach, RemovalVisited,
           RemovalNode, dbVars
<1>6. CASE SyncTick \/ (\E n \in Node : SyncStep(n)) \/ (\E t \in Sandbox : RefreshIP(t))
           \/ (\E n \in Node : ResourceRead(n) \/ ResourceStore(n)) \/ ReconcileTick
           \/ (\E t \in Sandbox : ReconcileVisit(t))
  BY <1>1, <1>6
     DEF SyncTick, SyncStep, SyncLookup, SyncAsk, SyncRead, SyncSwap, SyncTimeout, SyncDone,
         syncOthers, RefreshIP, ResourceRead, ResourceStore, ReconcileTick, ReconcileVisit, dbVars
<1>7. CASE Environment \/ UNCHANGED vars
  BY <1>1, <1>7
     DEF Environment, CreateSandbox, Expire, DeleteRead, ClientGone, RemovalGone, RegisterNode,
         Heartbeat, SbxletReady, SbxletRecovers, SbxletBreaks, SbxletRemoves, NodeCreateSandbox,
         NodeDeleteSandbox, Restart, dbVars, vars
<1> QED
  BY <1>3, <1>4, <1>5, <1>6, <1>7 DEF Next, Orchestrator, ReconcileStep, Worker

LEMMA HasLeftStays ==
  ASSUME CopiesOK, [Next]_vars, NEW s \in Sandbox, ~ CreateSandbox(s), HasLeft(s)
  PROVE  HasLeft(s)'
<1>1. TypeOK /\ row[s].phase = "Absent"
  BY DEF CopiesOK, HasLeft
<1>2. row'[s].phase = "Absent"
  <2>1. ~ SchedWrites(s) /\ (\A w \in Worker : JobWrites(w, s) => row'[s] = NoRow)
        /\ (\A q \in Remover : RemovalWrites(q, s) => row'[s] = NoRow)
    BY <1>1 DEF SchedWrites, JobWrites, RemovalWrites
  <2>2. \A n \in Node : ~ SyncWrites(n, s)
    BY <1>1 DEF SyncWrites, CopiesOK, SwapsMatch
  <2> QED BY <1>1, <2>1, <2>2, WhoWrites DEF RowWritten, NoRow
<1>3. FewerPorts(s)
  BY <1>1, WhoReserves DEF Exists
<1> QED BY <1>2, <1>3 DEF HasLeft, Unreserved, FewerPorts

LEMMA DropLeaves ==
  ASSUME TypeOK, NEW s \in Sandbox, DeleteRow(s)
  PROVE  HasLeft(s)'
<1>1. row'[s].phase = "Absent"
  BY DEF DeleteRow, NoRow, TypeOK
<1>2. Unreserved(s)'
  BY ReleaseOne DEF DeleteRow
<1> QED BY <1>1, <1>2 DEF HasLeft

\* A deletion that works for s goes on to the end.
LEMMA FinalizingGoesOn ==
  ASSUME NothingLost, TypeOK, [Next]_vars, NEW s \in Sandbox, Finalizing(s)
  PROVE  Finalizing(s)' \/ HasLeft(s)'
<1> PICK w \in Worker :
      job[w].sb = s /\ job[w].pc \in {"mark", "lookup", "call", "release", "remove"}
  BY DEF Finalizing
<1>1. CASE job'[w] = job[w]
  BY <1>1 DEF Finalizing
<1>2. ASSUME NEW v \in Worker, FinalizeStep(v) PROVE Finalizing(s)' \/ HasLeft(s)'
  <2>0. job \in [Worker -> Job] /\ ~ Fault
    BY NothingIsLost DEF TypeOK
  <2>1. CASE v # w
    <3>1. \E x : JobBecomes(v, x)
      BY <1>2
         DEF FinalizeStep, JobMark, JobLookup, JobCall, JobFailed, JobRelease, JobRemove,
             JobAccount, To, End
    <3>2. job'[w] = job[w]
      BY <2>0, <2>1, <3>1 DEF JobBecomes
    <3> QED BY <1>1, <3>2
  <2>2. CASE v = w /\ JobRemove(w)
    BY <2>2, DropLeaves DEF JobRemove
  <2>3. CASE v = w /\ ~ JobRemove(w)
    <3>1. \E pc \in {"lookup", "call", "release", "remove"} : To(w, pc)
      BY <1>2, <2>0, <2>3
         DEF FinalizeStep, JobMark, JobLookup, JobCall, JobFailed, JobRelease, JobAccount, CallFails
    <3>2. job'[w].sb = s /\ job'[w].pc \in {"lookup", "call", "release", "remove"}
      BY <2>0, <3>1 DEF To, JobBecomes, Job
    <3> QED BY <3>2 DEF Finalizing
  <2> QED BY <2>1, <2>2, <2>3
<1>3. ASSUME NEW t \in Sandbox, ReconcileVisit(t) PROVE job'[w] = job[w]
  BY <1>3 DEF ReconcileVisit, JobBecomes, TypeOK
<1>4. ASSUME NEW v \in Deleter, NEW t \in Sandbox, DeleteRead(v, t) PROVE job'[w] = job[w]
  BY <1>4 DEF DeleteRead, JobBecomes, To, TypeOK
<1>5. ~ Restart /\ \A v \in Deleter : ~ ClientGone(v)
  BY NothingIsLost DEF Worker
<1> QED BY <1>1, <1>2, <1>3, <1>4, <1>5, WhoSteps DEF JobStep

LEMMA NeverFailed ==
  ASSUME NothingLost, TypeOK, [Next]_vars, NEW w \in Worker, job[w].pc # "failed"
  PROVE  job'[w].pc # "failed"
<1>1. ~ Fault /\ ~ Restart
  BY NothingIsLost
<1>2. CASE JobGoesOn(w)
  <2>1. JobCall(w) => job'[w].pc # "failed"
    BY <1>1 DEF JobCall, CallFails, To, JobBecomes, TypeOK, Job
  <2> QED BY <1>2, <2>1 DEF JobGoesOn
<1>3. ASSUME NEW t \in Sandbox, JobTakes(w, t) PROVE job'[w].pc # "failed"
  BY <1>3 DEF JobTakes
<1> QED BY <1>2, <1>3, JobMoves DEF JobMove

LEMMA RemovalsMove ==
  ASSUME NothingLost, TypeOK, [Next]_vars, NEW q \in Remover
  PROVE  RemovalMove(q)
<1>1. UNCHANGED removal \/ \E p \in Remover : RemovalStep(p)
  BY NothingIsLost, WhoRemoves
<1>2. CASE UNCHANGED removal
  BY <1>2 DEF RemovalMove
<1> QED BY <1>1, <1>2, RemovalStepMoves

LEMMA RemovalStaysOK ==
  ASSUME NEW q, RemovalOK(q), RemovalMove(q)
  PROVE  RemovalOK(q)'
<1>1. CASE removal'[q] = removal[q]
  BY <1>1 DEF RemovalOK
<1>2. CASE RemovalGoesOn(q) \/ RemovalLists(q) \/ \E t \in Sandbox : RemovalVisits(q, t)
  BY <1>2 DEF RemovalOK, RemovalGoesOn, RemovalLists, RemovalVisits
<1>3. CASE RemovalStarts(q)
  BY <1>3 DEF RemovalOK, RemovalStarts
<1> QED BY <1>1, <1>2, <1>3 DEF RemovalMove

LEMMA StaysUntouched ==
  ASSUME TypeOK, NEW s \in Sandbox, Untouched(s), row[s] = NoRow,
         \A q \in Remover : RemovalMove(q)
  PROVE  Untouched(s)'
<1> SUFFICES ASSUME NEW q \in Remover PROVE removal'[q].list[s] = NoRow /\ removal'[q].sb # s
  BY DEF Untouched
<1>0. removal[q].list[s] = NoRow /\ removal[q].sb # s /\ removal[q].list \in [Sandbox -> Row]
  BY DEF Untouched, TypeOK, Removal
<1>1. ASSUME NEW t \in Sandbox, RemovalVisits(q, t)
      PROVE  removal'[q].list[s] = NoRow /\ removal'[q].sb # s
  BY <1>0, <1>1 DEF RemovalVisits
<1> QED
  BY <1>0, <1>1 DEF RemovalMove, RemovalGoesOn, RemovalStarts, RemovalLists

LEMMA FinalizeElsewhere ==
  ASSUME TypeOK, NEW w \in Worker, FinalizeStep(w), NEW s \in Sandbox,
         job[w].sb # s \/ JobAccount(w)
  PROVE  row'[s] = row[s] /\ SamePorts(s) /\ UNCHANGED <<sched, removal>>
<1>1. UNCHANGED <<sched, removal>>
  BY DEF FinalizeStep, JobMark, JobLookup, JobCall, JobFailed, JobRelease, JobRemove, JobAccount,
         jobOthers
<1>2. UNCHANGED reserved => SamePorts(s)
  BY DEF SamePorts
<1>3. CASE JobMark(w) \/ JobFailed(w)
  <2>1. job[w].sb # s /\ UNCHANGED reserved /\ UpdateSandboxStatus(job[w].sb, job[w].snap)
    BY <1>3 DEF JobMark, JobFailed, JobAccount
  <2> QED BY <1>1, <1>2, <2>1, UpdateWrites
<1>4. CASE JobLookup(w) \/ JobCall(w) \/ JobAccount(w)
  BY <1>1, <1>2, <1>4 DEF JobLookup, JobCall, JobAccount
<1>5. CASE JobRelease(w)
  <2>1. job[w].sb # s /\ UNCHANGED row /\ reserved' = PortsWithout(reserved, job[w].sb)
    BY <1>5 DEF JobRelease, JobAccount, ReleaseSandboxPorts
  <2> QED BY <1>1, <2>1, ReleaseOne
<1>6. CASE JobRemove(w)
  <2>1. job[w].sb # s /\ DeleteRow(job[w].sb)
    BY <1>6 DEF JobRemove, JobAccount
  <2>2. SamePorts(s)
    BY <2>1, ReleaseOne DEF DeleteRow
  <2>3. row'[s] = row[s]
    BY <2>1 DEF DeleteRow, TypeOK
  <2> QED BY <1>1, <2>2, <2>3
<1> QED BY <1>3, <1>4, <1>5, <1>6 DEF FinalizeStep

\* The steps that touch neither the ports, nor the scheduler, nor a removal.
LEMMA OthersElsewhere ==
  ASSUME TypeOK, NEW s \in Sandbox, ~ CreateSandbox(s),
         \/ SyncTick \/ ReconcileTick \/ \E t \in Sandbox : RefreshIP(t) \/ ReconcileVisit(t)
         \/ \E n \in Node : SyncStep(n) /\ ~ SyncWrites(n, s)
         \/ \E n \in Node : ResourceRead(n) \/ ResourceStore(n)
         \/ Environment /\ ~ Restart /\ ~ \E q \in Remover : RemovalGone(q)
         \/ UNCHANGED vars
  PROVE  row'[s] = row[s] /\ SamePorts(s) /\ UNCHANGED <<sched, removal>>
<1>1. UNCHANGED <<reserved, sched, removal>> => SamePorts(s) /\ UNCHANGED <<sched, removal>>
  BY DEF SamePorts
<1>2. CASE SyncTick \/ ReconcileTick \/ \E t \in Sandbox : ReconcileVisit(t)
  BY <1>1, <1>2 DEF SyncTick, ReconcileTick, ReconcileVisit, syncOthers, jobOthers
<1>3. ASSUME NEW t \in Sandbox, RefreshIP(t)
      PROVE  row'[s] = row[s] /\ SamePorts(s) /\ UNCHANGED <<sched, removal>>
  BY <1>1, <1>3, UpdateWrites DEF RefreshIP
<1>4. ASSUME NEW n \in Node, SyncStep(n), ~ SyncWrites(n, s)
      PROVE  row'[s] = row[s] /\ SamePorts(s) /\ UNCHANGED <<sched, removal>>
  <2>1. UNCHANGED <<reserved, sched, removal>>
    BY <1>4
       DEF SyncStep, SyncLookup, SyncAsk, SyncRead, SyncSwap, SyncTimeout, SyncDone, syncOthers
  <2>2. UNCHANGED row \/ SyncSwap(n)
    BY <1>4 DEF SyncStep, SyncLookup, SyncAsk, SyncRead, SyncTimeout, SyncDone
  <2>3. SyncSwap(n) => row'[s] = row[s]
    BY <1>4 DEF SyncSwap, SyncWrites, Prepared, TypeOK
  <2> QED BY <1>1, <2>1, <2>2, <2>3
<1>5. CASE \E n \in Node : ResourceRead(n) \/ ResourceStore(n)
  BY <1>1, <1>5 DEF ResourceRead, ResourceStore, dbVars
<1>6. ASSUME NEW t \in Sandbox, CreateSandbox(t)
      PROVE  row'[s] = row[s] /\ SamePorts(s) /\ UNCHANGED <<sched, removal>>
  <2>1. t # s
    BY <1>6
  <2> QED BY <1>1, <1>6, <2>1 DEF CreateSandbox, actors, TypeOK
<1>7. CASE /\ Environment /\ ~ Restart /\ ~ \E q \in Remover : RemovalGone(q)
           /\ ~ \E t \in Sandbox : CreateSandbox(t)
  BY <1>1, <1>7
     DEF Environment, Expire, DeleteRead, ClientGone, RegisterNode, Heartbeat, SbxletReady,
         SbxletRecovers, SbxletBreaks, SbxletRemoves, NodeCreateSandbox, NodeDeleteSandbox,
         dbVars, actors, jobOthers
<1>8. CASE UNCHANGED vars
  BY <1>1, <1>8 DEF vars, dbVars, actors
<1> QED BY <1>2, <1>3, <1>4, <1>5, <1>6, <1>7, <1>8

LEMMA AgreeStays ==
  ASSUME NothingLost, CalmInv, [Next]_vars, NEW s \in Sandbox, ~ CreateSandbox(s), Agree(s)
  PROVE  (Finalizing(s) \/ HasLeft(s) \/ Agree(s))'
<1>0. CopiesOK /\ TypeOK /\ OnceCreated(s) /\ Calm(s)
  BY DEF CalmInv, OnceInv, CopiesOK
<1>1. ~ Restart /\ \A q \in Remover : ~ RemovalGone(q)
  BY <1>0, NothingIsLost
<1>2. UNCHANGED sched /\ Silent(s) => Silent(s)'
  <2> SUFFICES ASSUME UNCHANGED sched, Silent(s) PROVE Silent(s)'
    OBVIOUS
  <2>1. ~ (At(s, {"call"}) /\ sched'.pc = "created")
    BY DEF At
  <2> QED BY <1>0, <2>1, CallOnly, SilentStays
<1>3. CASE row'[s] = row[s] /\ SamePorts(s) /\ UNCHANGED <<sched, removal>>
  BY <1>0, <1>2, <1>3, SameAgree
<1>4. CASE SchedStep
  BY <1>0, <1>4, SchedulerAgrees DEF Calm
<1>5. ASSUME NEW w \in Worker, FinalizeStep(w) PROVE (Finalizing(s) \/ HasLeft(s) \/ Agree(s))'
  <2>1. CASE job[w].sb # s \/ JobAccount(w)
    BY <1>0, <1>3, <1>5, <2>1, FinalizeElsewhere
  <2>2. CASE job[w].sb = s /\ ~ JobAccount(w)
    <3>1. job[w].pc \in {"mark", "lookup", "call", "release", "remove"}
      BY <1>5, <2>2
         DEF FinalizeStep, JobMark, JobLookup, JobCall, JobFailed, JobRelease, JobRemove, CalmInv
    <3> QED BY <1>0, <2>2, <3>1, FinalizingGoesOn DEF Finalizing
  <2> QED BY <2>1, <2>2
<1>6. ASSUME NEW p \in Remover, RemovalStep(p) PROVE (Finalizing(s) \/ HasLeft(s) \/ Agree(s))'
  <2>1. CASE RemovalDrop(p) /\ removal[p].sb = s
    BY <1>0, <2>1, DropLeaves DEF RemovalDrop
  <2>2. CASE ~ (RemovalDrop(p) /\ removal[p].sb = s)
    <3>1. \A q \in Remover : RemovalOK(q) /\ RemovalMove(q)
      BY <1>0, RemovalsMove DEF CalmInv
    <3>2. UNCHANGED sched
      BY <1>6
         DEF RemovalStep, RemovalStart, RemovalList, RemovalVisit, RemovalDrop, RemovalCall,
             RemovalDetach, RemovalVisited, RemovalPorts, RemovalNode, removalOthers
    <3> QED BY <1>0, <1>2, <1>6, <2>2, <3>1, <3>2, RemovalStepAgrees
  <2> QED BY <2>1, <2>2
<1>7. ASSUME NEW n \in Node, SyncWrites(n, s) PROVE Agree(s)'
  <2>1. UNCHANGED sched
    BY <1>7 DEF SyncWrites, SyncSwap, syncOthers
  <2> QED BY <1>0, <1>2, <1>7, <2>1, SwapAgrees DEF Calm, At
<1> QED
  BY <1>0, <1>1, <1>3, <1>4, <1>5, <1>6, <1>7, OthersElsewhere
     DEF Next, Orchestrator, ReconcileStep, Worker

LEMMA CreationAgrees ==
  ASSUME TypeOK, NEW s \in Sandbox, CreateSandbox(s), Unheard(s), Untouched(s),
         Finalizing(s) \/ HasLeft(s) \/ Agree(s)
  PROVE  Agree(s)'
<1>1. Unreserved(s)
  BY DEF Unheard, Finalizing, HasLeft, Agree, NoRow
<1>2. row'[s] = PendingRow /\ UNCHANGED <<reserved, sched, removal>>
  BY DEF CreateSandbox, actors, TypeOK
<1>3. ~ Copied(s)' /\ \A pcs : ~ At(s, pcs)'
  BY <1>2 DEF Unheard, Copied, At
<1>4. RowAgrees(s)'
  BY <1>1, <1>2, <1>3 DEF Unheard, RowAgrees, PendingRow, Bare, Within, Unreserved, Holds
<1>5. \A q \in Remover : RemovalAgrees(q, s)'
  BY <1>2 DEF Untouched, RemovalAgrees
<1> QED BY <1>2, <1>3, <1>4, <1>5 DEF Agree, PendingRow

LEMMA StaysCalm ==
  ASSUME NothingLost, CalmInv, [Next]_vars, NEW s \in Sandbox
  PROVE  Calm(s)'
<1>0. CopiesOK /\ TypeOK /\ OnceCreated(s) /\ Calm(s) /\ "create" \notin Routes
  BY DEF CalmInv, OnceInv, CopiesOK, NothingLost
<1>1. creates[s] = 0 => Unheard(s)
  BY DEF CalmInv, OnceInv
<1>2. \A q \in Remover : RemovalMove(q)
  BY <1>0, RemovalsMove
<1>3. creates'[s] = 0 => Untouched(s)'
  <2> SUFFICES ASSUME creates'[s] = 0 PROVE Untouched(s)'
    OBVIOUS
  <2>0. creates[s] \in Nat
    BY <1>0 DEF TypeOK
  <2>1. creates[s] = 0
    BY <1>0, <2>0, CreationsCount
  <2> QED BY <1>0, <1>1, <1>2, <2>1, StaysUntouched DEF Calm, Unheard
<1>4. CASE CreateSandbox(s)
  <2>0. creates[s] < MaxCreates /\ creates[s] \in Nat /\ MaxCreates \in Nat
    BY <1>0, <1>4, CreationsCount, SizeAssumption DEF TypeOK
  <2>1. creates[s] = 0
    BY <2>0 DEF NothingLost
  <2>2. Unheard(s) /\ Untouched(s)
    BY <1>0, <1>1, <2>1 DEF Calm
  <2>3. Agree(s)'
    BY <1>0, <1>4, <2>2, CreationAgrees DEF Calm
  <2>4. Silent(s)'
    BY <1>0, <2>2, UnheardIsSilent, NeverCalled DEF Unheard, At
  <2>5. \A n \in Node : sync'[n].sb # s /\ s \notin sync'[n].batch
    BY <1>4, <2>2 DEF CreateSandbox, actors, Unheard
  <2> QED BY <1>3, <2>3, <2>4, <2>5 DEF Calm, ListedIsPlaced
<1>5. CASE ~ CreateSandbox(s)
  <2>1. (Finalizing(s) \/ HasLeft(s) \/ Agree(s))'
    BY <1>0, <1>5, FinalizingGoesOn, HasLeftStays, AgreeStays DEF Calm
  <2>2. Fresh(s)' \/ At(s, {"refused", "release"})' => Silent(s)'
    BY <1>0, <1>5, StillSilent DEF Calm
  <2>3. ListedIsPlaced(s)'
    BY <1>0, <1>5, ListedStaysPlaced DEF Calm
  <2>4. row'[s].phase = "Pending" => \A n \in Node : sync'[n].sb # s
    BY <1>0, <1>5, SyncStaysPlaced DEF Calm
  <2> QED BY <1>3, <2>1, <2>2, <2>3, <2>4 DEF Calm
<1> QED BY <1>4, <1>5

LEMMA NextCalm == NothingLost /\ CalmInv /\ [Next]_vars => CalmInv'
<1> SUFFICES ASSUME NothingLost, CalmInv, [Next]_vars PROVE CalmInv'
  OBVIOUS
<1>1. TypeOK /\ OnceInv
  BY DEF CalmInv, OnceInv, CopiesOK
<1>2. OnceInv'
  BY <1>1, NextOnce DEF NothingLost
<1>3. \A w \in Worker : job'[w].pc # "failed"
  BY <1>1, NeverFailed DEF CalmInv
<1>4. \A q \in Remover : RemovalOK(q)'
  BY <1>1, RemovalsMove, RemovalStaysOK DEF CalmInv
<1> QED BY <1>2, <1>3, <1>4, StaysCalm DEF CalmInv

LEMMA InitCalm == Init => CalmInv
<1> SUFFICES ASSUME Init PROVE CalmInv
  OBVIOUS
<1>1. OnceInv
  BY InitGone
<1>2. \A w \in Worker : job[w].pc # "failed"
  BY DEF Init, IdleJob
<1>3. \A q \in Remover : RemovalOK(q) /\ \A s \in Sandbox : removal[q].list[s] = NoRow
  BY DEF Init, NewRemoval, RemovalOK
<1>4. ASSUME NEW s \in Sandbox PROVE Calm(s)
  <2>1. HasLeft(s)
    BY NamesAssumption DEF Init, NoRow, HasLeft, Unreserved
  <2>2. Unheard(s) /\ Silent(s)
    BY <1>1, UnheardIsSilent DEF Init, OnceInv
  <2>3. Untouched(s)
    BY NamesAssumption DEF Init, NewRemoval, Untouched
  <2> QED BY <2>1, <2>2, <2>3 DEF Calm, ListedIsPlaced, Unheard
<1> QED BY <1>1, <1>2, <1>3, <1>4 DEF CalmInv

LEMMA CalmMeansPorts == CalmInv => PortsAgree
<1> SUFFICES ASSUME CalmInv, Quiet PROVE PortsAgree
  BY DEF PortsAgree
<1>1. TypeOK /\ sched.pc = "idle"
  BY DEF CalmInv, OnceInv, CopiesOK, Quiet
<1>2. ASSUME NEW s \in Sandbox PROVE HasLeft(s) \/ RowAgrees(s)
  <2>1. ~ Finalizing(s)
    BY DEF Quiet, Finalizing
  <2> QED BY <2>1 DEF CalmInv, Calm, Agree
<1>3. ASSUME NEW n \in Node, NEW p \in HostPort, reserved[<<n, p>>] # NoSandbox
      PROVE  LET s == reserved[<<n, p>>] IN row[s].node = n /\ p \in row[s].ports
  <2>1. reserved[<<n, p>>] \in Sandbox
    BY <1>1, <1>3 DEF TypeOK
  <2> QED BY <1>2, <2>1 DEF HasLeft, Unreserved, RowAgrees, Within
<1>4. ASSUME NEW s \in Sandbox, row[s].phase \in {"Scheduled", "Running"},
             \A q \in Remover : removal[q].node # row[s].node
      PROVE  \A p \in row[s].ports : reserved[<<row[s].node, p>>] = s
  BY <1>2, <1>4 DEF HasLeft, RowAgrees, Holds, Leaving
<1> QED BY <1>3, <1>4 DEF PortsAgree

\* Between operations the reservations and the rows agree, as long as no call is lost and
\* every id is used once: for any numbers of sandboxes, nodes, ports and requests, whatever
\* the loops do in between, and whoever deletes sandboxes or removes their nodes
\* (sandbox_ops.go, scheduleOne and finalizeSandboxDelete; node_ops.go, detachNodeSandboxes).
THEOREM PortsAlwaysAgree ==
  ASSUME NothingLost
  PROVE  Spec => []PortsAgree
BY InitCalm, NextCalm, CalmMeansPorts, PTL DEF Spec

=============================================================================
