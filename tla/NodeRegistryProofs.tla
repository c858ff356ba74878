------------------------- MODULE NodeRegistryProofs -------------------------
(***************************************************************************)
(* Theorems about NodeRegistry for every set of nodes, requests, externals *)
(* and every pair of thresholds.                                           *)
(***************************************************************************)
EXTENDS NodeRegistry, TLAPS

-----------------------------------------------------------------------------
(* What the joins and the two transitions of probeNode return.             *)

LEMMA StatusOfType ==
  ASSUME TypeOK, NEW n \in Node
  PROVE  StatusOf(n) \in Status
BY ThresholdAssumption DEF TypeOK, StatusOf, UnknownStatus, Status, States

LEMMA ExternalOfType ==
  ASSUME TypeOK, NEW n \in Node
  PROVE  ExternalOf(n) \in External \cup {NoExternal}
<1>1. CASE Bound(n)
  BY <1>1 DEF TypeOK, Bound, ExternalOf, Binding
<1>2. CASE ~ Bound(n)
  BY <1>2 DEF TypeOK, Bound, ExternalOf, Resources
<1> QED BY <1>1, <1>2

LEMMA IdleType == Idle \in Task
BY ThresholdAssumption DEF Idle, Task, Pcs, UnknownStatus, Status, States

LEMMA SnapshotType ==
  ASSUME TypeOK, NEW n \in Node, NEW w, NEW pc \in Pcs
  PROVE  /\ Snapshot(w, n, pc) \in Task
         /\ Snapshot(w, n, pc).pc = pc
         /\ Snapshot(w, n, pc).node = n
BY IdleType, StatusOfType, ExternalOfType, ThresholdAssumption
   DEF Snapshot, Idle, Task, UnknownStatus, Status, States

LEMMA SucceededType ==
  ASSUME NEW r \in Status
  PROVE  Succeeded(r) \in Status
BY ThresholdAssumption DEF Succeeded, Capped, Status, States

LEMMA FailedType ==
  ASSUME NEW r \in Status
  PROVE  Failed(r) \in Status
BY ThresholdAssumption DEF Failed, Capped, Status, States

-----------------------------------------------------------------------------
(* Type correctness.                                                       *)

\* What a step leaves of the goroutine that takes it.
LEMMA BecomeType ==
  ASSUME TasksOK, NEW w \in Worker, NEW t \in Task, Become(w, t),
         t.pc # "idle" => t.node \in Node,
         t.pc = "unbind" => t.id \in ExternalId
  PROVE  TasksOK'
BY DEF TasksOK, Become

LEMMA EndType ==
  ASSUME TasksOK, NEW w \in Worker, End(w)
  PROVE  TasksOK'
BY BecomeType, IdleType DEF End, Idle

LEMMA ToType ==
  ASSUME TasksOK, NEW w \in Worker, NEW pc \in Pcs \ {"idle", "unbind"},
         task[w].pc # "idle", To(w, pc)
  PROVE  TasksOK'
<1> DEFINE t == [task[w] EXCEPT !.pc = pc]
<1>1. t \in Task /\ t.node \in Node /\ t.pc = pc
  BY DEF TasksOK, Task
<1> QED BY <1>1, BecomeType DEF To

LEMMA CappedType ==
  ASSUME NEW k \in Nat, NEW max \in Nat
  PROVE  Capped(k, max) \in 0..max
BY DEF Capped

LEMMA StepType ==
  ASSUME TypeOK, NEW w \in Worker, Step(w)
  PROVE  TypeOK'
<1>0. TasksOK /\ task[w] \in Task
  BY DEF TypeOK, TasksOK
<1>1. CASE Probe(w)
  <2> DEFINE n == task[w].node
             r == task[w].snap
             t(x) == [task[w] EXCEPT !.pc = "beat", !.snap = x]
  <2>1. n \in Node /\ r \in Status
    BY <1>0, <1>1 DEF Probe, TasksOK, Task
  <2>2. \A x \in Status : t(x) \in Task /\ t(x).node = n /\ t(x).pc = "beat"
    BY <1>0 DEF Task, Pcs
  <2>3. Become(w, t(Succeeded(r))) \/ Become(w, t(Failed(r)))
    BY <1>1 DEF Probe
  <2>4. TasksOK'
    BY <1>0, <2>1, <2>2, <2>3, SucceededType, FailedType, BecomeType
  <2>5. proven[n] + 1 \in Nat /\ ReadyAfter \in Nat
    BY <2>1, ThresholdAssumption DEF TypeOK
  <2>6. Capped(proven[n] + 1, ReadyAfter) \in Nat
    BY <2>5 DEF Capped
  <2>7. proven' \in [Node -> Nat]
    BY <1>1, <2>1, <2>6 DEF Probe, TypeOK
  <2> QED
    BY <1>1, <2>4, <2>7 DEF Probe, TypeOK, tables, world, history
<1>2. CASE UpdateHeartbeat(w)
  <2> DEFINE t == [task[w] EXCEPT !.pc = "ask", !.snap = UnknownStatus]
  <2>1. t \in Task /\ t.node \in Node /\ t.pc = "ask"
    BY <1>0, <1>2, IdleType DEF UpdateHeartbeat, TasksOK, Task, Idle, Pcs
  <2>2. Become(w, t) \/ End(w)
    BY <1>2 DEF UpdateHeartbeat
  <2>3. TasksOK'
    BY <1>0, <2>1, <2>2, BecomeType, EndType
  <2>4. task[w].node \in Node
    BY <1>0, <1>2 DEF UpdateHeartbeat, TasksOK
  <2>5. overtaken' \subseteq Node
    BY <1>2, <2>4 DEF UpdateHeartbeat, TypeOK
  <2>6. status' \in [Node -> Status \cup {NoRow}]
    BY <1>0, <1>2, <2>4 DEF UpdateHeartbeat, TypeOK, Task
  <2> QED BY <1>2, <2>3, <2>5, <2>6 DEF UpdateHeartbeat, TypeOK, world
<1>3. CASE NodeStatus(w)
  <2> DEFINE t == [task[w] EXCEPT !.pc = "put", !.usage = load[task[w].node]]
  <2>1. t \in Task /\ t.node \in Node /\ t.pc = "put"
    BY <1>0, <1>3 DEF NodeStatus, TypeOK, TasksOK, Task, Pcs
  <2>2. Become(w, t) \/ End(w)
    BY <1>3 DEF NodeStatus
  <2>3. TasksOK'
    BY <1>0, <2>1, <2>2, BecomeType, EndType
  <2> QED
    BY <1>3, <2>3 DEF NodeStatus, TypeOK, tables, world, history
<1>4. CASE PutCurrent(w)
  <2>1. TasksOK'
    BY <1>0, <1>4, ToType DEF PutCurrent, Pcs
  <2>2. task[w].node \in Node
    BY <1>0, <1>4 DEF PutCurrent, TasksOK
  <2> QED
    BY <1>0, <1>4, <2>1, <2>2
       DEF PutCurrent, TypeOK, tables, world, history, Cached, Task
<1>5. CASE Weigh(w)
  <2>1. TasksOK'
    BY <1>0, <1>5, ToType, EndType DEF Weigh, Pcs
  <2>2. task[w].node \in Node
    BY <1>0, <1>5 DEF Weigh, TasksOK
  <2> QED
    BY <1>0, <1>5, <2>1, <2>2
       DEF Weigh, TypeOK, tables, world, history
<1>6. CASE UpdateNodeResources(w)
  <2>1. TasksOK'
    BY <1>0, <1>6, ToType DEF UpdateNodeResources, Pcs
  <2>2. task[w].node \in Node
    BY <1>0, <1>6 DEF UpdateNodeResources, TasksOK
  <2> QED
    BY <1>0, <1>6, <2>1, <2>2
       DEF UpdateNodeResources, TypeOK, tables, world, history, Resources, Task
<1>7. CASE MarkPersisted(w)
  <2>1. TasksOK'
    BY <1>0, <1>7, EndType DEF MarkPersisted, Pcs
  <2>2. task[w].node \in Node
    BY <1>0, <1>7 DEF MarkPersisted, TasksOK
  <2> QED
    BY <1>0, <1>7, <2>1, <2>2
       DEF MarkPersisted, TypeOK, tables, world, history, Cached, Task
<1>8. CASE InsertStatus(w)
  <2>1. TasksOK'
    BY <1>0, <1>8, ToType DEF InsertStatus, Pcs
  <2>2. task[w].node \in Node
    BY <1>0, <1>8 DEF InsertStatus, TasksOK
  <2> QED
    BY <1>0, <1>8, <2>1, <2>2, StatusOfType
       DEF InsertStatus, TypeOK, tables, world, history
<1>9. CASE InsertResources(w)
  <2>1. TasksOK'
    BY <1>0, <1>9, ToType DEF InsertResources, Pcs
  <2>2. task[w].node \in Node
    BY <1>0, <1>9 DEF InsertResources, TasksOK
  <2> QED
    BY <1>0, <1>9, <2>1, <2>2
       DEF InsertResources, TypeOK, tables, world, history, Resources, NoResources
<1>10. CASE GetNode(w)
  <2> DEFINE t == Snapshot(w, task[w].node, "probe")
  <2>1. task[w].node \in Node
    BY <1>0, <1>10 DEF GetNode, TasksOK
  <2>2. t \in Task /\ t.node \in Node /\ t.pc = "probe"
    BY <2>1, SnapshotType DEF Pcs
  <2>3. Become(w, t) \/ End(w)
    BY <1>10 DEF GetNode
  <2>4. TasksOK'
    BY <1>0, <2>2, <2>3, BecomeType, EndType
  <2> QED
    BY <1>10, <2>4 DEF GetNode, TypeOK, tables, world, history
<1>11. CASE DeleteStatus(w)
  <2>1. TasksOK'
    BY <1>0, <1>11, ToType DEF DeleteStatus, Pcs
  <2>2. task[w].node \in Node
    BY <1>0, <1>11 DEF DeleteStatus, TasksOK
  <2> QED
    BY <1>0, <1>11, <2>1, <2>2
       DEF DeleteStatus, TypeOK, tables, world, history
<1>12. CASE DeleteNode(w)
  <2>1. TasksOK'
    BY <1>0, <1>12, ToType DEF DeleteNode, Pcs
  <2>2. task[w].node \in Node
    BY <1>0, <1>12 DEF DeleteNode, TasksOK
  <2> QED
    BY <1>0, <1>12, <2>1, <2>2
       DEF DeleteNode, TypeOK, tables, world, history, Binding, NoBinding
<1>13. CASE ForgetCached(w)
  <2>1. TasksOK'
    BY <1>0, <1>13, EndType DEF ForgetCached, Pcs
  <2>2. task[w].node \in Node
    BY <1>0, <1>13 DEF ForgetCached, TasksOK
  <2> QED
    BY <1>0, <1>13, <2>1, <2>2
       DEF ForgetCached, TypeOK, tables, world, history, Cached, Uncached
<1>14. CASE DeleteExternal(w)
  <2>1. TasksOK'
    BY <1>0, <1>14, ToType DEF DeleteExternal, Pcs
  <2>2. task[w].node \in Node /\ task[w].id \in ExternalId
    BY <1>0, <1>14 DEF DeleteExternal, TasksOK
  <2> QED
    BY <1>0, <1>14, <2>1, <2>2
       DEF DeleteExternal, TypeOK, tables, world, history, Binding, NoBinding
<1>15. CASE ResetExternal(w)
  <2>1. TasksOK'
    BY <1>0, <1>15, EndType DEF ResetExternal, Pcs
  <2>2. task[w].node \in Node
    BY <1>0, <1>15 DEF ResetExternal, TasksOK
  <2> QED
    BY <1>0, <1>15, <2>1, <2>2
       DEF ResetExternal, TypeOK, tables, world, history, Resources
<1> QED BY <1>1, <1>2, <1>3, <1>4, <1>5, <1>6, <1>7, <1>8, <1>9, <1>10, <1>11, <1>12, <1>13, <1>14, <1>15 DEF Step

LEMMA TickType ==
  ASSUME TypeOK, NEW loop \in {"beat", "usage"}, NEW pc \in {"probe", "ask"}, Tick(loop, pc)
  PROVE  TypeOK'
<1>1. \A w \in Worker : task'[w] \in Task /\ (task'[w] = task[w] \/
                          (task'[w].node \in Node /\ task'[w].pc = pc))
  <2> SUFFICES ASSUME NEW w \in Worker
               PROVE  task'[w] \in Task /\ (task'[w] = task[w] \/
                          (task'[w].node \in Node /\ task'[w].pc = pc))
    OBVIOUS
  <2>1. CASE \E n \in nodes : w = <<loop, n>>
    <3>1. PICK n \in nodes : w = <<loop, n>>
      BY <2>1
    <3>2. n \in Node /\ w[2] = n
      BY <3>1 DEF TypeOK
    <3>3. task'[w] = Snapshot(w, n, pc)
      BY <2>1, <3>2 DEF Tick
    <3> QED BY <3>2, <3>3, SnapshotType DEF Pcs
  <2>2. CASE ~ \E n \in nodes : w = <<loop, n>>
    BY <2>2 DEF Tick, TypeOK, TasksOK
  <2> QED BY <2>1, <2>2
<1>2. task' = [w \in Worker |-> task'[w]]
  BY DEF Tick
<1>3. TasksOK'
  BY <1>1, <1>2 DEF TypeOK, TasksOK
<1> QED BY <1>3 DEF Tick, TypeOK, tables, world, history

LEMMA RequestType ==
  ASSUME TypeOK, Request
  PROVE  TypeOK'
<1>0. TasksOK
  BY DEF TypeOK
<1>1. ASSUME NEW n \in Node, NEW w \in Registrar, RegisterNode(w, n)
      PROVE  TypeOK'
  <2> DEFINE t == [Idle EXCEPT !.pc = "insertStatus", !.node = n]
  <2>1. w \in Worker /\ t \in Task /\ t.node \in Node /\ t.pc = "insertStatus"
    BY IdleType DEF Worker, Task, Pcs, Idle
  <2>2. TasksOK'
    BY <1>0, <1>1, <2>1, BecomeType DEF RegisterNode
  <2> QED BY <1>1, <2>2 DEF RegisterNode, TypeOK, world, history
<1>2. ASSUME NEW n \in Node, NEW w \in Remover, DeleteResources(w, n)
      PROVE  TypeOK'
  <2> DEFINE t == [Idle EXCEPT !.pc = "deleteStatus", !.node = n]
  <2>1. w \in Worker /\ t \in Task /\ t.node \in Node /\ t.pc = "deleteStatus"
    BY IdleType DEF Worker, Task, Pcs, Idle
  <2>2. TasksOK'
    BY <1>0, <1>2, <2>1, BecomeType DEF DeleteResources
  <2> QED BY <1>2, <2>2 DEF DeleteResources, TypeOK, world, history
<1>3. ASSUME NEW n \in Node, NEW e \in ExternalId, NEW v \in External, SetNodeExternal(e, n, v)
      PROVE  TypeOK'
  <2>1. TasksOK'
    BY <1>0, <1>3 DEF SetNodeExternal, TasksOK
  <2>2. bound' \in [ExternalId -> Binding]
    BY <1>3 DEF SetNodeExternal, TypeOK, Binding
  <2>3. resources' \in [Node -> Resources \cup {NoRow}]
    BY <1>3 DEF SetNodeExternal, TypeOK, Resources
  <2> QED BY <1>3, <2>1, <2>2, <2>3 DEF SetNodeExternal, TypeOK, world, history
<1>4. ASSUME NEW w \in Unbinder, NEW e \in ExternalId, LookupExternal(w, e)
      PROVE  TypeOK'
  <2> DEFINE t == [Idle EXCEPT !.pc = "unbind", !.id = e, !.node = bound[e].node]
  <2>1. /\ w \in Worker /\ t \in Task /\ t.node \in Node
        /\ t.pc = "unbind" /\ t.id \in ExternalId
    BY <1>4, IdleType DEF LookupExternal, TypeOK, Binding, Worker, Task, Pcs, Idle
  <2>2. TasksOK'
    BY <1>0, <1>4, <2>1, BecomeType DEF LookupExternal
  <2> QED BY <1>4, <2>2 DEF LookupExternal, TypeOK, tables, world, history
<1>5. ASSUME NEW w \in Worker, ClientGone(w)
      PROVE  TypeOK'
  <2>1. TasksOK'
    BY <1>0, <1>5, EndType DEF ClientGone
  <2> QED BY <1>5, <2>1 DEF ClientGone, TypeOK, tables, world, history
<1> QED BY <1>1, <1>2, <1>3, <1>4, <1>5 DEF Request

LEMMA WorldType ==
  ASSUME TypeOK, World
  PROVE  TypeOK'
<1>0. TasksOK
  BY DEF TypeOK
<1>1. ASSUME NEW n \in Node, NodeGoes(n)
      PROVE  TypeOK'
  BY <1>1 DEF NodeGoes, TypeOK, TasksOK, tables, history
<1>2. ASSUME NEW n \in Node, CacheAges(n)
      PROVE  TypeOK'
  BY <1>2 DEF CacheAges, TypeOK, TasksOK, tables, world, history, Cached
<1>3. ASSUME NEW n \in Node, NEW u \in Usage, LoadChanges(n, u)
      PROVE  TypeOK'
  BY <1>3 DEF LoadChanges, TypeOK, TasksOK, tables, history
<1>4. ASSUME NEW n \in Node, NEW u \in Usage, AdjustUsage(n, u)
      PROVE  TypeOK'
  BY <1>4 DEF AdjustUsage, TypeOK, TasksOK, world, history, Resources
<1>5. ASSUME Restart
      PROVE  TypeOK'
  <2>1. task' \in [Worker -> Task] /\ \A w \in Worker : task'[w].pc = "idle"
    BY <1>5, IdleType DEF Restart, Idle
  <2>2. cache' \in [Node -> Cached]
    BY <1>5 DEF Restart, Cached, Uncached
  <2> QED BY <1>5, <2>1, <2>2 DEF Restart, TypeOK, TasksOK, tables, world, history
<1> QED BY <1>1, <1>2, <1>3, <1>4, <1>5 DEF World

LEMMA InitType == Init => TypeOK
<1> SUFFICES ASSUME Init
             PROVE  TypeOK
  OBVIOUS
<1>1. task \in [Worker -> Task] /\ \A w \in Worker : task[w].pc = "idle"
  BY IdleType DEF Init, Idle
<1> QED
  BY <1>1 DEF Init, TypeOK, TasksOK, Binding, NoBinding, Cached, Uncached

LEMMA NextType == TypeOK /\ [Next]_vars => TypeOK'
<1> SUFFICES ASSUME TypeOK, [Next]_vars
             PROVE  TypeOK'
  OBVIOUS
<1>1. CASE HeartbeatTick \/ ResourceTick
  BY <1>1, TickType DEF HeartbeatTick, ResourceTick
<1>2. CASE \E w \in Worker : Step(w)
  BY <1>2, StepType
<1>3. CASE Request
  BY <1>3, RequestType
<1>4. CASE World
  BY <1>4, WorldType
<1>5. CASE UNCHANGED vars
  BY <1>5 DEF vars, tables, world, history, TypeOK, TasksOK
<1> QED BY <1>1, <1>2, <1>3, <1>4, <1>5 DEF Next

\* The tables, the cache and every goroutine's copies are well formed in every
\* reachable state, whatever requests and loops overlap (probeNode, migrate).
THEOREM TypeCorrect == Spec => []TypeOK
BY InitType, NextType, PTL DEF Spec

-----------------------------------------------------------------------------
(* The hysteresis of the node states.  StreaksAgree alone is not inductive: *)
(* a goroutine stores what it computed from a row read earlier, so the      *)
(* copies have to be sound as well.                                         *)

CopiesAgree == \A w \in Worker : Sound(task[w].snap)

StreaksInv == TypeOK /\ StreaksAgree /\ CopiesAgree

LEMMA UnknownSound == Sound(UnknownStatus)
BY ThresholdAssumption DEF Sound, UnknownStatus

LEMMA SucceededSound ==
  ASSUME NEW r \in Status, Sound(r)
  PROVE  Sound(Succeeded(r))
BY ThresholdAssumption DEF Sound, Succeeded, Capped, Status

LEMMA FailedSound ==
  ASSUME NEW r \in Status, Sound(r)
  PROVE  Sound(Failed(r))
BY ThresholdAssumption DEF Sound, Failed, Capped, Status

LEMMA StatusOfSound ==
  ASSUME StreaksAgree, NEW n \in Node
  PROVE  Sound(StatusOf(n))
BY UnknownSound DEF StreaksAgree, StatusOf

LEMMA IdleSound == Sound(Idle.snap)
BY UnknownSound DEF Idle

LEMMA SnapshotSound ==
  ASSUME StreaksAgree, NEW n \in Node, NEW w, NEW pc
  PROVE  Sound(Snapshot(w, n, pc).snap)
BY StatusOfSound, UnknownSound DEF Snapshot, Idle

LEMMA BecomeSound ==
  ASSUME TypeOK, CopiesAgree, NEW w \in Worker, NEW t, Sound(t.snap), Become(w, t)
  PROVE  CopiesAgree'
BY DEF TypeOK, TasksOK, CopiesAgree, Become, Sound

LEMMA EndSound ==
  ASSUME TypeOK, CopiesAgree, NEW w \in Worker, End(w)
  PROVE  CopiesAgree'
BY BecomeSound, IdleSound DEF End

LEMMA ToSound ==
  ASSUME TypeOK, CopiesAgree, NEW w \in Worker, NEW pc, To(w, pc)
  PROVE  CopiesAgree'
<1>1. [task[w] EXCEPT !.pc = pc].snap = task[w].snap
  BY DEF TypeOK, TasksOK, Task
<1> QED BY <1>1, BecomeSound DEF To, CopiesAgree

LEMMA StepSound ==
  ASSUME StreaksInv, NEW w \in Worker, Step(w)
  PROVE  StreaksAgree' /\ CopiesAgree'
<1>0. TypeOK /\ StreaksAgree /\ CopiesAgree /\ task[w] \in Task /\ Sound(task[w].snap)
  BY DEF StreaksInv, TypeOK, TasksOK, CopiesAgree
<1>1. CASE Probe(w)
  <2> DEFINE r == task[w].snap
             t(x) == [task[w] EXCEPT !.pc = "beat", !.snap = x]
  <2>1. r \in Status /\ \A x : t(x).snap = x
    BY <1>0 DEF Task
  <2>2. Become(w, t(Succeeded(r))) \/ Become(w, t(Failed(r)))
    BY <1>1 DEF Probe
  <2>3. CopiesAgree'
    BY <1>0, <2>1, <2>2, SucceededSound, FailedSound, BecomeSound
  <2> QED BY <1>0, <1>1, <2>3 DEF Probe, StreaksAgree, tables
<1>2. CASE UpdateHeartbeat(w)
  <2> DEFINE t == [task[w] EXCEPT !.pc = "ask", !.snap = UnknownStatus]
  <2>1. t.snap = UnknownStatus
    BY <1>0 DEF Task
  <2>2. Become(w, t) \/ End(w)
    BY <1>2 DEF UpdateHeartbeat
  <2>3. CopiesAgree'
    BY <1>0, <2>1, <2>2, UnknownSound, BecomeSound, EndSound
  <2>4. StreaksAgree'
    BY <1>0, <1>2 DEF UpdateHeartbeat, StreaksAgree, TypeOK, Sound
  <2> QED BY <2>3, <2>4
<1>3. CASE InsertStatus(w)
  <2>1. task[w].node \in Node
    BY <1>0, <1>3 DEF InsertStatus, TypeOK, TasksOK
  <2>2. StreaksAgree'
    BY <1>0, <1>3, <2>1, StatusOfSound DEF InsertStatus, StreaksAgree, TypeOK, Sound
  <2> QED BY <1>0, <1>3, <2>2, ToSound DEF InsertStatus
<1>4. CASE DeleteStatus(w)
  <2>1. StreaksAgree'
    BY <1>0, <1>4 DEF DeleteStatus, StreaksAgree, TypeOK, Sound
  <2> QED BY <1>0, <1>4, <2>1, ToSound DEF DeleteStatus
<1>5. CASE GetNode(w)
  <2>1. task[w].node \in Node
    BY <1>0, <1>5 DEF GetNode, TypeOK, TasksOK
  <2>2. Become(w, Snapshot(w, task[w].node, "probe")) \/ End(w)
    BY <1>5 DEF GetNode
  <2>3. CopiesAgree'
    BY <1>0, <2>1, <2>2, SnapshotSound, BecomeSound, EndSound
  <2> QED BY <1>0, <1>5, <2>3 DEF GetNode, StreaksAgree, tables
<1>6. CASE NodeStatus(w)
  <2> DEFINE t == [task[w] EXCEPT !.pc = "put", !.usage = load[task[w].node]]
  <2>1. t.snap = task[w].snap
    BY <1>0 DEF Task
  <2>2. Become(w, t) \/ End(w)
    BY <1>6 DEF NodeStatus
  <2>3. CopiesAgree'
    BY <1>0, <2>1, <2>2, BecomeSound, EndSound
  <2> QED BY <1>0, <1>6, <2>3 DEF NodeStatus, StreaksAgree, tables
<1>7. CASE PutCurrent(w)
  BY <1>0, <1>7, ToSound, EndSound DEF PutCurrent, StreaksAgree, tables
<1>8. CASE Weigh(w)
  BY <1>0, <1>8, ToSound, EndSound DEF Weigh, StreaksAgree, tables
<1>9. CASE UpdateNodeResources(w)
  BY <1>0, <1>9, ToSound, EndSound DEF UpdateNodeResources, StreaksAgree, tables
<1>10. CASE MarkPersisted(w)
  BY <1>0, <1>10, ToSound, EndSound DEF MarkPersisted, StreaksAgree, tables
<1>11. CASE InsertResources(w)
  BY <1>0, <1>11, ToSound, EndSound DEF InsertResources, StreaksAgree, tables
<1>12. CASE DeleteNode(w)
  BY <1>0, <1>12, ToSound, EndSound DEF DeleteNode, StreaksAgree, tables
<1>13. CASE ForgetCached(w)
  BY <1>0, <1>13, ToSound, EndSound DEF ForgetCached, StreaksAgree, tables
<1>14. CASE DeleteExternal(w)
  BY <1>0, <1>14, ToSound, EndSound DEF DeleteExternal, StreaksAgree, tables
<1>15. CASE ResetExternal(w)
  BY <1>0, <1>15, ToSound, EndSound DEF ResetExternal, StreaksAgree, tables
<1> QED
  BY <1>1, <1>2, <1>3, <1>4, <1>5, <1>6, <1>7, <1>8, <1>9, <1>10, <1>11, <1>12, <1>13, <1>14, <1>15 DEF Step

LEMMA TickSound ==
  ASSUME StreaksInv, NEW loop, NEW pc, Tick(loop, pc)
  PROVE  StreaksAgree' /\ CopiesAgree'
<1>1. SUFFICES ASSUME NEW w \in Worker
               PROVE  Sound(task'[w].snap)
  BY DEF Tick, StreaksInv, StreaksAgree, CopiesAgree, tables, Sound
<1>2. CASE \E n \in nodes : w = <<loop, n>>
  <2>1. PICK n \in nodes : w = <<loop, n>>
    BY <1>2
  <2>2. n \in Node /\ w[2] = n
    BY <2>1 DEF StreaksInv, TypeOK
  <2>3. task'[w] = Snapshot(w, n, pc)
    BY <1>2, <2>2 DEF Tick
  <2> QED BY <2>2, <2>3, SnapshotSound DEF StreaksInv
<1>3. CASE ~ \E n \in nodes : w = <<loop, n>>
  BY <1>3 DEF Tick, StreaksInv, CopiesAgree
<1> QED BY <1>2, <1>3

LEMMA RequestSound ==
  ASSUME StreaksInv, Request
  PROVE  StreaksAgree' /\ CopiesAgree'
<1>0. TypeOK /\ StreaksAgree /\ CopiesAgree
  BY DEF StreaksInv
<1>1. ASSUME NEW w \in Worker, NEW t, Become(w, t), t.snap = UnknownStatus, UNCHANGED status
      PROVE  StreaksAgree' /\ CopiesAgree'
  BY <1>0, <1>1, BecomeSound, UnknownSound DEF StreaksAgree
<1>2. ASSUME NEW n \in Node, NEW w \in Registrar, RegisterNode(w, n)
      PROVE  StreaksAgree' /\ CopiesAgree'
  <2>1. [Idle EXCEPT !.pc = "insertStatus", !.node = n].snap = UnknownStatus /\ w \in Worker
    BY DEF Idle, Worker
  <2> QED BY <1>1, <1>2, <2>1 DEF RegisterNode
<1>3. ASSUME NEW n \in Node, NEW w \in Remover, DeleteResources(w, n)
      PROVE  StreaksAgree' /\ CopiesAgree'
  <2>1. [Idle EXCEPT !.pc = "deleteStatus", !.node = n].snap = UnknownStatus /\ w \in Worker
    BY DEF Idle, Worker
  <2> QED BY <1>1, <1>3, <2>1 DEF DeleteResources
<1>4. ASSUME NEW n \in Node, NEW e \in ExternalId, NEW v \in External, SetNodeExternal(e, n, v)
      PROVE  StreaksAgree' /\ CopiesAgree'
  BY <1>0, <1>4 DEF SetNodeExternal, StreaksAgree, CopiesAgree
<1>5. ASSUME NEW w \in Unbinder, NEW e \in ExternalId, LookupExternal(w, e)
      PROVE  StreaksAgree' /\ CopiesAgree'
  <2>1. /\ [Idle EXCEPT !.pc = "unbind", !.id = e, !.node = bound[e].node].snap = UnknownStatus
        /\ w \in Worker
    BY DEF Idle, Worker
  <2> QED BY <1>1, <1>5, <2>1 DEF LookupExternal, tables
<1>6. ASSUME NEW w \in Worker, ClientGone(w)
      PROVE  StreaksAgree' /\ CopiesAgree'
  BY <1>0, <1>6, EndSound DEF ClientGone, StreaksAgree, tables
<1> QED BY <1>2, <1>3, <1>4, <1>5, <1>6 DEF Request

LEMMA WorldSound ==
  ASSUME StreaksInv, World
  PROVE  StreaksAgree' /\ CopiesAgree'
<1>1. status' = status
  BY DEF World, NodeGoes, CacheAges, LoadChanges, AdjustUsage, Restart, tables
<1>2. task' = task \/ task' = [w \in Worker |-> Idle]
  BY DEF World, NodeGoes, CacheAges, LoadChanges, AdjustUsage, Restart
<1>3. StreaksAgree'
  BY <1>1 DEF StreaksInv, StreaksAgree
<1>4. CopiesAgree'
  BY <1>2, IdleSound DEF StreaksInv, CopiesAgree
<1> QED BY <1>3, <1>4

LEMMA StreaksInvNext == StreaksInv /\ [Next]_vars => StreaksInv'
<1> SUFFICES ASSUME StreaksInv, [Next]_vars
             PROVE  StreaksInv'
  OBVIOUS
<1>1. TypeOK'
  BY NextType DEF StreaksInv
<1>2. CASE HeartbeatTick \/ ResourceTick
  BY <1>1, <1>2, TickSound DEF HeartbeatTick, ResourceTick, StreaksInv
<1>3. CASE \E w \in Worker : Step(w)
  BY <1>1, <1>3, StepSound DEF StreaksInv
<1>4. CASE Request
  BY <1>1, <1>4, RequestSound DEF StreaksInv
<1>5. CASE World
  BY <1>1, <1>5, WorldSound DEF StreaksInv
<1>6. CASE UNCHANGED vars
  BY <1>1, <1>6 DEF vars, tables, StreaksInv, StreaksAgree, CopiesAgree
<1> QED BY <1>2, <1>3, <1>4, <1>5, <1>6 DEF Next

LEMMA StreaksInvInit == Init => StreaksInv
<1> SUFFICES ASSUME Init
             PROVE  StreaksInv
  OBVIOUS
<1>1. StreaksAgree
  BY DEF Init, StreaksAgree
<1>2. CopiesAgree
  BY IdleSound DEF Init, CopiesAgree
<1> QED BY <1>1, <1>2, InitType DEF StreaksInv

\* Overlapping probes that overwrite each other's rows never store a state that
\* contradicts its streaks, for any thresholds of at least one (probeNode).
THEOREM StreaksAlwaysAgree == Spec => []StreaksAgree
<1>1. StreaksInv => StreaksAgree
  BY DEF StreaksInv
<1> QED BY <1>1, StreaksInvInit, StreaksInvNext, PTL DEF Spec

-----------------------------------------------------------------------------
(* The bindings: inductive together with their types.                      *)

LEMMA BindingsStep ==
  ASSUME TypeOK, BindingsAreSound, Next
  PROVE  BindingsAreSound'
<1>1. CASE UNCHANGED bound /\ nodes \subseteq nodes'
  BY <1>1 DEF BindingsAreSound
<1>2. ASSUME NEW w \in Worker, DeleteNode(w)
      PROVE  BindingsAreSound'
  BY <1>2 DEF DeleteNode, BindingsAreSound, TypeOK, Binding, NoBinding
<1>3. ASSUME NEW w \in Worker, DeleteExternal(w)
      PROVE  BindingsAreSound'
  BY <1>3 DEF DeleteExternal, BindingsAreSound, TypeOK, Binding, NoBinding
<1>4. ASSUME NEW n \in Node, NEW e \in ExternalId, NEW v \in External, SetNodeExternal(e, n, v)
      PROVE  BindingsAreSound'
  BY <1>4, NamesAssumption DEF SetNodeExternal, BindingsAreSound, TypeOK, Binding
<1>5. ASSUME NEW w \in Worker, Step(w)
      PROVE  BindingsAreSound'
  BY <1>1, <1>2, <1>3, <1>5
     DEF Step, Probe, UpdateHeartbeat, NodeStatus, PutCurrent, Weigh, UpdateNodeResources,
         MarkPersisted, InsertStatus, InsertResources, GetNode, DeleteStatus, ForgetCached,
         ResetExternal, tables
<1>6. CASE Request
  BY <1>1, <1>4, <1>6 DEF Request, RegisterNode, DeleteResources, LookupExternal, ClientGone, tables
<1>7. CASE World
  BY <1>1, <1>7 DEF World, NodeGoes, CacheAges, LoadChanges, AdjustUsage, Restart, tables
<1>8. CASE HeartbeatTick \/ ResourceTick
  BY <1>1, <1>8 DEF HeartbeatTick, ResourceTick, Tick, tables
<1> QED BY <1>5, <1>6, <1>7, <1>8 DEF Next

\* An External always belongs to one registered node, and a node has at most one,
\* with registrations, deletions and bindings of the same node under way at the
\* same time (SetNodeExternal, DeleteExternal, DeleteNode).
THEOREM BindingsAlwaysSound == Spec => []BindingsAreSound
<1>1. Init => BindingsAreSound
  BY DEF Init, BindingsAreSound, NoBinding
<1>2. TypeOK /\ BindingsAreSound /\ [Next]_vars => BindingsAreSound'
  BY BindingsStep DEF vars, tables, BindingsAreSound
<1> QED BY <1>1, <1>2, TypeCorrect, PTL DEF Spec

-----------------------------------------------------------------------------
(* What Ready rests on.  A streak and a state are covered by the probes     *)
(* counted since the registration; a node that is gone, or going, has no    *)
(* row to inherit, unless a probe overtook the deletion.                   *)

Earned(r, k) == r.good <= k /\ (r.state = "Ready" => k >= ReadyAfter)

Probes(w, n) == task[w].node = n /\ task[w].pc \in {"probe", "beat"}

History(n) ==
  /\ n \in nodes => /\ Earned(StatusOf(n), proven[n])
                    /\ \A w \in Worker : Probes(w, n) => Earned(task[w].snap, proven[n])
  /\ n \notin nodes => ~ Probing(n)
  /\ n \notin nodes \/ Deleting(n) => Earned(StatusOf(n), 0)

EarnedInv == TypeOK /\ \A n \in Node \ overtaken : History(n)

LEMMA UnknownEarned ==
  ASSUME NEW k \in Nat
  PROVE  Earned(UnknownStatus, k)
BY DEF Earned, UnknownStatus

LEMMA SucceededEarned ==
  ASSUME NEW r \in Status, NEW k \in Nat, Earned(r, k)
  PROVE  Earned(Succeeded(r), Capped(k + 1, ReadyAfter))
BY ThresholdAssumption DEF Earned, Succeeded, Capped, Status

LEMMA FailedEarned ==
  ASSUME NEW r \in Status, NEW k \in Nat, Earned(r, k)
  PROVE  Earned(Failed(r), k)
BY ThresholdAssumption DEF Earned, Failed, Capped, Status

\* One probe more does not take anything from the copies of the others.
LEMMA MoreEarned ==
  ASSUME NEW r \in Status, NEW k \in Nat, Earned(r, k)
  PROVE  Earned(r, Capped(k + 1, ReadyAfter))
BY ThresholdAssumption DEF Earned, Capped, Status

LEMMA NothingEarned ==
  ASSUME NEW r \in Status, NEW k \in Nat, Earned(r, 0)
  PROVE  Earned(r, k)
BY ThresholdAssumption DEF Earned, Status

\* A step that writes no row: probes it starts have a copy of a row of the table.
LEMMA HistoryKept ==
  ASSUME EarnedInv, UNCHANGED <<nodes, status, proven, overtaken>>,
         \A w \in Worker, n \in Node \ overtaken : Probes(w, n)' =>
            \/ Probes(w, n) /\ task'[w].snap = task[w].snap
            \/ n \in nodes /\ Earned(task'[w].snap, proven[n]),
         \A w \in Remover, n \in Node :
            task'[w].node = n /\ task'[w].pc = "deleteNode" =>
              task[w].node = n /\ task[w].pc = "deleteNode"
  PROVE  \A n \in (Node \ overtaken)' : History(n)'
<1> SUFFICES ASSUME NEW n \in Node \ overtaken
             PROVE  History(n)'
  OBVIOUS
<1>0. History(n) /\ UNCHANGED StatusOf(n)
  BY DEF EarnedInv, StatusOf
<1>1. (n \in nodes => Earned(StatusOf(n), proven[n]))'
  BY <1>0 DEF History, Earned
<1>2. (n \in nodes => \A w \in Worker : Probes(w, n) => Earned(task[w].snap, proven[n]))'
  BY <1>0 DEF History, Earned
<1>3. (n \notin nodes => ~ Probing(n))'
  BY <1>0 DEF History, Probing, Probes
<1>4. Deleting(n)' => Deleting(n)
  BY DEF Deleting
<1>5. (n \notin nodes \/ Deleting(n) => Earned(StatusOf(n), 0))'
  BY <1>0, <1>4 DEF History, Earned
<1> QED BY <1>1, <1>2, <1>3, <1>5 DEF History

\* ... as when one goroutine goes on with something else than a probe.
LEMMA BecomeKeepsHistory ==
  ASSUME EarnedInv, UNCHANGED <<nodes, status, proven, overtaken>>,
         NEW w \in Worker, NEW t, Become(w, t), t.pc \notin {"probe", "beat", "deleteNode"}
  PROVE  \A n \in (Node \ overtaken)' : History(n)'
<1>1. \A v \in Worker : task'[v] = IF v = w THEN t ELSE task[v]
  BY DEF Become, EarnedInv, TypeOK, TasksOK
<1>2. Remover \subseteq Worker
  BY DEF Worker
<1> QED BY <1>1, <1>2, HistoryKept DEF Probes

LEMMA ToKeepsHistory ==
  ASSUME EarnedInv, UNCHANGED <<nodes, status, proven, overtaken>>,
         NEW w \in Worker, NEW pc \in Pcs \ {"probe", "beat", "deleteNode"}, To(w, pc)
  PROVE  \A n \in (Node \ overtaken)' : History(n)'
<1>1. [task[w] EXCEPT !.pc = pc].pc = pc
  BY DEF EarnedInv, TypeOK, TasksOK, Task
<1> QED BY <1>1, BecomeKeepsHistory DEF To

LEMMA EndKeepsHistory ==
  ASSUME EarnedInv, UNCHANGED <<nodes, status, proven, overtaken>>, NEW w \in Worker, End(w)
  PROVE  \A n \in (Node \ overtaken)' : History(n)'
BY BecomeKeepsHistory DEF End, Idle

LEMMA ProbeEarned ==
  ASSUME EarnedInv, NEW w \in Worker, Probe(w)
  PROVE  \A n \in (Node \ overtaken)' : History(n)'
<1> DEFINE m == task[w].node
           k == Capped(proven[m] + 1, ReadyAfter)
           y == IF m \in up THEN Succeeded(task[w].snap) ELSE Failed(task[w].snap)
           t == [task[w] EXCEPT !.pc = "beat", !.snap = y]
<1>0. /\ TypeOK /\ m \in Node /\ task[w] \in Task /\ task[w].snap \in Status
      /\ \A v \in Worker : task[v].snap \in Status
  BY DEF EarnedInv, TypeOK, TasksOK, Probe, Task
<1> SUFFICES ASSUME NEW n \in Node \ overtaken
             PROVE  History(n)'
  BY DEF Probe
<1>1. /\ History(n) /\ UNCHANGED StatusOf(n) /\ StatusOf(n) \in Status /\ proven[n] \in Nat
  BY <1>0, StatusOfType DEF EarnedInv, Probe, tables, StatusOf, TypeOK
<1>2. /\ \A v \in Worker : v # w => task'[v] = task[v]
      /\ task'[w].pc = "beat" /\ task'[w].node = m /\ task'[w].snap = y
  <2>1. t.pc = "beat" /\ t.node = m /\ t.snap = y
    BY <1>0 DEF Task
  <2>2. Become(w, t)
    BY DEF Probe
  <2> QED BY <1>0, <2>1, <2>2 DEF Become, TypeOK, TasksOK
<1>3. /\ Probing(n)' => Probing(n)
      /\ Deleting(n)' => Deleting(n)
  BY <1>2, <1>0 DEF Probing, Deleting, Probe, Worker
<1>4. UNCHANGED nodes
  BY DEF Probe, tables
<1>5. CASE m # n
  <2>1. proven'[n] = proven[n] /\ \A v \in Worker : Probes(v, n)' => Probes(v, n) /\ task'[v].snap = task[v].snap
    BY <1>0, <1>2, <1>5 DEF Probe, TypeOK, Probes
  <2> QED BY <2>1, <1>1, <1>3, <1>4 DEF History, Earned
<1>6. CASE m = n /\ n \in up
  <2>1. proven'[n] = k /\ task'[w].snap = Succeeded(task[w].snap)
    BY <1>0, <1>2, <1>6 DEF Probe, TypeOK
  <2>2. n \in nodes
    BY <1>1, <1>6 DEF History, Probing, Probe
  <2>3. Earned(StatusOf(n), k) /\ Earned(Succeeded(task[w].snap), k)
    BY <1>0, <1>1, <1>6, <2>2, MoreEarned, SucceededEarned DEF History, Probes, Probe
  <2>4. \A v \in Worker : v # w /\ Probes(v, n) => Earned(task[v].snap, k)
    BY <1>0, <1>1, <1>6, <2>2, MoreEarned DEF History
  <2>5. \A v \in Worker : Probes(v, n)' => Earned(task'[v].snap, k)
    BY <1>2, <2>1, <2>3, <2>4 DEF Probes
  <2> QED BY <1>1, <1>3, <1>4, <2>1, <2>2, <2>3, <2>5 DEF History, Earned
<1>7. CASE m = n /\ n \notin up
  <2>1. proven'[n] = proven[n] /\ task'[w].snap = Failed(task[w].snap)
    BY <1>0, <1>2, <1>7 DEF Probe, TypeOK
  <2>2. n \in nodes
    BY <1>1, <1>7 DEF History, Probing, Probe
  <2>3. Earned(Failed(task[w].snap), proven[n])
    BY <1>0, <1>1, <1>7, <2>2, FailedEarned DEF History, Probes, Probe
  <2>4. \A v \in Worker : Probes(v, n)' => Earned(task'[v].snap, proven[n])
    BY <1>1, <1>2, <2>1, <2>2, <2>3 DEF Probes, History
  <2> QED BY <1>1, <1>3, <1>4, <2>1, <2>2, <2>4 DEF History, Earned
<1> QED BY <1>5, <1>6, <1>7

LEMMA HeartbeatEarned ==
  ASSUME EarnedInv, NEW w \in Worker, UpdateHeartbeat(w)
  PROVE  \A n \in (Node \ overtaken)' : History(n)'
<1> DEFINE m == task[w].node
           t == IF w \in Registrar THEN [task[w] EXCEPT !.pc = "ask", !.snap = UnknownStatus]
                ELSE Idle
<1>0. TypeOK /\ m \in Node /\ task[w] \in Task /\ task[w].snap \in Status
  BY DEF EarnedInv, TypeOK, TasksOK, UpdateHeartbeat, Task
<1>1. Become(w, t) /\ t.pc \notin {"probe", "beat", "deleteNode"}
  BY <1>0 DEF UpdateHeartbeat, End, Idle, Task
<1>2. /\ \A v \in Worker : v # w => task'[v] = task[v]
      /\ task'[w].pc \notin {"probe", "beat", "deleteNode"}
  BY <1>0, <1>1 DEF Become, TypeOK, TasksOK
<1>3. UNCHANGED <<nodes, proven>> /\ overtaken \subseteq overtaken'
  BY DEF UpdateHeartbeat
<1> SUFFICES ASSUME NEW n \in Node, n \notin overtaken'
             PROVE  History(n)'
  OBVIOUS
<1>4. History(n) /\ n \notin overtaken
  BY <1>3 DEF EarnedInv
<1>5. /\ \A v \in Worker : Probes(v, n)' => Probes(v, n) /\ task'[v].snap = task[v].snap
      /\ Probing(n)' => Probing(n)
      /\ Deleting(n)' => Deleting(n)
  BY <1>2 DEF Probes, Probing, Deleting, Worker
<1>6. CASE m # n
  <2>1. StatusOf(n)' = StatusOf(n)
    BY <1>0, <1>6 DEF UpdateHeartbeat, StatusOf, TypeOK
  <2> QED BY <1>3, <1>4, <1>5, <2>1 DEF History, Earned
<1>7. CASE m = n
  <2>1. ~ Deleting(n) /\ n \in nodes /\ Probes(w, n)
    BY <1>4, <1>7 DEF UpdateHeartbeat, History, Probing, Probes
  <2>2. StatusOf(n)' = task[w].snap
    BY <1>0, <1>7, RowAssumption DEF UpdateHeartbeat, StatusOf, TypeOK
  <2> QED BY <1>3, <1>4, <1>5, <2>1, <2>2 DEF History, Earned
<1> QED BY <1>6, <1>7

LEMMA DeleteStatusEarned ==
  ASSUME EarnedInv, NEW w \in Worker, DeleteStatus(w)
  PROVE  \A n \in (Node \ overtaken)' : History(n)'
<1> DEFINE m == task[w].node
           t == [task[w] EXCEPT !.pc = "deleteNode"]
<1>0. TypeOK /\ m \in Node /\ task[w] \in Task
  BY DEF EarnedInv, TypeOK, TasksOK, DeleteStatus
<1>1. Become(w, t) /\ t.pc = "deleteNode" /\ t.node = m
  BY <1>0 DEF DeleteStatus, To, Task
<1>2. /\ \A v \in Worker : v # w => task'[v] = task[v]
      /\ task'[w].pc = "deleteNode" /\ task'[w].node = m
  BY <1>0, <1>1 DEF Become, TypeOK, TasksOK
<1>3. UNCHANGED <<nodes, proven>> /\ status' = [status EXCEPT ![m] = NoRow]
  BY DEF DeleteStatus
<1> SUFFICES ASSUME NEW n \in Node, n \notin overtaken'
             PROVE  History(n)'
  OBVIOUS
<1>4. \A v \in Worker : Probes(v, n)' => Probes(v, n) /\ task'[v].snap = task[v].snap
  BY <1>2 DEF Probes
<1>5. Probing(n)' => Probing(n)
  BY <1>4 DEF Probing, Probes
<1>6. CASE m # n
  <2>1. StatusOf(n)' = StatusOf(n) /\ (Deleting(n)' => Deleting(n))
    BY <1>0, <1>2, <1>3, <1>6 DEF StatusOf, TypeOK, Deleting, Worker
  <2>2. History(n)
    BY <1>6 DEF EarnedInv, DeleteStatus
  <2> QED BY <1>3, <1>4, <1>5, <2>1, <2>2 DEF History, Earned
<1>7. CASE m = n
  <2>1. proven[n] \in Nat /\ StatusOf(n)' = UnknownStatus
    BY <1>0, <1>3, <1>7 DEF StatusOf, TypeOK
  <2>2. Earned(UnknownStatus, proven[n]) /\ Earned(UnknownStatus, 0)
    BY <2>1, UnknownEarned
  <2>3. CASE Probing(n)
    <3>1. History(n)
      BY <1>7, <2>3 DEF EarnedInv, DeleteStatus
    <3> QED BY <1>3, <1>4, <1>5, <2>1, <2>2, <3>1 DEF History, Earned
  <2>4. CASE ~ Probing(n)
    <3>1. \A v \in Worker : ~ Probes(v, n)'
      BY <1>4, <2>4 DEF Probing, Probes
    <3> QED BY <1>3, <1>5, <2>1, <2>2, <2>4, <3>1 DEF History, Earned
  <2> QED BY <2>3, <2>4
<1> QED BY <1>6, <1>7

LEMMA DeleteNodeEarned ==
  ASSUME EarnedInv, NEW w \in Remover, DeleteNode(w)
  PROVE  \A n \in (Node \ overtaken)' : History(n)'
<1> DEFINE m == task[w].node
           t == [task[w] EXCEPT !.pc = "forget"]
<1>0. TypeOK /\ w \in Worker /\ m \in Node /\ task[w] \in Task
  BY DEF EarnedInv, TypeOK, TasksOK, DeleteNode, Worker
<1>1. Become(w, t) /\ t.pc = "forget"
  BY <1>0 DEF DeleteNode, To, Task
<1>2. /\ \A v \in Worker : v # w => task'[v] = task[v]
      /\ task'[w].pc = "forget"
  BY <1>0, <1>1 DEF Become, TypeOK, TasksOK
<1>3. UNCHANGED <<status, proven>> /\ nodes' = nodes \ {m}
  BY DEF DeleteNode
<1> SUFFICES ASSUME NEW n \in Node, n \notin overtaken'
             PROVE  History(n)'
  OBVIOUS
<1>4. /\ \A v \in Worker : Probes(v, n)' => Probes(v, n) /\ task'[v].snap = task[v].snap
      /\ Probing(n)' => Probing(n)
      /\ Deleting(n)' => Deleting(n)
  BY <1>2 DEF Probes, Probing, Deleting, Worker
<1>5. History(n) /\ StatusOf(n)' = StatusOf(n)
  BY <1>3 DEF EarnedInv, DeleteNode, StatusOf
<1>6. CASE m # n
  BY <1>3, <1>4, <1>5, <1>6 DEF History, Earned
<1>7. CASE m = n
  <2>1. ~ Probing(n) /\ Deleting(n)
    BY <1>7 DEF DeleteNode, Deleting
  <2> QED BY <1>3, <1>4, <1>5, <1>7, <2>1 DEF History, Earned
<1> QED BY <1>6, <1>7

LEMMA RegisterEarned ==
  ASSUME EarnedInv, NEW w \in Registrar, NEW m \in Node, RegisterNode(w, m)
  PROVE  \A n \in (Node \ overtaken)' : History(n)'
<1> DEFINE t == [Idle EXCEPT !.pc = "insertStatus", !.node = m]
<1>0. TypeOK /\ w \in Worker /\ task[w] = Idle
  BY DEF EarnedInv, RegisterNode, Worker
<1>1. Become(w, t) /\ t.pc = "insertStatus"
  BY DEF RegisterNode, Idle
<1>2. /\ \A v \in Worker : v # w => task'[v] = task[v]
      /\ task'[w].pc = "insertStatus"
  BY <1>0, <1>1 DEF Become, TypeOK, TasksOK
<1>3. UNCHANGED <<status, overtaken>> /\ nodes' = nodes \cup {m}
  BY DEF RegisterNode
<1> SUFFICES ASSUME NEW n \in Node \ overtaken
             PROVE  History(n)'
  BY <1>3
<1>4. /\ \A v \in Worker : Probes(v, n)' => Probes(v, n) /\ task'[v].snap = task[v].snap
      /\ Probing(n)' => Probing(n)
      /\ Deleting(n)' => Deleting(n)
  BY <1>2 DEF Probes, Probing, Deleting, Worker
<1>5. History(n) /\ StatusOf(n)' = StatusOf(n)
  BY <1>3 DEF EarnedInv, StatusOf
<1>6. CASE m # n \/ n \in nodes
  <2>1. proven'[n] = proven[n]
    BY <1>0, <1>6 DEF RegisterNode, TypeOK
  <2> QED BY <1>3, <1>4, <1>5, <1>6, <2>1 DEF History, Earned
<1>7. CASE m = n /\ n \notin nodes
  <2>1. proven'[n] = 0
    BY <1>0, <1>7 DEF RegisterNode, TypeOK
  <2>2. \A v \in Worker : ~ Probes(v, n)'
    BY <1>4, <1>5, <1>7 DEF History, Probing, Probes
  <2> QED BY <1>3, <1>4, <1>5, <1>7, <2>1, <2>2 DEF History, Earned
<1> QED BY <1>6, <1>7

(* The same for the rest of the steps.                                     *)

LEMMA SnapshotCopies ==
  ASSUME NEW n, NEW w, NEW pc
  PROVE  /\ Snapshot(w, n, pc).pc = pc
         /\ Snapshot(w, n, pc).node = n
         /\ pc = "probe" => Snapshot(w, n, pc).snap = StatusOf(n)
BY DEF Snapshot, Idle

OnlyRemoversDelete ==
  \A w \in Worker : task[w].pc \in {"deleteStatus", "deleteNode"} => w \in Remover

LEMMA StepEarned ==
  ASSUME EarnedInv, OnlyRemoversDelete, NEW w \in Worker, Step(w)
  PROVE  \A n \in (Node \ overtaken)' : History(n)'
<1>0. TypeOK /\ TasksOK /\ task[w] \in Task
  BY DEF EarnedInv, TypeOK, TasksOK
<1>1. CASE Probe(w)
  BY <1>1, ProbeEarned
<1>2. CASE UpdateHeartbeat(w)
  BY <1>2, HeartbeatEarned
<1>3. CASE NodeStatus(w)
  <2> DEFINE t == [task[w] EXCEPT !.pc = "put", !.usage = load[task[w].node]]
  <2>1. t.pc = "put" /\ (Become(w, t) \/ End(w))
    BY <1>0, <1>3 DEF NodeStatus, Task
  <2> QED BY <1>3, <2>1, BecomeKeepsHistory, EndKeepsHistory DEF NodeStatus, tables, history
<1>4. CASE PutCurrent(w)
  BY <1>4, ToKeepsHistory DEF PutCurrent, tables, history, Pcs
<1>5. CASE Weigh(w)
  BY <1>5, ToKeepsHistory, EndKeepsHistory DEF Weigh, tables, history, Pcs
<1>6. CASE UpdateNodeResources(w)
  BY <1>6, ToKeepsHistory DEF UpdateNodeResources, history, Pcs
<1>7. CASE MarkPersisted(w)
  BY <1>7, EndKeepsHistory DEF MarkPersisted, tables, history
<1>8. CASE InsertStatus(w)
  <2>1. task[w].node \in Node
    BY <1>0, <1>8 DEF InsertStatus, TasksOK
  <2>2. \A n \in Node : StatusOf(n)' = StatusOf(n)
    BY <1>0, <1>8, <2>1, StatusOfType, RowAssumption DEF InsertStatus, StatusOf, TypeOK
  <2>3. task'[w].pc = "insertResources" /\ \A v \in Worker : v # w => task'[v] = task[v]
    BY <1>0, <1>8 DEF InsertStatus, To, Become, TasksOK, Task
  <2> SUFFICES ASSUME NEW n \in Node \ overtaken
               PROVE  History(n)'
    BY <1>8 DEF InsertStatus, history
  <2>4. /\ \A v \in Worker : Probes(v, n)' => Probes(v, n) /\ task'[v].snap = task[v].snap
        /\ Probing(n)' => Probing(n)
        /\ Deleting(n)' => Deleting(n)
    BY <2>3 DEF Probes, Probing, Deleting, Worker
  <2> QED BY <1>8, <2>2, <2>4 DEF InsertStatus, history, EarnedInv, History, Earned
<1>9. CASE InsertResources(w)
  BY <1>9, ToKeepsHistory DEF InsertResources, history, Pcs
<1>10. CASE GetNode(w)
  <2> DEFINE m == task[w].node
             t == Snapshot(w, m, "probe")
  <2>1. CASE m \notin nodes
    BY <1>10, <2>1, EndKeepsHistory DEF GetNode, tables, history
  <2>2. CASE m \in nodes
    <3>1. m \in Node /\ Become(w, t) /\ UNCHANGED <<nodes, status, proven, overtaken>>
      BY <1>0, <1>10, <2>2 DEF GetNode, tables, history, TypeOK
    <3>2. t.pc = "probe" /\ t.node = m /\ t.snap = StatusOf(m)
      BY SnapshotCopies
    <3>3. \A v \in Worker : task'[v] = IF v = w THEN t ELSE task[v]
      BY <1>0, <3>1 DEF Become, TasksOK
    <3>4. m \notin overtaken => Earned(StatusOf(m), proven[m])
      BY <2>2, <3>1 DEF EarnedInv, History
    <3>5. \A v \in Worker, n \in Node \ overtaken : Probes(v, n)' =>
            \/ Probes(v, n) /\ task'[v].snap = task[v].snap
            \/ n \in nodes /\ Earned(task'[v].snap, proven[n])
      BY <2>2, <3>2, <3>3, <3>4 DEF Probes
    <3>6. \A v \in Remover, n \in Node :
            task'[v].node = n /\ task'[v].pc = "deleteNode" =>
              task[v].node = n /\ task[v].pc = "deleteNode"
      BY <3>2, <3>3 DEF Worker
    <3> HIDE DEF t
    <3> QED BY <3>1, <3>5, <3>6, HistoryKept
  <2> QED BY <2>1, <2>2
<1>11. CASE DeleteStatus(w)
  BY <1>11, DeleteStatusEarned
<1>12. CASE DeleteNode(w)
  BY <1>12, DeleteNodeEarned DEF OnlyRemoversDelete, DeleteNode
<1>13. CASE ForgetCached(w)
  BY <1>13, EndKeepsHistory DEF ForgetCached, tables, history
<1>14. CASE DeleteExternal(w)
  BY <1>14, ToKeepsHistory DEF DeleteExternal, history, Pcs
<1>15. CASE ResetExternal(w)
  BY <1>15, EndKeepsHistory DEF ResetExternal, history
<1> QED
  BY <1>1, <1>2, <1>3, <1>4, <1>5, <1>6, <1>7, <1>8, <1>9, <1>10, <1>11, <1>12, <1>13, <1>14, <1>15 DEF Step

LEMMA TickEarned ==
  ASSUME EarnedInv, NEW loop \in {"beat", "usage"}, NEW pc \in {"probe", "ask"}, Tick(loop, pc)
  PROVE  \A n \in (Node \ overtaken)' : History(n)'
<1>1. UNCHANGED <<nodes, status, proven, overtaken>>
  BY DEF Tick, tables, history
<1>2. ASSUME NEW w \in Worker
      PROVE  \/ task'[w] = task[w]
             \/ \E n \in nodes : task'[w] = Snapshot(w, n, pc)
  <2>1. CASE \E n \in nodes : w = <<loop, n>>
    BY <2>1 DEF Tick
  <2>2. CASE ~ \E n \in nodes : w = <<loop, n>>
    BY <2>2 DEF Tick
  <2> QED BY <2>1, <2>2
<1>3. ASSUME NEW w \in Worker, NEW m \in nodes
      PROVE  /\ Snapshot(w, m, pc).node = m /\ Snapshot(w, m, pc).pc = pc
             /\ pc = "probe" => Snapshot(w, m, pc).snap = StatusOf(m)
  BY SnapshotCopies
<1>4. \A n \in nodes \ overtaken : Earned(StatusOf(n), proven[n])
  BY DEF EarnedInv, TypeOK, History
<1>5. \A w \in Worker, n \in Node \ overtaken : Probes(w, n)' =>
        \/ Probes(w, n) /\ task'[w].snap = task[w].snap
        \/ n \in nodes /\ Earned(task'[w].snap, proven[n])
  BY <1>2, <1>3, <1>4 DEF Probes
<1>6. \A w \in Remover, n \in Node :
        task'[w].node = n /\ task'[w].pc = "deleteNode" =>
          task[w].node = n /\ task[w].pc = "deleteNode"
  BY <1>2, <1>3 DEF Worker
<1> QED BY <1>1, <1>5, <1>6, HistoryKept

LEMMA RequestEarned ==
  ASSUME EarnedInv, Request
  PROVE  \A n \in (Node \ overtaken)' : History(n)'
<1>1. ASSUME NEW n \in Node, NEW w \in Registrar, RegisterNode(w, n)
      PROVE  \A m \in (Node \ overtaken)' : History(m)'
  BY <1>1, RegisterEarned
<1>2. ASSUME NEW n \in Node, NEW w \in Remover, DeleteResources(w, n)
      PROVE  \A m \in (Node \ overtaken)' : History(m)'
  <2>1. w \in Worker /\ [Idle EXCEPT !.pc = "deleteStatus", !.node = n].pc = "deleteStatus"
    BY DEF Worker, Idle
  <2> QED BY <1>2, <2>1, BecomeKeepsHistory DEF DeleteResources, history
<1>3. ASSUME NEW n \in Node, NEW e \in ExternalId, NEW v \in External, SetNodeExternal(e, n, v)
      PROVE  \A m \in (Node \ overtaken)' : History(m)'
  BY <1>3, HistoryKept DEF SetNodeExternal, history, Probes
<1>4. ASSUME NEW w \in Unbinder, NEW e \in ExternalId, LookupExternal(w, e)
      PROVE  \A m \in (Node \ overtaken)' : History(m)'
  <2>1. w \in Worker /\ [Idle EXCEPT !.pc = "unbind", !.id = e, !.node = bound[e].node].pc = "unbind"
    BY DEF Worker, Idle
  <2> QED BY <1>4, <2>1, BecomeKeepsHistory DEF LookupExternal, tables, history
<1>5. ASSUME NEW w \in Worker, ClientGone(w)
      PROVE  \A m \in (Node \ overtaken)' : History(m)'
  BY <1>5, EndKeepsHistory DEF ClientGone, tables, history
<1> QED BY <1>1, <1>2, <1>3, <1>4, <1>5 DEF Request

LEMMA WorldEarned ==
  ASSUME EarnedInv, World
  PROVE  \A n \in (Node \ overtaken)' : History(n)'
<1>1. UNCHANGED <<nodes, status, proven, overtaken>>
  BY DEF World, NodeGoes, CacheAges, LoadChanges, AdjustUsage, Restart, tables, history
<1>2. task' = task \/ task' = [w \in Worker |-> Idle]
  BY DEF World, NodeGoes, CacheAges, LoadChanges, AdjustUsage, Restart
<1>3. Remover \subseteq Worker /\ Idle.pc = "idle"
  BY DEF Worker, Idle
<1>4. CASE task' = task
  BY <1>1, <1>4, HistoryKept DEF Probes
<1>5. CASE task' = [w \in Worker |-> Idle]
  BY <1>1, <1>3, <1>5, HistoryKept DEF Probes
<1> QED BY <1>2, <1>4, <1>5

LEMMA RemoversNext ==
  ASSUME TypeOK, OnlyRemoversDelete, [Next]_vars
  PROVE  OnlyRemoversDelete'
<1> DEFINE Going(t) == t.pc \in {"deleteStatus", "deleteNode"}
<1>0. TasksOK /\ \A w \in Worker : task[w] \in Task
  BY DEF TypeOK, TasksOK
<1>1. ASSUME NEW w \in Worker, NEW t, Become(w, t), Going(t) => w \in Remover
      PROVE  OnlyRemoversDelete'
  BY <1>0, <1>1 DEF Become, TasksOK, OnlyRemoversDelete
<1>2. ASSUME NEW w \in Worker, NEW pc, To(w, pc), pc \in {"deleteStatus", "deleteNode"} => w \in Remover
      PROVE  OnlyRemoversDelete'
  <2>1. [task[w] EXCEPT !.pc = pc].pc = pc
    BY <1>0 DEF Task
  <2> QED BY <1>1, <1>2, <2>1 DEF To
<1>3. ASSUME NEW w \in Worker, End(w)
      PROVE  OnlyRemoversDelete'
  BY <1>1, <1>3 DEF End, Idle
<1>4. ASSUME NEW w \in Worker, Step(w)
      PROVE  OnlyRemoversDelete'
  <2>1. CASE Probe(w) \/ UpdateHeartbeat(w) \/ NodeStatus(w) \/ GetNode(w)
    <3>1. \A x, y : /\ [task[w] EXCEPT !.pc = "beat", !.snap = x].pc = "beat"
                    /\ [task[w] EXCEPT !.pc = "ask", !.snap = x].pc = "ask"
                    /\ [task[w] EXCEPT !.pc = "put", !.usage = y].pc = "put"
      BY <1>0 DEF Task
    <3>2. Snapshot(w, task[w].node, "probe").pc = "probe"
      BY DEF Snapshot, Idle
    <3> QED BY <1>1, <1>3, <2>1, <3>1, <3>2 DEF Probe, UpdateHeartbeat, NodeStatus, GetNode
  <2>2. CASE PutCurrent(w) \/ Weigh(w) \/ UpdateNodeResources(w) \/ MarkPersisted(w)
    BY <1>2, <1>3, <2>2 DEF PutCurrent, Weigh, UpdateNodeResources, MarkPersisted
  <2>3. CASE InsertStatus(w) \/ InsertResources(w) \/ DeleteExternal(w) \/ ResetExternal(w)
    BY <1>2, <1>3, <2>3 DEF InsertStatus, InsertResources, DeleteExternal, ResetExternal
  <2>4. CASE DeleteStatus(w) \/ DeleteNode(w) \/ ForgetCached(w)
    BY <1>2, <1>3, <2>4 DEF DeleteStatus, DeleteNode, ForgetCached, OnlyRemoversDelete
  <2> QED BY <1>4, <2>1, <2>2, <2>3, <2>4 DEF Step
<1>5. ASSUME NEW loop, NEW pc \in {"probe", "ask"}, Tick(loop, pc)
      PROVE  OnlyRemoversDelete'
  <2>1. \A w \in Worker : task'[w] = task[w] \/ task'[w].pc = pc
    <3> SUFFICES ASSUME NEW w \in Worker
                 PROVE  task'[w] = task[w] \/ task'[w].pc = pc
      OBVIOUS
    <3>1. Snapshot(w, w[2], pc).pc = pc
      BY DEF Snapshot, Idle
    <3> QED BY <1>5, <3>1 DEF Tick
  <2> QED BY <2>1 DEF OnlyRemoversDelete
<1>6. CASE Request
  <2>1. ASSUME NEW w \in Registrar \cup Remover \cup Unbinder, NEW t, Become(w, t),
               Going(t) => w \in Remover
        PROVE  OnlyRemoversDelete'
    BY <1>1, <2>1 DEF Worker
  <2> QED BY <1>3, <1>6, <2>1
      DEF Request, RegisterNode, DeleteResources, SetNodeExternal, LookupExternal, ClientGone,
          OnlyRemoversDelete, Idle
<1>7. CASE World
  <2>1. task' = task \/ task' = [w \in Worker |-> Idle]
    BY <1>7 DEF World, NodeGoes, CacheAges, LoadChanges, AdjustUsage, Restart
  <2> QED BY <2>1 DEF OnlyRemoversDelete, Idle
<1>8. CASE UNCHANGED vars
  BY <1>8 DEF vars, OnlyRemoversDelete
<1> QED BY <1>4, <1>5, <1>6, <1>7, <1>8 DEF Next, HeartbeatTick, ResourceTick

LEMMA EarnedInvNext ==
  ASSUME EarnedInv, OnlyRemoversDelete, [Next]_vars
  PROVE  EarnedInv'
<1>1. TypeOK'
  BY NextType DEF EarnedInv
<1>2. CASE HeartbeatTick \/ ResourceTick
  BY <1>1, <1>2, TickEarned DEF HeartbeatTick, ResourceTick, EarnedInv
<1>3. CASE \E w \in Worker : Step(w)
  BY <1>1, <1>3, StepEarned DEF EarnedInv
<1>4. CASE Request
  BY <1>1, <1>4, RequestEarned DEF EarnedInv
<1>5. CASE World
  BY <1>1, <1>5, WorldEarned DEF EarnedInv
<1>6. CASE UNCHANGED vars
  <2>1. \A n \in (Node \ overtaken)' : History(n)'
    BY <1>6, HistoryKept DEF vars, tables, history, Probes
  <2> QED BY <1>1, <2>1 DEF EarnedInv
<1> QED BY <1>2, <1>3, <1>4, <1>5, <1>6 DEF Next

\* Whatever probes, registrations and deletions of a node overlap, a registered node is
\* Ready only after that many successful probes since its registration, unless a probe
\* was under way when it was deleted (probeNode, RegisterNode, DeleteNode).
THEOREM ReadyIsAlwaysEarned == Spec => []ReadyIsEarned
<1>1. Init => EarnedInv /\ OnlyRemoversDelete
  <2> SUFFICES ASSUME Init
               PROVE  EarnedInv /\ OnlyRemoversDelete
    OBVIOUS
  <2>1. \A n \in Node : History(n)
    BY UnknownEarned DEF Init, History, StatusOf, Probing, Deleting, Idle
  <2> QED BY <2>1, InitType DEF Init, EarnedInv, OnlyRemoversDelete, Idle
<1>2. EarnedInv /\ OnlyRemoversDelete /\ [Next]_vars => (EarnedInv /\ OnlyRemoversDelete)'
  BY EarnedInvNext, RemoversNext DEF EarnedInv
<1>3. EarnedInv => ReadyIsEarned
  BY DEF EarnedInv, TypeOK, History, Earned, ReadyIsEarned
<1> QED BY <1>1, <1>2, <1>3, PTL DEF Spec

=============================================================================
