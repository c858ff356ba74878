---------------------------- MODULE NodeRegistry ----------------------------
(***************************************************************************)
(* The node registry of sbxorch: the tables nodes, node_status,            *)
(* node_resources and node_externals, the cache that thins out resource    *)
(* writes, and the goroutines that write them - the heartbeat loop, the    *)
(* resource-sync loop (each one goroutine for every node of one list) and  *)
(* the HTTP requests that register and delete nodes and set and delete     *)
(* externals.                                                              *)
(*                                                                         *)
(* One SQL statement or transaction is one step.  node_status and          *)
(* node_resources have no foreign key to nodes, and a probe writes back    *)
(* the whole row it read when it started: the last writer wins.            *)
(***************************************************************************)
EXTENDS Naturals

CONSTANTS
  Node, ExternalId, External,  \* node names, ids and values of External objects
  Usage,                       \* what a node can report about its resources
  ReadyAfter,                  \* ReadySuccessThreshold
  NotReadyAfter,               \* NotReadyFailureThreshold
  Registrar, Remover, Unbinder,\* concurrent requests of each kind
  Loops,                       \* the loops main() started in this instance
  MaxRestarts,                 \* bound: restarts of sbxorch
  NoNode, NoId, NoExternal, NoUsage, NoRow

ASSUME ThresholdAssumption ==
  /\ ReadyAfter \in Nat \ {0}
  /\ NotReadyAfter \in Nat \ {0}
  /\ MaxRestarts \in Nat

ASSUME NamesAssumption ==
  /\ NoNode \notin Node
  /\ NoId \notin ExternalId
  /\ NoExternal \notin External
  /\ NoUsage \notin Usage
  /\ Loops \subseteq {"beat", "usage"}

VARIABLES
  nodes,      \* nodes: the registered names
  status,     \* node_status: state, success streak and failure streak
  resources,  \* node_resources: the stored usage and external
  bound,      \* node_externals: node and value of each external id
  cache,      \* service.resources, in memory
  task,       \* every goroutine: where it is and what it has read
  up,         \* nodes whose sbxlet answers in time
  load,       \* the resource usage each node would report
  proven,     \* successful probes of each node since it was registered (history)
  overtaken,  \* nodes deleted while a probe of theirs was under way (history)
  restarts

tables == <<nodes, status, resources, bound>>
world  == <<up, load>>
history == <<proven, overtaken>>
vars   == <<tables, cache, task, world, history, restarts>>

-----------------------------------------------------------------------------
Worker == ({"beat", "usage"} \X Node) \cup Registrar \cup Remover \cup Unbinder

States    == {"Unknown", "Ready", "NotReady"}
Status    == [state : States, good : 0..ReadyAfter, bad : 0..NotReadyAfter]
Resources == [usage : Usage \cup {NoUsage}, external : External \cup {NoExternal}]
Binding   == [node : Node \cup {NoNode}, value : External \cup {NoExternal}]
Cached    == [current : Usage \cup {NoUsage}, persisted : Usage \cup {NoUsage},
              age : {"never", "fresh", "aged", "old"}]

Pcs  == {"idle", "probe", "beat", "ask", "put", "weigh", "store", "mark",
         "insertStatus", "insertResources", "get",
         "deleteStatus", "deleteNode", "forget", "unbind", "reset"}
Task == [pc : Pcs, node : Node \cup {NoNode}, id : ExternalId \cup {NoId}, snap : Status,
         external : External \cup {NoExternal}, usage : Usage \cup {NoUsage}]

UnknownStatus == [state |-> "Unknown", good |-> 0, bad |-> 0]
NoResources   == [usage |-> NoUsage, external |-> NoExternal]
NoBinding     == [node |-> NoNode, value |-> NoExternal]
Uncached      == [current |-> NoUsage, persisted |-> NoUsage, age |-> "never"]
Idle == [pc |-> "idle", node |-> NoNode, id |-> NoId, snap |-> UnknownStatus,
         external |-> NoExternal, usage |-> NoUsage]

ASSUME RowAssumption == NoRow \notin Status \cup Resources

Become(w, t) == task' = [task EXCEPT ![w] = t]
To(w, pc)    == Become(w, [task[w] EXCEPT !.pc = pc])
End(w)       == Become(w, Idle)

(***************************************************************************)
(* GetNode and ListNodes join the tables; what is missing gets a default,  *)
(* and a binding hides the external column of node_resources.              *)
(***************************************************************************)
StatusOf(n) == IF status[n] = NoRow THEN UnknownStatus ELSE status[n]

Bound(n) == \E e \in ExternalId : bound[e].node = n

ExternalOf(n) ==
  IF Bound(n) THEN bound[CHOOSE e \in ExternalId : bound[e].node = n].value
  ELSE IF resources[n] = NoRow THEN NoExternal ELSE resources[n].external

\* What a goroutine keeps of node n: the heartbeat loop has no use for the
\* external, the resource sync none for the status.
Snapshot(w, n, pc) ==
  [Idle EXCEPT !.pc = pc, !.node = n,
               !.snap = IF pc = "probe" THEN StatusOf(n) ELSE UnknownStatus,
               !.external = IF w = <<"beat", n>> THEN NoExternal ELSE ExternalOf(n)]

-----------------------------------------------------------------------------
(***************************************************************************)
(* The two loops: one list, then a goroutine for each node; the next tick  *)
(* is served when all of them are done (forEachNode).  One after another,  *)
(* or at most HeartbeatMaxParallel at once, is an order of the same steps. *)
(***************************************************************************)
Tick(loop, pc) ==
  /\ loop \in Loops
  /\ nodes # {}
  /\ \A n \in Node : task[<<loop, n>>] = Idle
  /\ task' = [w \in Worker |->
                IF \E n \in nodes : w = <<loop, n>> THEN Snapshot(w, w[2], pc) ELSE task[w]]
  /\ UNCHANGED <<tables, cache, world, history, restarts>>

HeartbeatTick == Tick("beat", "probe")
ResourceTick  == Tick("usage", "ask")

Capped(k, max) == IF k > max THEN max ELSE k

\* (Faulty variant: a node is made ready once, never again.)
SucceededOnce(r) ==
  LET good == Capped(r.good + 1, ReadyAfter)
  IN  [state |-> IF r.state = "Unknown" /\ good >= ReadyAfter THEN "Ready" ELSE r.state,
       good  |-> good,
       bad   |-> 0]

\* (Faulty variant: ready one success early.)
SucceededEarly(r) ==
  LET good == Capped(r.good + 1, ReadyAfter)
  IN  [state |-> IF good + 1 >= ReadyAfter THEN "Ready" ELSE r.state,
       good  |-> good,
       bad   |-> 0]

\* (Faulty variant: the failure streak survives a success.)
SucceededKeepsFailures(r) ==
  LET good == Capped(r.good + 1, ReadyAfter)
  IN  [state |-> IF good >= ReadyAfter THEN "Ready" ELSE r.state,
       good  |-> good,
       bad   |-> r.bad]

\* (Faulty variant: the success streak is not capped.)
SucceededUncapped(r) ==
  [state |-> IF r.good + 1 >= ReadyAfter THEN "Ready" ELSE r.state,
   good  |-> r.good + 1,
   bad   |-> 0]

\* probeNode: the next row after an answer ...
Succeeded(r) ==
  LET good == Capped(r.good + 1, ReadyAfter)
  IN  [state |-> IF good >= ReadyAfter THEN "Ready" ELSE r.state,
       good  |-> good,
       bad   |-> 0]

\* (Faulty variant: one failure more than the threshold is asked for.)
FailedLate(r) ==
  [state |-> IF r.bad + 1 > NotReadyAfter + 1 THEN "NotReady" ELSE r.state,
   good  |-> 0,
   bad   |-> Capped(r.bad + 1, NotReadyAfter)]

\* ... and after none.  The failure streak is not capped in the code; above the
\* threshold its value makes no difference.
Failed(r) ==
  [state |-> IF r.bad + 1 >= NotReadyAfter THEN "NotReady" ELSE r.state,
   good  |-> 0,
   bad   |-> Capped(r.bad + 1, NotReadyAfter)]

\* Healthz of the node, within ProbeTimeout.
Probe(w) ==
  /\ task[w].pc = "probe"
  /\ LET n == task[w].node
     IN  IF n \in up
         THEN /\ Become(w, [task[w] EXCEPT !.pc = "beat", !.snap = Succeeded(@)])
              /\ proven' = [proven EXCEPT ![n] = Capped(@ + 1, ReadyAfter)]
         ELSE /\ Become(w, [task[w] EXCEPT !.pc = "beat", !.snap = Failed(@)])
              /\ UNCHANGED proven
  /\ UNCHANGED <<tables, cache, world, overtaken, restarts>>

Probing(n)  == \E w \in Worker : task[w].node = n /\ task[w].pc \in {"probe", "beat"}
Deleting(n) == \E w \in Remover : task[w].node = n /\ task[w].pc = "deleteNode"

\* UpdateHeartbeat upserts: a row is made for a node that was deleted meanwhile.
\* A registration goes on with the node's resources.
UpdateHeartbeat(w) ==
  /\ task[w].pc = "beat"
  /\ status' = [status EXCEPT ![task[w].node] = task[w].snap]
  /\ overtaken' = overtaken \cup {n \in {task[w].node} : Deleting(n)}
  /\ IF w \in Registrar
     THEN Become(w, [task[w] EXCEPT !.pc = "ask", !.snap = UnknownStatus])
     ELSE End(w)
  /\ UNCHANGED <<nodes, resources, bound, cache, world, proven, restarts>>

-----------------------------------------------------------------------------
(***************************************************************************)
(* syncNodeResources: what the node reports is stored with the external    *)
(* of the goroutine's copy, if the cache finds it is time.                 *)
(***************************************************************************)
NodeStatus(w) ==
  /\ task[w].pc = "ask"
  /\ IF task[w].node \in up
     THEN Become(w, [task[w] EXCEPT !.pc = "put", !.usage = load[task[w].node]])
     ELSE End(w)
  /\ UNCHANGED <<tables, cache, world, history, restarts>>

PutCurrent(w) ==
  /\ task[w].pc = "put"
  /\ cache' = [cache EXCEPT ![task[w].node].current = task[w].usage]
  /\ To(w, "weigh")
  /\ UNCHANGED <<tables, world, history, restarts>>

\* (Faulty variant: unchanged resources are never written again.)
ShouldPersistOnlyChanges(c) ==
  \/ c.age = "never"
  \/ c.age # "fresh" /\ c.current # c.persisted

\* The age of the last write is "fresh" below ResourcePersistMinInt and "old"
\* from ResourcePersistMaxInt on.
ShouldPersist(c) ==
  \/ c.age \in {"never", "old"}
  \/ c.age # "fresh" /\ c.current # c.persisted

Weigh(w) ==
  /\ task[w].pc = "weigh"
  /\ IF ShouldPersist(cache[task[w].node]) THEN To(w, "store") ELSE End(w)
  /\ UNCHANGED <<tables, cache, world, history, restarts>>

UpdateNodeResources(w) ==
  /\ task[w].pc = "store"
  /\ resources' = [resources EXCEPT ![task[w].node] =
                     [usage |-> task[w].usage, external |-> task[w].external]]
  /\ To(w, "mark")
  /\ UNCHANGED <<nodes, status, bound, cache, world, history, restarts>>

MarkPersisted(w) ==
  /\ task[w].pc = "mark"
  /\ cache' = [cache EXCEPT ![task[w].node] =
                 [current |-> task[w].usage, persisted |-> task[w].usage, age |-> "fresh"]]
  /\ End(w)
  /\ UNCHANGED <<tables, world, history, restarts>>

-----------------------------------------------------------------------------
(***************************************************************************)
(* Registration: three upserts, then the node is read, probed and synced.  *)
(***************************************************************************)
RegisterNode(w, n) ==
  /\ task[w] = Idle
  /\ nodes' = nodes \cup {n}
  /\ proven' = IF n \in nodes THEN proven ELSE [proven EXCEPT ![n] = 0]
  /\ Become(w, [Idle EXCEPT !.pc = "insertStatus", !.node = n])
  /\ UNCHANGED <<status, resources, bound, cache, world, overtaken, restarts>>

\* ON CONFLICT DO NOTHING: a row that is there stays.
InsertStatus(w) ==
  /\ task[w].pc = "insertStatus"
  /\ status' = [status EXCEPT ![task[w].node] = StatusOf(task[w].node)]
  /\ To(w, "insertResources")
  /\ UNCHANGED <<nodes, resources, bound, cache, world, history, restarts>>

InsertResources(w) ==
  /\ task[w].pc = "insertResources"
  /\ resources' = [resources EXCEPT ![task[w].node] = IF @ = NoRow THEN NoResources ELSE @]
  /\ To(w, "get")
  /\ UNCHANGED <<nodes, status, bound, cache, world, history, restarts>>

GetNode(w) ==
  /\ task[w].pc = "get"
  /\ IF task[w].node \in nodes
     THEN Become(w, Snapshot(w, task[w].node, "probe"))
     ELSE End(w)
  /\ UNCHANGED <<tables, cache, world, history, restarts>>

(***************************************************************************)
(* Deletion of a node, once its sandboxes are detached: four statements    *)
(* (sandbox_ports is no part of this module) and the cache entry.  The     *)
(* last of them cascades to node_externals.                                *)
(***************************************************************************)
DeleteResources(w, n) ==
  /\ task[w] = Idle
  /\ resources' = [resources EXCEPT ![n] = NoRow]
  /\ Become(w, [Idle EXCEPT !.pc = "deleteStatus", !.node = n])
  /\ UNCHANGED <<nodes, status, bound, cache, world, history, restarts>>

\* (Faulty variant: the status of the node stays behind.)
DeleteStatusForgotten(w) ==
  /\ task[w].pc = "deleteStatus"
  /\ To(w, "deleteNode")
  /\ UNCHANGED <<tables, cache, world, history, restarts>>

DeleteStatus(w) ==
  /\ task[w].pc = "deleteStatus"
  /\ status' = [status EXCEPT ![task[w].node] = NoRow]
  /\ overtaken' = {n \in overtaken : n # task[w].node \/ Probing(n)}
  /\ To(w, "deleteNode")
  /\ UNCHANGED <<nodes, resources, bound, cache, world, proven, restarts>>

\* (Faulty variant: node_externals has no cascade.)
DeleteNodeNoCascade(w) ==
  /\ task[w].pc = "deleteNode"
  /\ nodes' = nodes \ {task[w].node}
  /\ To(w, "forget")
  /\ UNCHANGED <<status, resources, bound, cache, world, history, restarts>>

DeleteNode(w) ==
  /\ task[w].pc = "deleteNode"
  /\ nodes' = nodes \ {task[w].node}
  /\ bound' = [e \in ExternalId |->
                 IF bound[e].node = task[w].node THEN NoBinding ELSE bound[e]]
  /\ overtaken' = overtaken \cup {n \in {task[w].node} : Probing(n)}
  /\ To(w, "forget")
  /\ UNCHANGED <<status, resources, cache, world, proven, restarts>>

ForgetCached(w) ==
  /\ task[w].pc = "forget"
  /\ cache' = [cache EXCEPT ![task[w].node] = Uncached]
  /\ End(w)
  /\ UNCHANGED <<tables, world, history, restarts>>

-----------------------------------------------------------------------------
(***************************************************************************)
(* Externals.  SetNodeExternal is one transaction, refused when the id is  *)
(* bound to another node, the node to another id, or there is no node;     *)
(* DeleteExternal is three statements.                                     *)
(***************************************************************************)
SetNodeExternal(e, n, v) ==
  /\ n \in nodes
  /\ bound[e].node \in {NoNode, n}
  /\ \A f \in ExternalId : bound[f].node = n => f = e
  /\ bound' = [bound EXCEPT ![e] = [node |-> n, value |-> v]]
  /\ resources' = [resources EXCEPT ![n] = IF @ = NoRow THEN @ ELSE [@ EXCEPT !.external = v]]
  /\ UNCHANGED <<nodes, status, cache, task, world, history, restarts>>

LookupExternal(w, e) ==
  /\ task[w] = Idle
  /\ bound[e].node # NoNode
  /\ Become(w, [Idle EXCEPT !.pc = "unbind", !.id = e, !.node = bound[e].node])
  /\ UNCHANGED <<tables, cache, world, history, restarts>>

DeleteExternal(w) ==
  /\ task[w].pc = "unbind"
  /\ bound' = [bound EXCEPT ![task[w].id] = NoBinding]
  /\ To(w, "reset")
  /\ UNCHANGED <<nodes, status, resources, cache, world, history, restarts>>

ResetExternal(w) ==
  /\ task[w].pc = "reset"
  /\ resources' = [resources EXCEPT ![task[w].node] =
                     IF @ = NoRow THEN @ ELSE [@ EXCEPT !.external = NoExternal]]
  /\ End(w)
  /\ UNCHANGED <<nodes, status, bound, cache, world, history, restarts>>

-----------------------------------------------------------------------------
(***************************************************************************)
(* The world around: nodes come and go, their load changes, time passes,   *)
(* clients hang up, the scheduler and deletions adjust the stored usage.   *)
(***************************************************************************)
NodeGoes(n) ==
  /\ up' = IF n \in up THEN up \ {n} ELSE up \cup {n}
  /\ UNCHANGED <<tables, cache, task, load, history, restarts>>

LoadChanges(n, u) ==
  /\ load[n] # u
  /\ load' = [load EXCEPT ![n] = u]
  /\ UNCHANGED <<tables, cache, task, up, history, restarts>>

\* AdjustNodeResourceUsage (SandboxControl): no effect without a row.
AdjustUsage(n, u) ==
  /\ resources[n] # NoRow
  /\ resources[n].usage \notin {NoUsage, u}
  /\ resources' = [resources EXCEPT ![n].usage = u]
  /\ UNCHANGED <<nodes, status, bound, cache, task, world, history, restarts>>

\* A write in the cache becomes older than the two intervals.
CacheAges(n) ==
  /\ cache[n].age \in {"fresh", "aged"}
  /\ cache' = [cache EXCEPT ![n].age = IF @ = "fresh" THEN "aged" ELSE "old"]
  /\ UNCHANGED <<tables, task, world, history, restarts>>

\* The context of a request is cancelled: no later statement of it succeeds.
ClientGone(w) ==
  /\ w \in Registrar \cup Remover \cup Unbinder
  /\ task[w].pc \in {"insertStatus", "insertResources", "get", "probe", "beat", "ask", "store",
                     "deleteStatus", "deleteNode", "unbind", "reset"}
  /\ End(w)
  /\ UNCHANGED <<tables, cache, world, history, restarts>>

\* sbxorch stops and starts again: the tables remain.
Restart ==
  /\ restarts < MaxRestarts
  /\ restarts' = restarts + 1
  /\ task' = [w \in Worker |-> Idle]
  /\ cache' = [n \in Node |-> Uncached]
  /\ UNCHANGED <<tables, world, history>>

-----------------------------------------------------------------------------
Init ==
  /\ nodes = {}
  /\ status = [n \in Node |-> NoRow]
  /\ resources = [n \in Node |-> NoRow]
  /\ bound = [e \in ExternalId |-> NoBinding]
  /\ cache = [n \in Node |-> Uncached]
  /\ task = [w \in Worker |-> Idle]
  /\ up = {}
  /\ load \in [Node -> Usage]
  /\ proven = [n \in Node |-> 0]
  /\ overtaken = {}
  /\ restarts = 0

\* What a goroutine does on its own once it was started.
Step(w) ==
  \/ Probe(w) \/ UpdateHeartbeat(w)
  \/ NodeStatus(w) \/ PutCurrent(w) \/ Weigh(w) \/ UpdateNodeResources(w) \/ MarkPersisted(w)
  \/ InsertStatus(w) \/ InsertResources(w) \/ GetNode(w)
  \/ DeleteStatus(w) \/ DeleteNode(w) \/ ForgetCached(w)
  \/ DeleteExternal(w) \/ ResetExternal(w)

Request ==
  \/ \E n \in Node :
       \/ \E w \in Registrar : RegisterNode(w, n)
       \/ \E w \in Remover : DeleteResources(w, n)
       \/ \E e \in ExternalId, v \in External : SetNodeExternal(e, n, v)
  \/ \E w \in Unbinder, e \in ExternalId : LookupExternal(w, e)
  \/ \E w \in Worker : ClientGone(w)

World ==
  \/ \E n \in Node : NodeGoes(n) \/ CacheAges(n)
  \/ \E n \in Node, u \in Usage : LoadChanges(n, u) \/ AdjustUsage(n, u)
  \/ Restart

Next ==
  \/ HeartbeatTick
  \/ ResourceTick
  \/ \E w \in Worker : Step(w)
  \/ Request
  \/ World

Spec == Init /\ [][Next]_vars

(***************************************************************************)
(* Both loops are tickers in goroutines of their own, every call they make *)
(* has a timeout, and time passes.  Nothing is assumed of requests.        *)
(***************************************************************************)
Fairness ==
  /\ WF_vars(HeartbeatTick)
  /\ WF_vars(ResourceTick)
  /\ \A w \in {"beat", "usage"} \X Node : WF_vars(Step(w))
  /\ \A n \in Node : WF_vars(CacheAges(n))

FairSpec == Spec /\ Fairness

-----------------------------------------------------------------------------
(***************************************************************************)
(* Properties.                                                             *)
(***************************************************************************)
\* Every goroutine's copies; one that is not idle works for a node.
TasksOK ==
  /\ task \in [Worker -> Task]
  /\ \A w \in Worker : task[w].pc # "idle" => task[w].node \in Node
  /\ \A w \in Worker : task[w].pc = "unbind" => task[w].id \in ExternalId

\* Type correctness of the tables, the cache and the goroutines: in particular the
\* success streak never passes the threshold, and no late write makes a row of a
\* wrong shape (repo/node_repo.go migrate, probeNode).
TypeOK ==
  /\ nodes \subseteq Node
  /\ status \in [Node -> Status \cup {NoRow}]
  /\ resources \in [Node -> Resources \cup {NoRow}]
  /\ bound \in [ExternalId -> Binding]
  /\ cache \in [Node -> Cached]
  /\ TasksOK
  /\ up \subseteq Node
  /\ load \in [Node -> Usage]
  /\ proven \in [Node -> Nat]
  /\ overtaken \subseteq Node
  /\ restarts \in Nat

\* A state and streaks that belong together: hysteresis between Ready and NotReady.
Sound(r) ==
  /\ r.state = "Ready" => r.bad < NotReadyAfter
  /\ r.state = "NotReady" => r.good < ReadyAfter
  /\ r.state = "Unknown" => r.bad < NotReadyAfter /\ r.good < ReadyAfter
  /\ r.good = 0 \/ r.bad = 0

\* Whatever probes of a node overlap and overwrite each other, a stored row is one
\* a single sequence of probes could have left: Ready means that the threshold of
\* failures was not reached since, and NotReady that of successes (probeNode).
StreaksAgree == \A n \in Node : status[n] # NoRow => Sound(status[n])

\* A node is Ready only after ReadySuccessThreshold successful probes since it was
\* registered: "Ready: heartbeat success streak reached threshold"
\* (docs/orchestrator.md, Node state; probeNode).  One that is registered again may have
\* the row of a probe that was under way when it was deleted, and of nothing else: the
\* upsert of UpdateHeartbeat makes the row anew, and InsertStatus lets it be.
ReadyIsEarned ==
  \A n \in nodes \ overtaken : StatusOf(n).state = "Ready" => proven[n] >= ReadyAfter

\* An External belongs to a registered node, and no node has two, whatever
\* registrations, deletions and bindings of the same node run at the same time
\* (SetNodeExternal, DeleteNode, schema of node_externals).
BindingsAreSound ==
  \A e \in ExternalId :
    bound[e].node # NoNode =>
      /\ bound[e].node \in nodes
      /\ \A f \in ExternalId : bound[f].node = bound[e].node => f = e

\* A node that stays registered and keeps answering becomes Ready, although registrations
\* of the same node overlap with the heartbeats and overwrite what these stored
\* (probeNode, runHeartbeatOnce).
UpBecomesReady ==
  \A n \in Node :
    <>[](n \in nodes /\ n \in up) => []<>(StatusOf(n).state = "Ready")

\* A node that stays registered and stops answering does not stay Ready.
DownLosesReady ==
  \A n \in Node :
    <>[](n \in nodes /\ n \notin up) => []<>(StatusOf(n).state # "Ready")

\* The usage the scheduler reads catches up with a node whose report no longer
\* changes, although the orchestrator adjusts it and unchanged reports are not
\* written each time (ShouldPersist, syncNodeResources).
UsageConverges ==
  \A n \in Node, u \in Usage :
    <>[](n \in nodes /\ n \in up /\ load[n] = u)
      => []<>(resources[n] # NoRow /\ resources[n].usage = u)
=============================================================================
