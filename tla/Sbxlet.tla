------------------------------- MODULE Sbxlet -------------------------------
(***************************************************************************)
(* The sandbox service of sbxlet on one node: create requests and the      *)
(* goroutines that provision what they accepted, delete requests, and the  *)
(* reconcile passes (the loop, and POST /v1/reconcile), over the state     *)
(* files, the pods of the container runtime and the DNAT rules.            *)
(*                                                                         *)
(* Requests and provisioning take flocks: one for each sandbox, "_ports"   *)
(* and "_admission".  A reconcile pass takes none: it works on the copies  *)
(* of one listing, while the files change.                                 *)
(***************************************************************************)
EXTENDS Naturals, FiniteSets

CONSTANTS
  Sandbox,
  Key,          \* published (host port, protocol) pairs: <<port, protocol>>
  Ports,        \* Ports[s] \subseteq Key: what a create request of s publishes
  Capacity,     \* sandboxes that fit: resources and addresses of the subnet
  Hits,         \* ReconcileHits
  Creator,      \* create requests, each served once; its pod goes by its name
  Deleter,      \* delete requests, each served once
  Reconciler,   \* reconcile passes
  Loop,         \* those of them that are the loop, and start over
  Faults,       \* kinds of faults that happen in this instance
  MaxFaults,    \* bound: faults
  MaxCrashes,   \* bound: stops of sbxlet with whatever was in progress
  NoSandbox, NoPod, Nobody

Provisioner == {"provision"} \X Creator
Worker == Creator \cup Deleter \cup Reconciler \cup Provisioner
Lock   == Sandbox \cup {"_ports", "_admission"}

ASSUME NamesAssumption ==
  /\ NoSandbox \notin Sandbox /\ NoPod \notin Creator /\ Nobody \notin Worker
  /\ {"_ports", "_admission"} \cap Sandbox = {}

ASSUME WorkersAssumption ==
  /\ Creator \cap (Deleter \cup Reconciler \cup Provisioner) = {}
  /\ Deleter \cap (Reconciler \cup Provisioner) = {}
  /\ Reconciler \cap Provisioner = {}
  /\ Loop \subseteq Reconciler

ASSUME SizeAssumption ==
  /\ IsFiniteSet(Sandbox)
  /\ Ports \in [Sandbox -> SUBSET Key]
  /\ {Capacity, Hits, MaxFaults, MaxCrashes} \subseteq Nat
  /\ Hits > 0
  /\ Faults \subseteq {"run", "limits", "start", "stop", "exit", "busy", "timeout", "torn"}

VARIABLES
  state,      \* the state files
  pods,       \* pods[s]: the pods of the runtime that carry the id of s
  sick,       \* pods with a container that does not run any more
  dnat,       \* published: <<s, pod>> for the rules of s that lead to that pod
  reserved,   \* reservedPorts: port keys of creations on the way
  lock,       \* who holds the flock of each name
  task,       \* every goroutine
  unhealthy,  \* unhealthySince and unhealthyHits
  faults, crashes

store   == <<state, pods, dnat>>
memory  == <<reserved, lock, unhealthy>>
world   == <<sick, crashes>>
vars    == <<store, memory, task, faults, world>>

-----------------------------------------------------------------------------
\* "corrupt" is a state.json that does not parse; old means created two minutes
\* ago or earlier.
Phases == {"none", "creating", "running", "deleting", "error", "corrupt"}
State  == [phase : Phases, pod : Creator \cup {NoPod}, old : BOOLEAN]

NoState  == [phase |-> "none", pod |-> NoPod, old |-> FALSE]
Corrupt  == [NoState EXCEPT !.phase = "corrupt"]
NewState == [NoState EXCEPT !.phase = "creating"]

Pcs == {"new", "cleanup", "ports", "reserve", "admit", "save",
        "lock", "sweep", "run", "start", "publish", "finish", "fail", "clean", "mark", "note",
        "drop", "remove", "erase",
        "idle", "visit", "expire", "examine", "done"}

Task == [pc : Pcs, sb : Sandbox \cup {NoSandbox}, copy : State, list : [Sandbox -> State],
         todo : SUBSET Sandbox]

NoList == [s \in Sandbox |-> NoState]
At(pc) == [pc |-> pc, sb |-> NoSandbox, copy |-> NoState, list |-> NoList, todo |-> {}]

Patience == [hits : 0..Hits, grace : BOOLEAN]
Forgiven == [hits |-> 0, grace |-> FALSE]

Become(w, t) == task' = [task EXCEPT ![w] = t]
To(w, pc)    == Become(w, [task[w] EXCEPT !.pc = pc])

\* What a request or a provisioning ends with: its locks, and the ports it
\* reserved, are given back.
Unlocked(w) == [l \in Lock |-> IF lock[l] = w THEN Nobody ELSE lock[l]]
Unreserved(s) == [k \in Key |-> IF reserved[k] = s THEN NoSandbox ELSE reserved[k]]

Finish(w) ==
  /\ Become(w, At("done"))
  /\ lock' = Unlocked(w)
  /\ reserved' = IF w \in Creator THEN Unreserved(task[w].sb) ELSE reserved

Fault(kind) == kind \in Faults /\ faults < MaxFaults /\ faults' = faults + 1
NoFault     == UNCHANGED faults

(***************************************************************************)
(* The store.  A listing is made without a lock: os.WriteFile truncates    *)
(* before it writes, and List skips a file it cannot parse.                *)
(***************************************************************************)
SavePcs == {"save", "finish", "fail", "note", "drop", "expire"}

BeingSaved == {s \in Sandbox : \E w \in Worker : task[w].sb = s /\ task[w].pc \in SavePcs}

Listings ==
  LET there == {s \in Sandbox : state[s].phase \notin {"none", "corrupt"}}
  IN  {[s \in Sandbox |-> IF s \in there \ missed THEN state[s] ELSE NoState] :
         missed \in IF "torn" \in Faults THEN SUBSET BeingSaved ELSE {{}}}

Listed(list) == {s \in Sandbox : list[s] # NoState}

Save(s, x) == state' = [state EXCEPT ![s] = x]

\* podSandboxStatus and containerStatus of everything the state names.
Healthy(s, x) == x.pod \in pods[s] \ sick

(***************************************************************************)
(* deleteSandboxRuntimeArtifacts: the pod the copy names, if any, and the  *)
(* DNAT rules tagged with the id.  The runtime's errors are ignored.       *)
(***************************************************************************)
StopPod(s, p) ==
  \/ pods' = [pods EXCEPT ![s] = @ \ {p}] /\ NoFault
  \/ p \in pods[s] /\ Fault("stop") /\ UNCHANGED pods

Unpublish(s) == dnat' = {d \in dnat : d[1] # s}

RemoveArtifacts(s, p) == StopPod(s, p) /\ Unpublish(s)

-----------------------------------------------------------------------------
(***************************************************************************)
(* POST /v1/sandboxes.                                                     *)
(***************************************************************************)
\* acquireSandboxLock gives up after DefaultLockWaitTimeout.
Taken(w, l) == lock' = [lock EXCEPT ![l] = w]

\* An id with a state file is refused; one with a pod is cleaned up first.
CreateBegin(w, s) ==
  /\ task[w].pc = "new"
  /\ lock[s] = Nobody
  /\ IF state[s].phase # "none"
     THEN Become(w, At("done")) /\ UNCHANGED lock
     ELSE /\ Become(w, [At(IF pods[s] = {} THEN "ports" ELSE "cleanup") EXCEPT !.sb = s])
          /\ Taken(w, s)
  /\ UNCHANGED <<store, reserved, unhealthy, faults, world>>

\* cleanupOrphanRuntimeSandbox.
CreateCleanup(w) ==
  /\ task[w].pc = "cleanup"
  /\ LET s == task[w].sb
     IN  /\ IF pods[s] = {} THEN UNCHANGED pods /\ Unpublish(s) /\ NoFault
            ELSE \E p \in pods[s] : RemoveArtifacts(s, p)
         /\ Save(s, IF pods[s] = {} THEN state[s] ELSE NoState)
  /\ To(w, "ports")
  /\ UNCHANGED <<memory, world>>

\* ensureHostPortsAvailable lists the states under "_ports" ...
CreatePorts(w) ==
  /\ task[w].pc = "ports"
  /\ lock["_ports"] = Nobody
  /\ Taken(w, "_ports")
  /\ \E list \in Listings : Become(w, [task[w] EXCEPT !.pc = "reserve", !.list = list])
  /\ UNCHANGED <<store, reserved, unhealthy, faults, world>>

\* ... into a map with one entry, the last one listed, for each port number: a
\* conflict may be hidden by an entry with another protocol ...
InUse(s, list) ==
  {u \in Key \X (Listed(list) \ {s}) : u[1] \in Ports[u[2]]}

MayConflict(s, list) == \E u \in InUse(s, list) : u[1] \in Ports[s]

MustConflict(s, list) ==
  \E k \in Ports[s] :
    LET users == {u \in InUse(s, list) : u[1][1] = k[1]}
    IN  users # {} /\ \A u \in users : u[1] = k

\* ... and then looks at the reservations of this moment.
CreateReserve(w) ==
  /\ task[w].pc = "reserve"
  /\ LET s == task[w].sb
         others == \E k \in Ports[s] : reserved[k] \notin {s, NoSandbox}
     IN  \/ /\ MayConflict(s, task[w].list) \/ others
            /\ Finish(w)
         \/ /\ ~ MustConflict(s, task[w].list) /\ ~ others
            /\ reserved' = [k \in Key |-> IF k \in Ports[s] THEN s ELSE reserved[k]]
            /\ lock' = [lock EXCEPT !["_ports"] = Nobody]
            /\ Become(w, [task[w] EXCEPT !.pc = "admit", !.list = NoList])
  /\ UNCHANGED <<store, unhealthy, faults, world>>

Active(s, list) ==
  {t \in Listed(list) \ {s} : list[t].phase \notin {"deleting", "error"}}

\* (Faulty variant: admission without its lock.)
CreateAdmitUnlocked(w) ==
  /\ task[w].pc = "admit"
  /\ \E list \in Listings :
       IF Cardinality(Active(task[w].sb, list)) < Capacity
       THEN To(w, "save") /\ UNCHANGED <<lock, reserved>>
       ELSE Finish(w)
  /\ UNCHANGED <<store, unhealthy, faults, world>>

\* enforceAdmission and ensureIPCapacity, under "_admission".
CreateAdmit(w) ==
  /\ task[w].pc = "admit"
  /\ lock["_admission"] = Nobody
  /\ \E list \in Listings :
       IF Cardinality(Active(task[w].sb, list)) < Capacity
       THEN To(w, "save") /\ Taken(w, "_admission") /\ UNCHANGED reserved
       ELSE Finish(w)
  /\ UNCHANGED <<store, unhealthy, faults, world>>

\* The state is saved, provisioning goes on in a goroutine, and the request gives
\* back its locks and its reservation.
CreateSave(w) ==
  /\ task[w].pc = "save"
  /\ Save(task[w].sb, NewState)
  /\ task' = [task EXCEPT ![w] = At("done"),
                          ![<<"provision", w>>] = [At("lock") EXCEPT !.sb = task[w].sb]]
  /\ lock' = Unlocked(w)
  /\ reserved' = Unreserved(task[w].sb)
  /\ UNCHANGED <<pods, dnat, unhealthy, faults, world>>

-----------------------------------------------------------------------------
(***************************************************************************)
(* provisionSandbox of the create request p[2].  The phase of the state is *)
(* not looked at: it may be that of a later request for the same id.       *)
(***************************************************************************)
\* (Faulty variant: provisioning without the lock of its sandbox.)
ProvisionBeginUnlocked(p) ==
  /\ task[p].pc = "lock"
  /\ LET s == task[p].sb
     IN  IF state[s].phase \in {"none", "corrupt"}
         THEN Become(p, At("done"))
         ELSE Become(p, [task[p] EXCEPT !.pc = "sweep", !.copy = state[s]])
  /\ UNCHANGED <<store, memory, faults, world>>

ProvisionBegin(p) ==
  /\ task[p].pc = "lock"
  /\ LET s == task[p].sb
     IN  /\ lock[s] = Nobody
         /\ IF state[s].phase \in {"none", "corrupt"}
            THEN Become(p, At("done")) /\ UNCHANGED lock
            ELSE /\ Become(p, [task[p] EXCEPT !.pc = "sweep", !.copy = state[s]])
                 /\ Taken(p, s)
  /\ UNCHANGED <<store, reserved, unhealthy, faults, world>>

\* (Faulty variant: an earlier pod of the id is left alone.)
ProvisionSweepsNothing(p) ==
  /\ task[p].pc = "sweep"
  /\ To(p, "run")
  /\ UNCHANGED <<store, memory, faults, world>>

\* findManagedPodSandboxID: one pod that carries the id is removed.
ProvisionSweep(p) ==
  /\ task[p].pc = "sweep"
  /\ LET s == task[p].sb
     IN  IF pods[s] = {} THEN UNCHANGED <<pods, faults>>
         ELSE \E q \in pods[s] : StopPod(s, q)
  /\ To(p, "run")
  /\ UNCHANGED <<state, dnat, memory, world>>

\* createPodSandboxCRI: when setting the limits fails, the pod is there and
\* nothing names it.
ProvisionRun(p) ==
  /\ task[p].pc = "run"
  /\ LET s == task[p].sb
         made == [pods EXCEPT ![s] = @ \cup {p[2]}]
     IN  \/ NoFault /\ pods' = made
            /\ Become(p, [task[p] EXCEPT !.pc = "start", !.copy.pod = p[2]])
         \/ Fault("run") /\ UNCHANGED pods /\ To(p, "fail")
         \/ Fault("limits") /\ pods' = made /\ To(p, "fail")
  /\ UNCHANGED <<state, dnat, memory, world>>

\* Images, containers, the network policy, and the wait until all run.
ProvisionStart(p) ==
  /\ task[p].pc = "start"
  /\ \/ NoFault /\ To(p, IF Healthy(task[p].sb, task[p].copy) THEN "publish" ELSE "fail")
     \/ Fault("start") /\ To(p, "fail")
  /\ UNCHANGED <<store, memory, world>>

ProvisionPublish(p) ==
  /\ task[p].pc = "publish"
  /\ LET made == dnat \cup {<<task[p].sb, p[2]>>}
     IN  \/ NoFault /\ dnat' = made /\ To(p, "finish")
         \/ Fault("start") /\ dnat' \in {dnat, made} /\ To(p, "fail")
  /\ UNCHANGED <<state, pods, memory, world>>

ProvisionFinish(p) ==
  /\ task[p].pc = "finish"
  /\ Save(task[p].sb, [task[p].copy EXCEPT !.phase = "running"])
  /\ Finish(p)
  /\ UNCHANGED <<pods, dnat, unhealthy, faults, world>>

\* The deferred function of provisionSandboxSync saves the error, then cleans up;
\* markSandboxError loads and saves once more.
ProvisionFail(p) ==
  /\ task[p].pc = "fail"
  /\ Save(task[p].sb, [task[p].copy EXCEPT !.phase = "error"])
  /\ To(p, "clean")
  /\ UNCHANGED <<pods, dnat, memory, faults, world>>

ProvisionClean(p) ==
  /\ task[p].pc = "clean"
  /\ RemoveArtifacts(task[p].sb, task[p].copy.pod)
  /\ To(p, "mark")
  /\ UNCHANGED <<state, memory, world>>

\* markSandboxError, also called without the lock when the lock was not to be had.
ProvisionMark(p) ==
  /\ task[p].pc = "mark"
  /\ LET x == state[task[p].sb]
     IN  IF x.phase \in {"none", "corrupt"}
         THEN Finish(p)
         ELSE /\ Become(p, [task[p] EXCEPT !.pc = "note", !.copy = x])
              /\ UNCHANGED <<lock, reserved>>
  /\ UNCHANGED <<store, unhealthy, faults, world>>

ProvisionNote(p) ==
  /\ task[p].pc = "note"
  /\ Save(task[p].sb, [task[p].copy EXCEPT !.phase = "error"])
  /\ Finish(p)
  /\ UNCHANGED <<pods, dnat, unhealthy, faults, world>>

-----------------------------------------------------------------------------
(***************************************************************************)
(* DELETE /v1/sandboxes/:id.                                               *)
(***************************************************************************)
\* (Faulty variant: a deletion without the lock of its sandbox.)
DeleteBeginUnlocked(w, s) ==
  /\ task[w].pc = "new"
  /\ Become(w, IF state[s].phase \in {"none", "corrupt"} THEN At("done")
               ELSE [At("drop") EXCEPT !.sb = s, !.copy = state[s]])
  /\ UNCHANGED <<store, memory, faults, world>>

DeleteBegin(w, s) ==
  /\ task[w].pc = "new"
  /\ lock[s] = Nobody
  /\ IF state[s].phase \in {"none", "corrupt"}
     THEN /\ Become(w, At("done"))
          /\ reserved' = IF state[s].phase = "none" THEN Unreserved(s) ELSE reserved
          /\ UNCHANGED lock
     ELSE /\ Become(w, [At("drop") EXCEPT !.sb = s, !.copy = state[s]])
          /\ Taken(w, s)
          /\ UNCHANGED reserved
  /\ UNCHANGED <<store, unhealthy, faults, world>>

DeleteMark(w) ==
  /\ w \in Deleter
  /\ task[w].pc = "drop"
  /\ Save(task[w].sb, [task[w].copy EXCEPT !.phase = "deleting"])
  /\ To(w, "remove")
  /\ UNCHANGED <<pods, dnat, memory, faults, world>>

\* deleteSandboxFromState, of a deletion or of a reconcile pass: the artifacts the
\* copy names, then the state file, whatever it says by now.
RemoveSandbox(w) ==
  /\ task[w].pc = "remove"
  /\ RemoveArtifacts(task[w].sb, task[w].copy.pod)
  /\ To(w, "erase")
  /\ UNCHANGED <<state, memory, world>>

EraseState(w) ==
  /\ task[w].pc = "erase"
  /\ LET s == task[w].sb
     IN  /\ Save(s, NoState)
         /\ unhealthy' = [unhealthy EXCEPT ![s] = Forgiven]
         /\ IF w \in Deleter
            THEN Become(w, At("done")) /\ lock' = Unlocked(w) /\ reserved' = Unreserved(s)
            ELSE /\ Become(w, [task[w] EXCEPT !.pc = "visit", !.sb = NoSandbox, !.copy = NoState])
                 /\ UNCHANGED <<lock, reserved>>
  /\ UNCHANGED <<pods, dnat, faults, world>>

-----------------------------------------------------------------------------
(***************************************************************************)
(* ReconcileOnce.                                                          *)
(***************************************************************************)
ReconcileList(w) ==
  /\ task[w].pc = "idle"
  /\ \E list \in Listings :
       Become(w, [At("visit") EXCEPT !.list = list, !.todo = Listed(list)])
  /\ UNCHANGED <<store, memory, faults, world>>

\* (Faulty variant: every sandbox in creation is left alone.)
VisitTargetSparesCreating(x) ==
  IF x.phase \in {"deleting", "creating"} THEN "visit" ELSE "examine"

\* What the listed copy asks for.
VisitTarget(x) ==
  CASE x.phase = "deleting" -> "visit"
    [] x.phase = "creating" -> IF x.old THEN "expire" ELSE "visit"
    [] OTHER -> "examine"

\* The lock is tried and given back: it says nothing of what follows.
ReconcileVisit(w, s) ==
  /\ task[w].pc = "visit"
  /\ s \in task[w].todo
  /\ LET x  == task[w].list[s]
         pc == IF lock[s] # Nobody THEN "visit" ELSE VisitTarget(x)
     IN  Become(w, [task[w] EXCEPT
           !.pc = pc,
           !.todo = @ \ {s},
           !.sb   = IF pc = "visit" THEN NoSandbox ELSE s,
           !.copy = IF pc = "visit" THEN NoState ELSE x])
  /\ UNCHANGED <<store, memory, faults, world>>

NextVisit(w) == Become(w, [task[w] EXCEPT !.pc = "visit", !.sb = NoSandbox, !.copy = NoState])

\* "provisioning timeout"
ReconcileExpire(w) ==
  /\ task[w].pc = "expire"
  /\ Save(task[w].sb, [task[w].copy EXCEPT !.phase = "error"])
  /\ NextVisit(w)
  /\ UNCHANGED <<pods, dnat, memory, faults, world>>

\* (Faulty variant: every finding counts as the first one.)
ShouldFinalizeForgets(u) ==
  [patience |-> [hits |-> 1, grace |-> FALSE], finalize |-> u.grace /\ 1 >= Hits]

\* One more hit; the first one starts the grace period.  Above ReconcileHits the
\* count makes no difference.
ShouldFinalize(u) ==
  LET hits == IF u.hits < Hits THEN u.hits + 1 ELSE u.hits
  IN  [patience |-> [u EXCEPT !.hits = hits],
       finalize |-> u.hits > 0 /\ u.grace /\ hits >= Hits]

ReconcileExamine(w) ==
  /\ task[w].pc = "examine"
  /\ LET s == task[w].sb
         verdict == ShouldFinalize(unhealthy[s])
     IN  IF Healthy(s, task[w].copy)
         THEN NextVisit(w) /\ unhealthy' = [unhealthy EXCEPT ![s] = Forgiven]
         ELSE /\ unhealthy' = [unhealthy EXCEPT ![s] = verdict.patience]
              /\ IF verdict.finalize THEN To(w, "remove") ELSE NextVisit(w)
  /\ UNCHANGED <<store, reserved, lock, faults, world>>

\* DeleteOrphanHostPortDNAT keeps the rules of the sandboxes listed at the start.
ReconcileSweep(w) ==
  /\ task[w].pc = "visit"
  /\ task[w].todo = {}
  /\ dnat' = {d \in dnat : d[1] \in Listed(task[w].list)}
  /\ Become(w, At(IF w \in Loop THEN "idle" ELSE "done"))
  /\ UNCHANGED <<state, pods, memory, faults, world>>

-----------------------------------------------------------------------------
(***************************************************************************)
(* Lock timeouts, containers that exit, time, and crashes.                 *)
(***************************************************************************)
RequestTimeout(w, s) ==
  /\ task[w].pc = "new"
  /\ lock[s] # Nobody
  /\ Fault("busy")
  /\ Become(w, At("done"))
  /\ UNCHANGED <<store, memory, world>>

CreateTimeout(w) ==
  /\ \/ task[w].pc = "ports" /\ lock["_ports"] # Nobody
     \/ task[w].pc = "admit" /\ lock["_admission"] # Nobody
  /\ Fault("busy")
  /\ Finish(w)
  /\ UNCHANGED <<store, unhealthy, world>>

ProvisionTimeout(p) ==
  /\ task[p].pc = "lock"
  /\ lock[task[p].sb] # Nobody
  /\ Fault("timeout")
  /\ To(p, "mark")
  /\ UNCHANGED <<store, memory, world>>

ContainerExits(s, p) ==
  /\ p \in pods[s] \ sick
  /\ Fault("exit")
  /\ sick' = sick \cup {p}
  /\ UNCHANGED <<store, memory, task, crashes>>

\* The wait for a lock ends long before two minutes are over.
Age(s) ==
  /\ state[s].phase = "creating" /\ ~ state[s].old
  /\ \A p \in Provisioner : ~ (task[p].pc = "lock" /\ task[p].sb = s)
  /\ Save(s, [state[s] EXCEPT !.old = TRUE])
  /\ UNCHANGED <<pods, dnat, memory, task, faults, world>>

\* ReconcileGrace has passed since the first hit.
GracePasses(s) ==
  /\ unhealthy[s].hits > 0 /\ ~ unhealthy[s].grace
  /\ unhealthy' = [unhealthy EXCEPT ![s].grace = TRUE]
  /\ UNCHANGED <<store, reserved, lock, task, faults, world>>

\* sbxlet stops and starts again: files, pods and rules remain, a file that was
\* being written may not parse any more.
Crash ==
  /\ crashes < MaxCrashes
  /\ crashes' = crashes + 1
  /\ \E lost \in IF "torn" \in Faults THEN SUBSET BeingSaved ELSE {{}} :
       state' = [s \in Sandbox |-> IF s \in lost THEN Corrupt ELSE state[s]]
  /\ reserved' = [k \in Key |-> NoSandbox]
  /\ lock' = [l \in Lock |-> Nobody]
  /\ unhealthy' = [s \in Sandbox |-> Forgiven]
  /\ task' = [w \in Worker |->
                IF w \in Loop THEN At("idle")
                ELSE IF task[w] \in {At("new"), At("idle")} THEN task[w] ELSE At("done")]
  /\ UNCHANGED <<pods, dnat, sick, faults>>

-----------------------------------------------------------------------------
Init ==
  /\ state = NoList
  /\ pods = [s \in Sandbox |-> {}]
  /\ sick = {}
  /\ dnat = {}
  /\ reserved = [k \in Key |-> NoSandbox]
  /\ lock = [l \in Lock |-> Nobody]
  /\ task = [w \in Worker |->
               At(CASE w \in Creator \cup Deleter -> "new"
                    [] w \in Reconciler -> "idle"
                    [] w \in Provisioner -> "done")]
  /\ unhealthy = [s \in Sandbox |-> Forgiven]
  /\ faults = 0
  /\ crashes = 0

Create(w) ==
  CreateCleanup(w) \/ CreatePorts(w) \/ CreateReserve(w) \/ CreateAdmit(w) \/ CreateSave(w)

Provision(p) ==
  \/ ProvisionBegin(p) \/ ProvisionSweep(p) \/ ProvisionRun(p) \/ ProvisionStart(p)
  \/ ProvisionPublish(p) \/ ProvisionFinish(p)
  \/ ProvisionFail(p) \/ ProvisionClean(p) \/ ProvisionMark(p) \/ ProvisionNote(p)

Delete(w) == DeleteMark(w) \/ RemoveSandbox(w) \/ EraseState(w)

Reconcile(w) ==
  \/ ReconcileList(w) \/ (\E s \in Sandbox : ReconcileVisit(w, s)) \/ ReconcileExpire(w)
  \/ ReconcileExamine(w) \/ RemoveSandbox(w) \/ EraseState(w) \/ ReconcileSweep(w)

Environment ==
  \/ \E s \in Sandbox :
       \/ \E w \in Creator : CreateBegin(w, s)
       \/ \E w \in Deleter : DeleteBegin(w, s)
       \/ \E w \in Creator \cup Deleter : RequestTimeout(w, s)
       \/ \E p \in Creator : ContainerExits(s, p)
       \/ Age(s) \/ GracePasses(s)
  \/ \E w \in Creator : CreateTimeout(w)
  \/ \E p \in Provisioner : ProvisionTimeout(p)
  \/ Crash

Next ==
  \/ \E w \in Creator : Create(w)
  \/ \E p \in Provisioner : Provision(p)
  \/ \E w \in Deleter : Delete(w)
  \/ \E w \in Reconciler : Reconcile(w)
  \/ Environment

Spec == Init /\ [][Next]_vars

(***************************************************************************)
(* A request that was begun goes on, goroutines are scheduled, calls have  *)
(* timeouts, the loop is a ticker, and time passes.                        *)
(***************************************************************************)
Fairness ==
  /\ \A w \in Creator : WF_vars(Create(w))
  /\ \A p \in Provisioner : WF_vars(Provision(p))
  /\ \A w \in Deleter : WF_vars(Delete(w))
  /\ \A w \in Loop : WF_vars(Reconcile(w))
  /\ \A s \in Sandbox : WF_vars(Age(s)) /\ WF_vars(GracePasses(s))

FairSpec == Spec /\ Fairness

-----------------------------------------------------------------------------
(***************************************************************************)
(* Properties.                                                             *)
(***************************************************************************)
\* Steps made with the flock of the sandbox.
LockedPcs == {"cleanup", "ports", "reserve", "admit", "save",
              "sweep", "run", "start", "publish", "finish", "fail", "clean",
              "drop", "remove", "erase"}

BusyPcs == LockedPcs \cup {"lock", "mark", "note", "expire", "examine"}

\* Every goroutine works for a sandbox when it is busy, and what requests and
\* provisioning do, they do with the locks they have to hold.
TasksOK ==
  /\ task \in [Worker -> Task]
  /\ \A w \in Worker : task[w].pc \in BusyPcs => task[w].sb \in Sandbox
  /\ \A w \in Worker \ Reconciler : task[w].pc \in LockedPcs => lock[task[w].sb] = w
  /\ \A w \in Creator :
       /\ task[w].pc = "reserve" => lock["_ports"] = w
       /\ task[w].pc = "save" => lock["_admission"] = w

\* Type correctness of the files, the runtime and the goroutines, with the locks they
\* hold (service.go, reconcile.go, state.go, lock.go).
TypeOK ==
  /\ state \in [Sandbox -> State]
  /\ pods \in [Sandbox -> SUBSET Creator]
  /\ sick \subseteq Creator
  /\ dnat \subseteq Sandbox \X Creator
  /\ reserved \in [Key -> Sandbox \cup {NoSandbox}]
  /\ lock \in [Lock -> Worker \cup {Nobody}]
  /\ TasksOK
  /\ unhealthy \in [Sandbox -> Patience]
  /\ faults \in Nat
  /\ crashes \in Nat

\* The runtime never has two pods for one sandbox, as long as it obeys stop and
\* remove: not when an id is created again while an earlier provisioning of it
\* still waits, nor after a crash or a removal by a reconcile pass that takes no
\* lock (provisionSandbox, createPodSandboxCRI, ReconcileOnce).
AtMostOnePod == \A s \in Sandbox : \A p, q \in pods[s] : p = q

\* While no reconcile pass runs and no lock wait times out, every pod is named by the
\* state file whenever nobody works on the sandbox: a deletion can find it
\* (DeleteSandbox, provisionSandboxSync).
PodsAreNamed ==
  \A s \in Sandbox : lock[s] = Nobody => pods[s] \subseteq {state[s].pod}

\* The promise sbxlet makes of each id to its clients (NodeAgent), kept by requests and
\* provisionings alone: a second creation, a late provisioning and a deletion of one id,
\* in any order, never revive what is being deleted nor accept what is known.  Reconcile
\* passes and markSandboxError without the lock write old copies back
\* (CreateSandbox, provisionSandboxSync, DeleteSandbox).
Agent == INSTANCE NodeAgent WITH
           Id <- Sandbox,
           phase <- [s \in Sandbox |-> IF state[s].phase = "none" THEN "absent"
                                       ELSE state[s].phase]

KeepsItsPromise == Agent!Spec

\* Until a provisioning fails, the sandboxes that are creating or running fit the node:
\* concurrent creations do not both pass admission (createSandbox, "Serialize
\* admission decision + state save").
AdmittedFit ==
  faults = 0 =>
    Cardinality({s \in Sandbox : state[s].phase \in {"creating", "running"}}) <= Capacity

\* Sandboxes that are creating or running publish different host ports: "host port
\* already in use" (docs/sandboxd.md, Error Response; ensureHostPortsAvailable).
DistinctHostPorts ==
  \A s, t \in Sandbox :
    /\ s # t
    /\ {state[s].phase, state[t].phase} \subseteq {"creating", "running"}
    => Ports[s] \cap Ports[t] = {}

\* "Prevent indefinite creating state": provisioning ends, or the reconcile loop
\* turns it into an error, also after a crash (provisionSandbox, ReconcileOnce).
CreatingIsLeft ==
  \A s \in Sandbox : state[s].phase = "creating" ~> state[s].phase # "creating"

\* A sandbox does not stay in error without a pod that runs: the reconcile loop removes
\* it, although its findings are counted anew after a crash and each visit starts from
\* a listing (shouldFinalizeUnhealthy, ReconcileOnce).
Broken(s) == state[s].phase = "error" /\ ~ Healthy(s, state[s])

BrokenIsRemoved == \A s \in Sandbox : Broken(s) ~> ~ Broken(s)
=============================================================================
