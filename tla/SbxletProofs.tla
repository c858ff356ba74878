---------------------------- MODULE SbxletProofs ----------------------------
(***************************************************************************)
(* Theorems about Sbxlet for every set of sandboxes, requests, reconcile   *)
(* passes, and every bound on faults and crashes.                          *)
(***************************************************************************)
EXTENDS Sbxlet, TLAPS

-----------------------------------------------------------------------------
(* What the operators of the model return.                                 *)

LEMMA NoStateType == NoState \in State /\ NoList \in [Sandbox -> State]
BY DEF NoState, NoList, State, Phases

LEMMA AtType ==
  ASSUME NEW pc \in Pcs
  PROVE  At(pc) \in Task /\ At(pc).pc = pc
BY NoStateType DEF At, Task

LEMMA ListingsType ==
  ASSUME TypeOK, NEW list \in Listings
  PROVE  list \in [Sandbox -> State] /\ Listed(list) \subseteq Sandbox
BY NoStateType DEF Listings, Listed, TypeOK

LEMMA UnlockedType ==
  ASSUME TypeOK, NEW w \in Worker
  PROVE  /\ Unlocked(w) \in [Lock -> Worker \cup {Nobody}]
         /\ \A l \in Lock : lock[l] \notin {w, Nobody} => Unlocked(w)[l] = lock[l]
BY DEF Unlocked, TypeOK

LEMMA UnreservedType ==
  ASSUME TypeOK, NEW s
  PROVE  Unreserved(s) \in [Key -> Sandbox \cup {NoSandbox}]
BY DEF Unreserved, TypeOK

LEMMA StopPodType ==
  ASSUME TypeOK, NEW s \in Sandbox, NEW p, StopPod(s, p)
  PROVE  pods' \in [Sandbox -> SUBSET Creator] /\ faults' \in Nat
BY DEF StopPod, Fault, NoFault, TypeOK

LEMMA UnpublishType ==
  ASSUME TypeOK, NEW s, Unpublish(s)
  PROVE  dnat' \subseteq Sandbox \X Creator
BY DEF Unpublish, TypeOK

LEMMA SaveType ==
  ASSUME TypeOK, NEW s \in Sandbox, NEW x \in State, Save(s, x)
  PROVE  state' \in [Sandbox -> State]
BY DEF Save, TypeOK

-----------------------------------------------------------------------------
(* Type correctness.                                                       *)

\* What a step leaves of the goroutine that takes it: others keep their locks.
LEMMA BecomeType ==
  ASSUME TypeOK, NEW w \in Worker, NEW t \in Task, Become(w, t),
         \A l \in Lock : lock[l] \notin {w, Nobody} => lock'[l] = lock[l],
         t.pc \in BusyPcs => t.sb \in Sandbox,
         w \notin Reconciler /\ t.pc \in LockedPcs => lock'[t.sb] = w,
         w \in Creator /\ t.pc = "reserve" => lock'["_ports"] = w,
         w \in Creator /\ t.pc = "save" => lock'["_admission"] = w
  PROVE  TasksOK'
<1>0. TasksOK
  BY DEF TypeOK
<1>1. task' \in [Worker -> Task]
  BY <1>0 DEF TasksOK, Become
<1>2. \A v \in Worker : task'[v] = IF v = w THEN t ELSE task[v]
  BY <1>0 DEF TasksOK, Become
<1>3. Nobody \notin Worker /\ Sandbox \subseteq Lock /\ {"_ports", "_admission"} \subseteq Lock
  BY NamesAssumption DEF Lock
<1>4. \A v \in Worker : task'[v].pc \in BusyPcs => task'[v].sb \in Sandbox
  BY <1>0, <1>2 DEF TasksOK
<1>5. ASSUME NEW v \in Worker \ Reconciler, task'[v].pc \in LockedPcs
      PROVE  lock'[task'[v].sb] = v
  <2>1. CASE v = w
    BY <1>2, <1>5, <2>1
  <2>2. CASE v # w
    <3>1. task'[v] = task[v] /\ task[v].sb \in Sandbox /\ lock[task[v].sb] = v
      BY <1>0, <1>2, <1>5, <2>2 DEF TasksOK, BusyPcs
    <3> QED BY <1>3, <2>2, <3>1
  <2> QED BY <2>1, <2>2
<1>6. ASSUME NEW v \in Creator
      PROVE  /\ task'[v].pc = "reserve" => lock'["_ports"] = v
             /\ task'[v].pc = "save" => lock'["_admission"] = v
  <2>1. v \in Worker
    BY DEF Worker
  <2>2. CASE v = w
    BY <1>2, <2>1, <2>2
  <2>3. CASE v # w
    <3>1. task'[v] = task[v]
      BY <1>2, <2>1, <2>3
    <3> QED BY <1>0, <1>3, <2>1, <2>3, <3>1 DEF TasksOK
  <2> QED BY <2>2, <2>3
<1> QED BY <1>1, <1>4, <1>5, <1>6 DEF TasksOK

\* A goroutine that ends.
LEMMA EndType ==
  ASSUME TypeOK, NEW w \in Worker, Become(w, At("done")),
         \A l \in Lock : lock[l] \notin {w, Nobody} => lock'[l] = lock[l]
  PROVE  TasksOK'
<1>1. At("done") \in Task /\ At("done").pc = "done"
  BY AtType DEF Pcs
<1> QED BY <1>1, BecomeType DEF BusyPcs, LockedPcs

LEMMA FinishType ==
  ASSUME TypeOK, NEW w \in Worker, Finish(w)
  PROVE  /\ TasksOK'
         /\ lock' \in [Lock -> Worker \cup {Nobody}]
         /\ reserved' \in [Key -> Sandbox \cup {NoSandbox}]
<1>1. reserved' \in [Key -> Sandbox \cup {NoSandbox}]
  BY UnreservedType DEF Finish, TypeOK
<1> QED BY <1>1, UnlockedType, EndType DEF Finish

\* A goroutine that goes on under the locks it has.
LEMMA ToType ==
  ASSUME TypeOK, NEW w \in Worker, NEW pc \in Pcs, To(w, pc), UNCHANGED lock,
         task[w].pc \in BusyPcs,
         w \notin Reconciler /\ pc \in LockedPcs => task[w].pc \in LockedPcs,
         pc \notin {"reserve", "save"}
  PROVE  TasksOK'
<1> DEFINE t == [task[w] EXCEPT !.pc = pc]
<1>1. t \in Task /\ t.pc = pc /\ t.sb = task[w].sb
  BY DEF TypeOK, TasksOK, Task
<1>2. t.sb \in Sandbox /\ (w \notin Reconciler /\ pc \in LockedPcs => lock[t.sb] = w)
  BY <1>1 DEF TypeOK, TasksOK
<1> QED BY <1>1, <1>2, BecomeType DEF To

\* A goroutine that turns to another record while it holds what it held.
LEMMA TurnType ==
  ASSUME TypeOK, NEW w \in Worker, NEW t \in Task, Become(w, t), UNCHANGED lock,
         t.pc \in BusyPcs => t.sb \in Sandbox,
         w \notin Reconciler /\ t.pc \in LockedPcs =>
           task[w].pc \in LockedPcs /\ t.sb = task[w].sb,
         t.pc \notin {"reserve", "save"}
  PROVE  TasksOK'
<1>1. w \notin Reconciler /\ t.pc \in LockedPcs => lock[t.sb] = w
  BY DEF TypeOK, TasksOK
<1> QED BY <1>1, BecomeType

LEMMA CreateBeginType ==
  ASSUME TypeOK, NEW w \in Creator, NEW s \in Sandbox, CreateBegin(w, s)
  PROVE  TypeOK'
<1>0. w \in Worker /\ s \in Lock
  BY DEF Worker, Lock
<1>1. CASE state[s].phase # "none"
  <2>1. TasksOK'
    BY <1>0, <1>1, EndType DEF CreateBegin
  <2> QED BY <1>1, <2>1 DEF CreateBegin, TypeOK, store, world
<1>2. CASE state[s].phase = "none"
  <2> DEFINE pc == IF pods[s] = {} THEN "ports" ELSE "cleanup"
             t  == [At(pc) EXCEPT !.sb = s]
  <2>1. t \in Task /\ t.pc = pc /\ t.sb = s
    BY NoStateType DEF At, Task, Pcs
  <2>2. Become(w, t) /\ lock' = [lock EXCEPT ![s] = w] /\ lock[s] = Nobody
    BY <1>2 DEF CreateBegin, Taken
  <2>3. /\ lock' \in [Lock -> Worker \cup {Nobody}] /\ lock'[s] = w
        /\ \A l \in Lock : lock[l] \notin {w, Nobody} => lock'[l] = lock[l]
    BY <1>0, <2>2 DEF TypeOK
  <2>4. t.pc \notin {"reserve", "save"}
    BY <2>1
  <2>5. TasksOK'
    <3> HIDE DEF t
    <3> QED BY <1>0, <2>1, <2>2, <2>3, <2>4, BecomeType
  <2> QED BY <2>3, <2>5 DEF CreateBegin, TypeOK, store, world
<1> QED BY <1>1, <1>2

LEMMA CreateType ==
  ASSUME TypeOK, NEW w \in Creator, Create(w)
  PROVE  TypeOK'
<1>0. w \in Worker /\ w \notin Reconciler /\ task[w] \in Task
  BY WorkersAssumption DEF Worker, TypeOK, TasksOK
<1>1. ASSUME task[w].pc \in LockedPcs
      PROVE  task[w].sb \in Sandbox /\ lock[task[w].sb] = w
  BY <1>0, <1>1 DEF TypeOK, TasksOK, BusyPcs
<1>2. CASE CreateCleanup(w)
  <2> DEFINE s == task[w].sb
  <2>1. s \in Sandbox
    BY <1>1, <1>2 DEF CreateCleanup, LockedPcs
  <2>2. TasksOK'
    BY <1>0, <1>2, ToType DEF CreateCleanup, memory, LockedPcs, BusyPcs, Pcs
  <2>3. pods' \in [Sandbox -> SUBSET Creator] /\ faults' \in Nat
    BY <1>2, <2>1, StopPodType DEF CreateCleanup, RemoveArtifacts, NoFault, TypeOK
  <2>4. dnat' \subseteq Sandbox \X Creator
    BY <1>2, <2>1, UnpublishType DEF CreateCleanup, RemoveArtifacts
  <2>5. state' \in [Sandbox -> State]
    <3> DEFINE x == IF pods[s] = {} THEN state[s] ELSE NoState
    <3>1. x \in State /\ Save(s, x)
      BY <1>2, <2>1, NoStateType DEF CreateCleanup, TypeOK
    <3> QED BY <2>1, <3>1, SaveType
  <2> QED BY <1>2, <2>2, <2>3, <2>4, <2>5 DEF CreateCleanup, TypeOK, memory, world
<1>3. CASE CreatePorts(w)
  <2>1. PICK list \in Listings : Become(w, [task[w] EXCEPT !.pc = "reserve", !.list = list])
    BY <1>3 DEF CreatePorts
  <2> DEFINE t == [task[w] EXCEPT !.pc = "reserve", !.list = list]
  <2>2. t \in Task /\ t.pc = "reserve" /\ t.sb = task[w].sb
    BY <1>0, <2>1, ListingsType DEF Task, Pcs
  <2>3. /\ lock' = [lock EXCEPT !["_ports"] = w] /\ lock["_ports"] = Nobody
        /\ "_ports" \in Lock /\ "_ports" \notin Sandbox
    BY <1>3, NamesAssumption DEF CreatePorts, Taken, Lock
  <2>4. t.sb \in Sandbox /\ lock[t.sb] = w /\ t.sb \in Lock
    BY <1>1, <1>3, <2>2 DEF CreatePorts, LockedPcs, Lock
  <2>5. /\ lock' \in [Lock -> Worker \cup {Nobody}]
        /\ \A l \in Lock : lock[l] \notin {w, Nobody} => lock'[l] = lock[l]
        /\ lock'[t.sb] = w /\ lock'["_ports"] = w
    BY <1>0, <2>3, <2>4 DEF TypeOK
  <2>6. TasksOK'
    BY <1>0, <2>1, <2>2, <2>4, <2>5, BecomeType
  <2> QED BY <1>3, <2>5, <2>6 DEF CreatePorts, TypeOK, store, world
<1>4. CASE CreateReserve(w)
  <2>1. CASE Finish(w)
    BY <1>0, <1>4, <2>1, FinishType DEF CreateReserve, TypeOK, store, world
  <2>2. CASE ~ Finish(w)
    <3> DEFINE t == [task[w] EXCEPT !.pc = "admit", !.list = NoList]
    <3>1. t \in Task /\ t.pc = "admit" /\ t.sb = task[w].sb
      BY <1>0, NoStateType DEF Task, Pcs
    <3>2. Become(w, t) /\ lock' = [lock EXCEPT !["_ports"] = Nobody]
      BY <1>4, <2>2 DEF CreateReserve
    <3>3. t.sb \in Sandbox /\ lock[t.sb] = w /\ lock["_ports"] = w
      BY <1>0, <1>1, <1>4, <3>1 DEF CreateReserve, LockedPcs, TypeOK, TasksOK
    <3>4. /\ lock' \in [Lock -> Worker \cup {Nobody}]
          /\ \A l \in Lock : lock[l] \notin {w, Nobody} => lock'[l] = lock[l]
          /\ lock'[t.sb] = w
      BY <3>2, <3>3, NamesAssumption DEF TypeOK, Lock
    <3>5. TasksOK'
      BY <1>0, <3>1, <3>2, <3>3, <3>4, BecomeType
    <3>6. reserved' \in [Key -> Sandbox \cup {NoSandbox}]
      BY <1>4, <2>2, <3>1, <3>3 DEF CreateReserve, TypeOK
    <3> QED BY <1>4, <3>4, <3>5, <3>6 DEF CreateReserve, TypeOK, store, world
  <2> QED BY <2>1, <2>2
<1>5. CASE CreateAdmit(w)
  <2>1. CASE Finish(w)
    BY <1>0, <1>5, <2>1, FinishType DEF CreateAdmit, TypeOK, store, world
  <2>2. CASE To(w, "save") /\ Taken(w, "_admission") /\ UNCHANGED reserved
    <3> DEFINE t == [task[w] EXCEPT !.pc = "save"]
    <3>1. t \in Task /\ t.pc = "save" /\ t.sb = task[w].sb
      BY <1>0 DEF Task, Pcs
    <3>2. /\ Become(w, t) /\ lock' = [lock EXCEPT !["_admission"] = w]
          /\ lock["_admission"] = Nobody
      BY <1>5, <2>2 DEF CreateAdmit, To, Taken
    <3>3. t.sb \in Sandbox /\ lock[t.sb] = w
      BY <1>1, <1>5, <3>1 DEF CreateAdmit, LockedPcs
    <3>4. /\ lock' \in [Lock -> Worker \cup {Nobody}]
          /\ \A l \in Lock : lock[l] \notin {w, Nobody} => lock'[l] = lock[l]
          /\ lock'[t.sb] = w /\ lock'["_admission"] = w
      BY <1>0, <3>2, <3>3, NamesAssumption DEF TypeOK, Lock
    <3>5. TasksOK'
      BY <1>0, <3>1, <3>2, <3>3, <3>4, BecomeType
    <3> QED BY <1>5, <2>2, <3>4, <3>5 DEF CreateAdmit, TypeOK, store, world
  <2> QED BY <1>5, <2>1, <2>2 DEF CreateAdmit
<1>6. CASE CreateSave(w)
  <2> DEFINE p == <<"provision", w>>
             t == [At("lock") EXCEPT !.sb = task[w].sb]
  <2>1. p \in Worker /\ p # w
    BY WorkersAssumption DEF Worker, Provisioner
  <2>2. task[w].sb \in Sandbox
    BY <1>1, <1>6 DEF CreateSave, LockedPcs
  <2>3. t \in Task /\ t.pc = "lock" /\ t.sb = task[w].sb /\ At("done") \in Task
        /\ At("done").pc = "done"
    BY <2>2, NoStateType DEF At, Task, Pcs
  <2>4. /\ task' \in [Worker -> Task]
        /\ \A v \in Worker : task'[v] = IF v = p THEN t ELSE IF v = w THEN At("done") ELSE task[v]
    BY <1>6, <2>1, <2>3 DEF CreateSave, TypeOK, TasksOK
  <2>5. /\ lock' \in [Lock -> Worker \cup {Nobody}]
        /\ \A l \in Lock : lock[l] \notin {w, Nobody} => lock'[l] = lock[l]
    BY <1>0, <1>6, UnlockedType DEF CreateSave
  <2>6. TasksOK'
    <3>0. TasksOK
      BY DEF TypeOK
    <3>1. Nobody \notin Worker /\ Sandbox \subseteq Lock /\ {"_ports", "_admission"} \subseteq Lock
      BY NamesAssumption DEF Lock
    <3>2. \A v \in Worker : task'[v].pc \in BusyPcs => task'[v].sb \in Sandbox
      BY <2>2, <2>3, <2>4, <3>0 DEF TasksOK, BusyPcs, LockedPcs
    <3>3. ASSUME NEW v \in Worker \ Reconciler, task'[v].pc \in LockedPcs
          PROVE  lock'[task'[v].sb] = v
      <4>1. v # w /\ v # p /\ task'[v] = task[v]
        BY <2>3, <2>4, <3>3 DEF LockedPcs
      <4>2. task[v].sb \in Sandbox /\ lock[task[v].sb] = v
        BY <3>0, <3>3, <4>1 DEF TasksOK, BusyPcs
      <4> QED BY <2>5, <3>1, <4>1, <4>2
    <3>4. ASSUME NEW v \in Creator
          PROVE  /\ task'[v].pc = "reserve" => lock'["_ports"] = v
                 /\ task'[v].pc = "save" => lock'["_admission"] = v
      <4>1. v \in Worker
        BY DEF Worker
      <4>2. CASE v = w \/ v = p
        BY <2>3, <2>4, <4>1, <4>2
      <4>3. CASE v # w /\ v # p
        BY <2>4, <2>5, <3>0, <3>1, <4>1, <4>3 DEF TasksOK
      <4> QED BY <4>2, <4>3
    <3> QED BY <2>4, <3>2, <3>3, <3>4 DEF TasksOK
  <2>7. NewState \in State
    BY DEF NewState, NoState, State, Phases
  <2>8. state' \in [Sandbox -> State] /\ reserved' \in [Key -> Sandbox \cup {NoSandbox}]
    BY <1>6, <2>2, <2>7, SaveType, UnreservedType DEF CreateSave
  <2> QED BY <1>6, <2>5, <2>6, <2>8 DEF CreateSave, TypeOK, world
<1> QED BY <1>2, <1>3, <1>4, <1>5, <1>6 DEF Create

\* The copy of a goroutine with another phase.
LEMMA CopyType ==
  ASSUME TypeOK, NEW w \in Worker, NEW phase \in Phases
  PROVE  [task[w].copy EXCEPT !.phase = phase] \in State
<1>1. task[w].copy \in State
  BY DEF TypeOK, TasksOK, Task
<1> QED BY <1>1 DEF State

LEMMA ProvisionType ==
  ASSUME TypeOK, NEW p \in Provisioner, Provision(p)
  PROVE  TypeOK'
<1> DEFINE s == task[p].sb
<1>0. /\ p \in Worker /\ p \notin Reconciler /\ p \notin Creator /\ p[2] \in Creator
      /\ task[p] \in Task /\ task[p].copy \in State
  BY WorkersAssumption DEF Worker, Provisioner, TypeOK, TasksOK, Task
<1>1. ASSUME task[p].pc \in BusyPcs
      PROVE  s \in Sandbox /\ s \in Lock
  BY <1>0, <1>1 DEF TypeOK, TasksOK, Lock
<1>2. CASE ProvisionBegin(p)
  <2>0. s \in Sandbox /\ s \in Lock
    BY <1>1, <1>2 DEF ProvisionBegin, BusyPcs
  <2>1. CASE state[s].phase \in {"none", "corrupt"}
    <3>1. TasksOK'
      BY <1>0, <1>2, <2>1, EndType DEF ProvisionBegin
    <3> QED BY <1>2, <2>1, <3>1 DEF ProvisionBegin, TypeOK, store, world
  <2>2. CASE state[s].phase \notin {"none", "corrupt"}
    <3> DEFINE t == [task[p] EXCEPT !.pc = "sweep", !.copy = state[s]]
    <3>1. t \in Task /\ t.pc = "sweep" /\ t.sb = s
      BY <1>0, <2>0 DEF Task, Pcs, TypeOK
    <3>2. Become(p, t) /\ lock' = [lock EXCEPT ![s] = p] /\ lock[s] = Nobody
      BY <1>2, <2>2 DEF ProvisionBegin, Taken
    <3>3. /\ lock' \in [Lock -> Worker \cup {Nobody}] /\ lock'[s] = p
          /\ \A l \in Lock : lock[l] \notin {p, Nobody} => lock'[l] = lock[l]
      BY <1>0, <2>0, <3>2 DEF TypeOK
    <3>4. TasksOK'
      <4> HIDE DEF t, s
      <4> QED BY <1>0, <2>0, <3>1, <3>2, <3>3, BecomeType
    <3> QED BY <1>2, <2>2, <3>3, <3>4 DEF ProvisionBegin, TypeOK, store, world
  <2> QED BY <2>1, <2>2
<1>3. CASE ProvisionSweep(p)
  <2>1. TasksOK'
    BY <1>0, <1>3, ToType DEF ProvisionSweep, memory, LockedPcs, BusyPcs, Pcs
  <2>2. pods' \in [Sandbox -> SUBSET Creator] /\ faults' \in Nat
    BY <1>1, <1>3, StopPodType DEF ProvisionSweep, TypeOK, BusyPcs, LockedPcs
  <2> QED BY <1>3, <2>1, <2>2 DEF ProvisionSweep, TypeOK, memory, world
<1>4. CASE ProvisionRun(p)
  <2>0. s \in Sandbox /\ task[p].pc \in LockedPcs
    BY <1>1, <1>4 DEF ProvisionRun, BusyPcs, LockedPcs
  <2>1. TasksOK'
    <3>1. CASE To(p, "fail")
      BY <1>0, <1>4, <2>0, <3>1, ToType DEF ProvisionRun, memory, LockedPcs, BusyPcs, Pcs
    <3>2. CASE ~ To(p, "fail")
      <4> DEFINE t == [task[p] EXCEPT !.pc = "start", !.copy.pod = p[2]]
      <4>1. t \in Task /\ t.pc = "start" /\ t.sb = s
        BY <1>0 DEF Task, State, Pcs
      <4>2. Become(p, t) /\ UNCHANGED lock
        BY <1>4, <3>2 DEF ProvisionRun, memory
      <4> HIDE DEF t
      <4> QED BY <1>0, <2>0, <4>1, <4>2, TurnType
    <3> QED BY <3>1, <3>2
  <2>2. pods' \in [Sandbox -> SUBSET Creator] /\ faults' \in Nat
    BY <1>0, <1>4, <2>0 DEF ProvisionRun, Fault, NoFault, TypeOK
  <2> QED BY <1>4, <2>1, <2>2 DEF ProvisionRun, TypeOK, memory, world
<1>5. CASE ProvisionStart(p)
  <2>1. TasksOK'
    <3>1. \E pc \in {"publish", "fail"} : To(p, pc)
      BY <1>5 DEF ProvisionStart
    <3> QED BY <1>0, <1>5, <3>1, ToType DEF ProvisionStart, memory, LockedPcs, BusyPcs, Pcs
  <2> QED BY <1>5, <2>1 DEF ProvisionStart, Fault, NoFault, TypeOK, store, memory, world
<1>6. CASE ProvisionPublish(p)
  <2>0. s \in Sandbox
    BY <1>1, <1>6 DEF ProvisionPublish, BusyPcs, LockedPcs
  <2>1. TasksOK'
    <3>1. \E pc \in {"finish", "fail"} : To(p, pc)
      BY <1>6 DEF ProvisionPublish
    <3> QED BY <1>0, <1>6, <3>1, ToType DEF ProvisionPublish, memory, LockedPcs, BusyPcs, Pcs
  <2>2. dnat' \subseteq Sandbox \X Creator
    BY <1>0, <1>6, <2>0 DEF ProvisionPublish, TypeOK
  <2> QED BY <1>6, <2>1, <2>2 DEF ProvisionPublish, Fault, NoFault, TypeOK, memory, world
<1>7. CASE ProvisionFinish(p)
  <2>0. s \in Sandbox
    BY <1>1, <1>7 DEF ProvisionFinish, BusyPcs, LockedPcs
  <2>1. state' \in [Sandbox -> State]
    BY <1>0, <1>7, <2>0, CopyType, SaveType DEF ProvisionFinish, Phases
  <2> QED BY <1>0, <1>7, <2>1, FinishType DEF ProvisionFinish, TypeOK, world
<1>8. CASE ProvisionFail(p)
  <2>0. s \in Sandbox
    BY <1>1, <1>8 DEF ProvisionFail, BusyPcs, LockedPcs
  <2>1. state' \in [Sandbox -> State]
    BY <1>0, <1>8, <2>0, CopyType, SaveType DEF ProvisionFail, Phases
  <2>2. TasksOK'
    BY <1>0, <1>8, ToType DEF ProvisionFail, memory, LockedPcs, BusyPcs, Pcs
  <2> QED BY <1>8, <2>1, <2>2 DEF ProvisionFail, TypeOK, memory, world
<1>9. CASE ProvisionClean(p)
  <2>0. s \in Sandbox
    BY <1>1, <1>9 DEF ProvisionClean, BusyPcs, LockedPcs
  <2>1. TasksOK'
    BY <1>0, <1>9, ToType DEF ProvisionClean, memory, LockedPcs, BusyPcs, Pcs
  <2>2. /\ pods' \in [Sandbox -> SUBSET Creator] /\ faults' \in Nat
        /\ dnat' \subseteq Sandbox \X Creator
    BY <1>9, <2>0, StopPodType, UnpublishType DEF ProvisionClean, RemoveArtifacts
  <2> QED BY <1>9, <2>1, <2>2 DEF ProvisionClean, TypeOK, memory, world
<1>10. CASE ProvisionMark(p)
  <2>0. s \in Sandbox
    BY <1>1, <1>10 DEF ProvisionMark, BusyPcs
  <2>1. CASE Finish(p)
    BY <1>0, <1>10, <2>1, FinishType DEF ProvisionMark, TypeOK, store, world
  <2>2. CASE ~ Finish(p)
    <3> DEFINE t == [task[p] EXCEPT !.pc = "note", !.copy = state[s]]
    <3>1. t \in Task /\ t.pc = "note" /\ t.sb = s
      BY <1>0, <2>0 DEF Task, Pcs, TypeOK
    <3>2. Become(p, t) /\ UNCHANGED <<lock, reserved>>
      BY <1>10, <2>2 DEF ProvisionMark
    <3>3. TasksOK'
      <4> HIDE DEF t, s
      <4> QED BY <1>0, <2>0, <3>1, <3>2, TurnType DEF LockedPcs
    <3> QED BY <1>10, <3>2, <3>3 DEF ProvisionMark, TypeOK, store, world
  <2> QED BY <2>1, <2>2
<1>11. CASE ProvisionNote(p)
  <2>0. s \in Sandbox
    BY <1>1, <1>11 DEF ProvisionNote, BusyPcs
  <2>1. state' \in [Sandbox -> State]
    BY <1>0, <1>11, <2>0, CopyType, SaveType DEF ProvisionNote, Phases
  <2> QED BY <1>0, <1>11, <2>1, FinishType DEF ProvisionNote, TypeOK, world
<1> QED BY <1>2, <1>3, <1>4, <1>5, <1>6, <1>7, <1>8, <1>9, <1>10, <1>11 DEF Provision

LEMMA DeleteBeginType ==
  ASSUME TypeOK, NEW w \in Deleter, NEW s \in Sandbox, DeleteBegin(w, s)
  PROVE  TypeOK'
<1>0. w \in Worker /\ s \in Lock
  BY DEF Worker, Lock
<1>1. CASE state[s].phase \in {"none", "corrupt"}
  <2>1. TasksOK'
    BY <1>0, <1>1, EndType DEF DeleteBegin
  <2>2. reserved' \in [Key -> Sandbox \cup {NoSandbox}]
    BY <1>1, UnreservedType DEF DeleteBegin, TypeOK
  <2> QED BY <1>1, <2>1, <2>2 DEF DeleteBegin, TypeOK, store, world
<1>2. CASE state[s].phase \notin {"none", "corrupt"}
  <2> DEFINE t == [At("drop") EXCEPT !.sb = s, !.copy = state[s]]
  <2>1. t \in Task /\ t.pc = "drop" /\ t.sb = s
    BY NoStateType DEF At, Task, Pcs, TypeOK
  <2>2. Become(w, t) /\ lock' = [lock EXCEPT ![s] = w] /\ lock[s] = Nobody
    BY <1>2 DEF DeleteBegin, Taken
  <2>3. /\ lock' \in [Lock -> Worker \cup {Nobody}] /\ lock'[s] = w
        /\ \A l \in Lock : lock[l] \notin {w, Nobody} => lock'[l] = lock[l]
    BY <1>0, <2>2 DEF TypeOK
  <2>4. TasksOK'
    <3> HIDE DEF t
    <3> QED BY <1>0, <2>1, <2>2, <2>3, BecomeType
  <2> QED BY <1>2, <2>3, <2>4 DEF DeleteBegin, TypeOK, store, world
<1> QED BY <1>1, <1>2

\* What a reconcile pass turns to between two sandboxes.
LEMMA NextVisitType ==
  ASSUME TypeOK, NEW w \in Worker, NextVisit(w), UNCHANGED lock
  PROVE  TasksOK'
<1> DEFINE t == [task[w] EXCEPT !.pc = "visit", !.sb = NoSandbox, !.copy = NoState]
<1>1. t \in Task /\ t.pc = "visit"
  BY NoStateType DEF TypeOK, TasksOK, Task, Pcs
<1>2. Become(w, t)
  BY DEF NextVisit
<1> HIDE DEF t
<1> QED BY <1>1, <1>2, TurnType DEF BusyPcs, LockedPcs

LEMMA RemoveSandboxType ==
  ASSUME TypeOK, NEW w \in Worker, RemoveSandbox(w)
  PROVE  TypeOK'
<1>0. task[w].sb \in Sandbox
  BY DEF RemoveSandbox, TypeOK, TasksOK, BusyPcs, LockedPcs
<1>1. TasksOK'
  BY ToType DEF RemoveSandbox, memory, LockedPcs, BusyPcs, Pcs
<1>2. /\ pods' \in [Sandbox -> SUBSET Creator] /\ faults' \in Nat
      /\ dnat' \subseteq Sandbox \X Creator
  BY <1>0, StopPodType, UnpublishType DEF RemoveSandbox, RemoveArtifacts
<1> QED BY <1>1, <1>2 DEF RemoveSandbox, TypeOK, memory, world

LEMMA ForgivenType == Forgiven \in Patience
BY SizeAssumption DEF Forgiven, Patience

LEMMA EraseStateType ==
  ASSUME TypeOK, NEW w \in Deleter \cup Reconciler, EraseState(w)
  PROVE  TypeOK'
<1> DEFINE s == task[w].sb
<1>0. w \in Worker /\ s \in Sandbox
  BY DEF EraseState, Worker, TypeOK, TasksOK, BusyPcs, LockedPcs
<1>1. state' \in [Sandbox -> State]
  BY <1>0, NoStateType, SaveType DEF EraseState
<1>2. unhealthy' \in [Sandbox -> Patience]
  BY <1>0, ForgivenType DEF EraseState, TypeOK
<1>3. CASE w \in Deleter
  <2>1. lock' \in [Lock -> Worker \cup {Nobody}] /\ TasksOK'
    BY <1>0, <1>3, UnlockedType, EndType DEF EraseState
  <2>2. reserved' \in [Key -> Sandbox \cup {NoSandbox}]
    BY <1>3, UnreservedType DEF EraseState
  <2> QED BY <1>1, <1>2, <2>1, <2>2 DEF EraseState, TypeOK, world
<1>4. CASE w \notin Deleter
  <2>1. NextVisit(w) /\ UNCHANGED <<lock, reserved>>
    BY <1>4 DEF EraseState, NextVisit
  <2>2. TasksOK'
    BY <1>0, <2>1, NextVisitType
  <2> QED BY <1>1, <1>2, <2>1, <2>2 DEF EraseState, TypeOK, world
<1> QED BY <1>3, <1>4

LEMMA DeleteType ==
  ASSUME TypeOK, NEW w \in Deleter, Delete(w)
  PROVE  TypeOK'
<1>0. w \in Worker /\ w \notin Creator
  BY WorkersAssumption DEF Worker
<1>1. CASE DeleteMark(w)
  <2>1. task[w].sb \in Sandbox
    BY <1>0, <1>1 DEF DeleteMark, TypeOK, TasksOK, BusyPcs, LockedPcs
  <2>2. state' \in [Sandbox -> State]
    BY <1>0, <1>1, <2>1, CopyType, SaveType DEF DeleteMark, Phases
  <2>3. TasksOK'
    BY <1>0, <1>1, ToType DEF DeleteMark, memory, LockedPcs, BusyPcs, Pcs
  <2> QED BY <1>1, <2>2, <2>3 DEF DeleteMark, TypeOK, memory, world
<1> QED BY <1>0, <1>1, RemoveSandboxType, EraseStateType DEF Delete

\* Hits are counted up to ReconcileHits.
LEMMA ShouldFinalizeType ==
  ASSUME NEW u \in Patience
  PROVE  ShouldFinalize(u).patience \in Patience
<1>1. Hits \in Nat /\ Hits > 0
  BY SizeAssumption
<1>2. u.hits \in 0..Hits
  BY DEF Patience
<1>3. (IF u.hits < Hits THEN u.hits + 1 ELSE u.hits) \in 0..Hits
  BY <1>1, <1>2
<1> QED BY <1>3 DEF ShouldFinalize, Patience

LEMMA ReconcileType ==
  ASSUME TypeOK, NEW w \in Reconciler, Reconcile(w)
  PROVE  TypeOK'
<1>0. w \in Worker /\ w \notin Creator /\ task[w] \in Task
  BY WorkersAssumption DEF Worker, TypeOK, TasksOK
<1>1. CASE ReconcileList(w)
  <2>1. PICK list \in Listings :
          Become(w, [At("visit") EXCEPT !.list = list, !.todo = Listed(list)])
    BY <1>1 DEF ReconcileList
  <2> DEFINE t == [At("visit") EXCEPT !.list = list, !.todo = Listed(list)]
  <2>2. t \in Task /\ t.pc = "visit" /\ Become(w, t) /\ UNCHANGED lock
    BY <1>1, <2>1, ListingsType, NoStateType DEF ReconcileList, memory, At, Task, Pcs
  <2>3. TasksOK'
    <3> HIDE DEF t
    <3> QED BY <1>0, <2>2, TurnType DEF BusyPcs, LockedPcs
  <2> QED BY <1>1, <2>3 DEF ReconcileList, TypeOK, store, memory, world
<1>2. ASSUME NEW s \in Sandbox, ReconcileVisit(w, s)
      PROVE  TypeOK'
  <2> DEFINE x  == task[w].list[s]
             pc == IF lock[s] # Nobody THEN "visit" ELSE VisitTarget(x)
             t  == [task[w] EXCEPT
                      !.pc = pc,
                      !.todo = @ \ {s},
                      !.sb   = IF pc = "visit" THEN NoSandbox ELSE s,
                      !.copy = IF pc = "visit" THEN NoState ELSE x]
  <2>1. pc \in {"visit", "expire", "examine"}
    BY DEF VisitTarget
  <2>2. x \in State
    BY <1>0 DEF Task
  <2>3. Become(w, t) /\ UNCHANGED lock
    BY <1>2 DEF ReconcileVisit, memory
  <2> HIDE DEF pc, x
  <2>4. t \in Task /\ t.pc = pc /\ (pc # "visit" => t.sb = s)
    BY <1>0, <2>1, <2>2, NoStateType DEF Task, Pcs
  <2>5. TasksOK'
    <3> HIDE DEF t
    <3> QED BY <1>0, <2>1, <2>3, <2>4, TurnType DEF BusyPcs, LockedPcs
  <2> QED BY <1>2, <2>5 DEF ReconcileVisit, TypeOK, store, memory, world
<1>3. CASE ReconcileExpire(w)
  <2>1. task[w].sb \in Sandbox
    BY <1>0, <1>3 DEF ReconcileExpire, TypeOK, TasksOK, BusyPcs
  <2>2. state' \in [Sandbox -> State]
    BY <1>0, <1>3, <2>1, CopyType, SaveType DEF ReconcileExpire, Phases
  <2>3. TasksOK'
    BY <1>0, <1>3, NextVisitType DEF ReconcileExpire, memory
  <2> QED BY <1>3, <2>2, <2>3 DEF ReconcileExpire, TypeOK, memory, world
<1>4. CASE ReconcileExamine(w)
  <2>1. task[w].sb \in Sandbox
    BY <1>0, <1>4 DEF ReconcileExamine, TypeOK, TasksOK, BusyPcs
  <2>2. unhealthy' \in [Sandbox -> Patience]
    BY <1>4, <2>1, ForgivenType, ShouldFinalizeType DEF ReconcileExamine, TypeOK
  <2>3. TasksOK'
    <3>1. CASE NextVisit(w)
      BY <1>0, <1>4, <3>1, NextVisitType DEF ReconcileExamine
    <3>2. CASE To(w, "remove")
      BY <1>0, <1>4, <3>2, ToType DEF ReconcileExamine, BusyPcs, Pcs
    <3> QED BY <1>4, <3>1, <3>2 DEF ReconcileExamine
  <2> QED BY <1>4, <2>2, <2>3 DEF ReconcileExamine, TypeOK, store, world
<1>5. CASE ReconcileSweep(w)
  <2> DEFINE pc == IF w \in Loop THEN "idle" ELSE "done"
  <2>1. At(pc) \in Task /\ At(pc).pc = pc
    BY AtType DEF Pcs
  <2>2. TasksOK'
    BY <1>0, <1>5, <2>1, TurnType DEF ReconcileSweep, memory, BusyPcs, LockedPcs
  <2> QED BY <1>5, <2>2 DEF ReconcileSweep, TypeOK, memory, world
<1> QED BY <1>0, <1>1, <1>2, <1>3, <1>4, <1>5, RemoveSandboxType, EraseStateType DEF Reconcile

LEMMA EnvironmentType ==
  ASSUME TypeOK, Environment
  PROVE  TypeOK'
<1>1. ASSUME NEW s \in Sandbox, NEW w \in Creator \cup Deleter, RequestTimeout(w, s)
      PROVE  TypeOK'
  <2>1. TasksOK'
    BY <1>1, EndType DEF RequestTimeout, memory, Worker
  <2> QED BY <1>1, <2>1 DEF RequestTimeout, Fault, TypeOK, store, memory, world
<1>2. ASSUME NEW w \in Creator, CreateTimeout(w)
      PROVE  TypeOK'
  <2>1. w \in Worker
    BY DEF Worker
  <2> QED BY <1>2, <2>1, FinishType DEF CreateTimeout, Fault, TypeOK, store, world
<1>3. ASSUME NEW p \in Provisioner, ProvisionTimeout(p)
      PROVE  TypeOK'
  <2>1. p \in Worker
    BY DEF Worker
  <2>2. TasksOK'
    BY <1>3, <2>1, ToType DEF ProvisionTimeout, memory, LockedPcs, BusyPcs, Pcs
  <2> QED BY <1>3, <2>2 DEF ProvisionTimeout, Fault, TypeOK, store, memory, world
<1>4. ASSUME NEW s \in Sandbox, NEW p \in Creator, ContainerExits(s, p)
      PROVE  TypeOK'
  BY <1>4 DEF ContainerExits, Fault, TypeOK, TasksOK, store, memory
<1>5. ASSUME NEW s \in Sandbox, Age(s)
      PROVE  TypeOK'
  <2>1. [state[s] EXCEPT !.old = TRUE] \in State
    BY DEF TypeOK, State
  <2>2. state' \in [Sandbox -> State]
    BY <1>5, <2>1, SaveType DEF Age
  <2> QED BY <1>5, <2>2 DEF Age, TypeOK, TasksOK, memory, world
<1>6. ASSUME NEW s \in Sandbox, GracePasses(s)
      PROVE  TypeOK'
  <2>1. unhealthy' \in [Sandbox -> Patience]
    BY <1>6 DEF GracePasses, TypeOK, Patience
  <2> QED BY <1>6, <2>1 DEF GracePasses, TypeOK, TasksOK, store, world
<1>7. CASE Crash
  <2>1. At("idle") \in Task /\ At("done") \in Task /\ At("new") \in Task
        /\ At("idle").pc = "idle" /\ At("done").pc = "done" /\ At("new").pc = "new"
    BY AtType DEF Pcs
  <2>2. \A w \in Worker : task'[w] \in {At("idle"), At("done"), At("new")}
    BY <1>7 DEF Crash
  <2>3. task' \in [Worker -> Task]
    BY <1>7, <2>1 DEF Crash, TypeOK, TasksOK
  <2>4. \A w \in Worker : task'[w].pc \notin BusyPcs
    BY <2>1, <2>2 DEF BusyPcs, LockedPcs
  <2>5. TasksOK'
    <3>1. \A w \in Worker : task'[w].pc \notin LockedPcs /\ task'[w].pc \notin {"reserve", "save"}
      BY <2>4 DEF BusyPcs, LockedPcs
    <3>2. Creator \subseteq Worker
      BY DEF Worker
    <3> QED BY <2>3, <2>4, <3>1, <3>2 DEF TasksOK
  <2>6. state' \in [Sandbox -> State]
    <3>1. Corrupt \in State
      BY DEF Corrupt, NoState, State, Phases
    <3> QED BY <1>7, <3>1 DEF Crash, TypeOK
  <2>7. unhealthy' \in [Sandbox -> Patience]
    BY <1>7, ForgivenType DEF Crash
  <2> QED BY <1>7, <2>5, <2>6, <2>7 DEF Crash, TypeOK
<1> QED BY <1>1, <1>2, <1>3, <1>4, <1>5, <1>6, <1>7, CreateBeginType, DeleteBeginType
        DEF Environment

LEMMA InitType == Init => TypeOK
<1> SUFFICES ASSUME Init PROVE TypeOK
  OBVIOUS
<1>1. At("new") \in Task /\ At("idle") \in Task /\ At("done") \in Task
      /\ At("new").pc = "new" /\ At("idle").pc = "idle" /\ At("done").pc = "done"
  BY AtType DEF Pcs
<1>2. ASSUME NEW w \in Worker
      PROVE  task[w] \in {At("new"), At("idle"), At("done")}
  <2>1. CASE w \in Creator \cup Deleter
    BY <2>1 DEF Init, Worker
  <2>2. CASE w \in Reconciler
    BY <2>2, WorkersAssumption DEF Init, Worker
  <2>3. CASE w \in Provisioner
    BY <2>3, WorkersAssumption DEF Init, Worker
  <2> QED BY <2>1, <2>2, <2>3 DEF Worker
<1>3. task \in [Worker -> Task]
  BY <1>1, <1>2 DEF Init
<1>4. \A w \in Worker : task[w].pc \notin BusyPcs
  BY <1>1, <1>2 DEF BusyPcs, LockedPcs
<1>5. TasksOK
  <2>1. \A w \in Worker : task[w].pc \notin LockedPcs /\ task[w].pc \notin {"reserve", "save"}
    BY <1>4 DEF BusyPcs, LockedPcs
  <2>2. Creator \subseteq Worker
    BY DEF Worker
  <2> QED BY <1>3, <1>4, <2>1, <2>2 DEF TasksOK
<1> QED BY <1>5, NoStateType, ForgivenType DEF Init, TypeOK

LEMMA StutterType ==
  ASSUME TypeOK, UNCHANGED vars
  PROVE  TypeOK'
BY DEF TypeOK, TasksOK, vars, store, memory, world

LEMMA NextType ==
  ASSUME TypeOK, Next
  PROVE  TypeOK'
BY CreateType, ProvisionType, DeleteType, ReconcileType, EnvironmentType DEF Next

\* The files, the runtime and the goroutines stay well formed, and what requests and
\* provisioning do, they do with the flocks of lock.go they have to hold, for every
\* number of sandboxes, requests and passes, and across crashes.
THEOREM TypeCorrect == Spec => []TypeOK
<1>1. TypeOK /\ [Next]_vars => TypeOK'
  BY NextType, StutterType
<1> QED BY InitType, <1>1, PTL DEF Spec

-----------------------------------------------------------------------------
(***************************************************************************)
(* At most one pod.  Only ProvisionRun makes a pod, and it makes it for    *)
(* the sandbox whose flock it holds, after its sweep has left no pod of    *)
(* it: nobody else can be about to make one in between.                    *)
(***************************************************************************)
SweptClean == \A p \in Provisioner : task[p].pc = "run" => pods[task[p].sb] = {}

PodsOK == AtMostOnePod /\ SweptClean

\* What a step leaves of the pods and of who is about to make one.
NoPodAdded == \A s \in Sandbox : pods'[s] \subseteq pods[s]

NobodyAboutToRun ==
  \A p \in Provisioner : task'[p].pc = "run" => task[p].pc = "run" /\ task'[p].sb = task[p].sb

LEMMA PodsKept ==
  ASSUME TypeOK, PodsOK, NoPodAdded, NobodyAboutToRun
  PROVE  PodsOK'
<1>1. AtMostOnePod'
  BY DEF PodsOK, AtMostOnePod, NoPodAdded
<1>2. ASSUME NEW p \in Provisioner, task'[p].pc = "run"
      PROVE  pods'[task'[p].sb] = {}
  <2>1. task[p].pc = "run" /\ task'[p].sb = task[p].sb
    BY <1>2 DEF NobodyAboutToRun
  <2>2. p \in Worker /\ task[p].sb \in Sandbox
    BY <2>1 DEF Worker, TypeOK, TasksOK, BusyPcs, LockedPcs
  <2> QED BY <2>1, <2>2 DEF PodsOK, SweptClean, NoPodAdded
<1> QED BY <1>1, <1>2 DEF PodsOK, SweptClean

LEMMA NotAboutToRun ==
  ASSUME TypeOK, NEW w \in Worker, NEW t, Become(w, t), t.pc # "run"
  PROVE  NobodyAboutToRun
BY DEF Become, NobodyAboutToRun, TypeOK, TasksOK, Worker

LEMMA ToNotAboutToRun ==
  ASSUME TypeOK, NEW w \in Worker, NEW pc \in Pcs \ {"run"}, To(w, pc)
  PROVE  NobodyAboutToRun
<1> DEFINE t == [task[w] EXCEPT !.pc = pc]
<1>1. t.pc = pc
  BY DEF TypeOK, TasksOK, Task
<1> QED BY <1>1, NotAboutToRun DEF To

LEMMA DoneNotAboutToRun ==
  ASSUME TypeOK, NEW w \in Worker, Become(w, At("done"))
  PROVE  NobodyAboutToRun
BY NotAboutToRun DEF At

LEMMA FinishNotAboutToRun ==
  ASSUME TypeOK, NEW w \in Worker, Finish(w)
  PROVE  NobodyAboutToRun
BY DoneNotAboutToRun DEF Finish

LEMMA NextVisitNotAboutToRun ==
  ASSUME TypeOK, NEW w \in Worker, NextVisit(w)
  PROVE  NobodyAboutToRun
<1> DEFINE t == [task[w] EXCEPT !.pc = "visit", !.sb = NoSandbox, !.copy = NoState]
<1>1. t.pc = "visit" /\ Become(w, t)
  BY DEF TypeOK, TasksOK, Task, NextVisit
<1> HIDE DEF t
<1> QED BY <1>1, NotAboutToRun

\* A runtime that obeys removes what it is told to, and nothing else.
LEMMA StopPodObeyed ==
  ASSUME TypeOK, "stop" \notin Faults, NEW s \in Sandbox, NEW p, StopPod(s, p)
  PROVE  /\ NoPodAdded
         /\ \A t \in Sandbox : pods'[t] = IF t = s THEN pods[s] \ {p} ELSE pods[t]
BY DEF StopPod, Fault, NoPodAdded, TypeOK

LEMMA CreatePods ==
  ASSUME TypeOK, PodsOK, "stop" \notin Faults, NEW w \in Creator, Create(w)
  PROVE  PodsOK'
<1>0. w \in Worker /\ task[w] \in Task
  BY DEF Worker, TypeOK, TasksOK
<1>1. CASE CreateCleanup(w)
  <2>1. task[w].sb \in Sandbox
    BY <1>0, <1>1 DEF CreateCleanup, TypeOK, TasksOK, BusyPcs, LockedPcs
  <2>2. NoPodAdded
    BY <1>1, <2>1, StopPodObeyed DEF CreateCleanup, RemoveArtifacts, NoPodAdded
  <2>3. NobodyAboutToRun
    BY <1>0, <1>1, ToNotAboutToRun DEF CreateCleanup, Pcs
  <2> QED BY <2>2, <2>3, PodsKept
<1>2. CASE CreatePorts(w)
  <2>1. PICK list \in Listings : Become(w, [task[w] EXCEPT !.pc = "reserve", !.list = list])
    BY <1>2 DEF CreatePorts
  <2> DEFINE t == [task[w] EXCEPT !.pc = "reserve", !.list = list]
  <2>2. t.pc = "reserve" /\ Become(w, t)
    BY <1>0, <2>1 DEF Task
  <2>3. NobodyAboutToRun
    <3> HIDE DEF t
    <3> QED BY <1>0, <2>2, NotAboutToRun
  <2> QED BY <1>2, <2>3, PodsKept DEF CreatePorts, store, NoPodAdded
<1>3. CASE CreateReserve(w)
  <2>1. NobodyAboutToRun
    <3> DEFINE t == [task[w] EXCEPT !.pc = "admit", !.list = NoList]
    <3>1. Finish(w) \/ Become(w, t)
      BY <1>3 DEF CreateReserve
    <3>2. t.pc = "admit"
      BY <1>0 DEF Task
    <3> HIDE DEF t
    <3> QED BY <1>0, <3>1, <3>2, FinishNotAboutToRun, NotAboutToRun
  <2> QED BY <1>3, <2>1, PodsKept DEF CreateReserve, store, NoPodAdded
<1>4. CASE CreateAdmit(w)
  <2>1. NobodyAboutToRun
    BY <1>0, <1>4, FinishNotAboutToRun, ToNotAboutToRun DEF CreateAdmit, Pcs
  <2> QED BY <1>4, <2>1, PodsKept DEF CreateAdmit, store, NoPodAdded
<1>5. CASE CreateSave(w)
  <2> DEFINE p == <<"provision", w>>
             t == [At("lock") EXCEPT !.sb = task[w].sb]
  <2>1. p \in Worker /\ t.pc = "lock" /\ At("done").pc = "done"
    BY DEF Worker, Provisioner, At
  <2>2. \A v \in Worker : task'[v] = IF v = p THEN t ELSE IF v = w THEN At("done") ELSE task[v]
    BY <1>0, <1>5, <2>1 DEF CreateSave, TypeOK, TasksOK
  <2>3. NobodyAboutToRun
    <3> HIDE DEF t, p
    <3> QED BY <2>1, <2>2 DEF NobodyAboutToRun, Worker
  <2> QED BY <1>5, <2>3, PodsKept DEF CreateSave, NoPodAdded
<1> QED BY <1>1, <1>2, <1>3, <1>4, <1>5 DEF Create

\* The sweep takes the only pod there can be; no provisioning of the same sandbox
\* is past its sweep, for it would hold the same flock.
LEMMA SweepPods ==
  ASSUME TypeOK, PodsOK, "stop" \notin Faults, NEW p \in Provisioner, ProvisionSweep(p)
  PROVE  PodsOK'
<1> DEFINE s == task[p].sb
<1>0. p \in Worker /\ task[p] \in Task /\ s \in Sandbox
  BY DEF Worker, TypeOK, TasksOK, BusyPcs, LockedPcs, ProvisionSweep
<1>1. NoPodAdded
  BY <1>0, StopPodObeyed DEF ProvisionSweep, NoPodAdded
<1>2. pods'[s] = {}
  <2>1. CASE pods[s] = {}
    BY <1>0, <2>1 DEF ProvisionSweep
  <2>2. CASE pods[s] # {}
    <3>1. PICK q \in pods[s] : StopPod(s, q)
      BY <2>2 DEF ProvisionSweep
    <3>2. pods'[s] = pods[s] \ {q}
      BY <1>0, <3>1, StopPodObeyed
    <3>3. \A r \in pods[s] : r = q
      BY <1>0, <3>1 DEF PodsOK, AtMostOnePod
    <3> QED BY <3>2, <3>3
  <2> QED BY <2>1, <2>2
<1>3. AtMostOnePod'
  BY <1>1 DEF PodsOK, AtMostOnePod, NoPodAdded
<1>4. ASSUME NEW q \in Provisioner, task'[q].pc = "run"
      PROVE  pods'[task'[q].sb] = {}
  <2>1. CASE q = p
    <3>1. task'[p] = [task[p] EXCEPT !.pc = "run"]
      BY <1>0 DEF ProvisionSweep, To, Become, TypeOK, TasksOK
    <3>2. task'[p].sb = s
      BY <1>0, <3>1 DEF Task
    <3> QED BY <1>2, <2>1, <3>2
  <2>2. CASE q # p
    <3>1. task'[q] = task[q]
      BY <2>2 DEF ProvisionSweep, To, Become, TypeOK, TasksOK, Worker
    <3>2. task[q].sb \in Sandbox
      BY <1>4, <3>1 DEF Worker, TypeOK, TasksOK, BusyPcs, LockedPcs
    <3>3. pods[task[q].sb] = {}
      BY <1>4, <3>1 DEF PodsOK, SweptClean
    <3> QED BY <1>1, <3>1, <3>2, <3>3 DEF NoPodAdded
  <2> QED BY <2>1, <2>2
<1> QED BY <1>3, <1>4 DEF PodsOK, SweptClean

\* The pod that is made is the only one of its sandbox.
LEMMA RunPods ==
  ASSUME TypeOK, PodsOK, NEW p \in Provisioner, ProvisionRun(p)
  PROVE  PodsOK'
<1> DEFINE s == task[p].sb
<1>0. /\ p \in Worker \ Reconciler /\ task[p] \in Task /\ task[p].pc = "run"
      /\ s \in Sandbox /\ lock[s] = p
  BY WorkersAssumption
  DEF Worker, TypeOK, TasksOK, BusyPcs, LockedPcs, ProvisionRun
<1>1. pods[s] = {}
  BY <1>0 DEF PodsOK, SweptClean
<1>2. \A t \in Sandbox : pods'[t] \subseteq IF t = s THEN {p[2]} ELSE pods[t]
  BY <1>0, <1>1 DEF ProvisionRun, TypeOK
<1>3. AtMostOnePod'
  BY <1>2 DEF PodsOK, AtMostOnePod
<1>4. task'[p].pc # "run"
  <2> DEFINE t == [task[p] EXCEPT !.pc = "start", !.copy.pod = p[2]]
             u == [task[p] EXCEPT !.pc = "fail"]
  <2>1. t.pc = "start" /\ u.pc = "fail"
    BY <1>0 DEF Task
  <2>2. Become(p, t) \/ Become(p, u)
    BY DEF ProvisionRun, To
  <2> HIDE DEF t, u
  <2> QED BY <1>0, <2>1, <2>2 DEF Become, TypeOK, TasksOK
<1>5. ASSUME NEW q \in Provisioner, task'[q].pc = "run"
      PROVE  pods'[task'[q].sb] = {}
  <2>1. q # p /\ q \in Worker \ Reconciler
    BY <1>4, <1>5, WorkersAssumption DEF Worker
  <2>2. task'[q] = task[q]
    BY <2>1 DEF ProvisionRun, To, Become, TypeOK, TasksOK
  <2>3. task[q].sb \in Sandbox /\ lock[task[q].sb] = q
    BY <1>5, <2>1, <2>2 DEF TypeOK, TasksOK, BusyPcs, LockedPcs
  <2>4. task[q].sb # s
    BY <1>0, <2>1, <2>3
  <2>5. pods[task[q].sb] = {}
    BY <1>5, <2>2 DEF PodsOK, SweptClean
  <2> QED BY <1>2, <2>2, <2>3, <2>4, <2>5
<1> QED BY <1>3, <1>5 DEF PodsOK, SweptClean

LEMMA ProvisionPods ==
  ASSUME TypeOK, PodsOK, "stop" \notin Faults, NEW p \in Provisioner, Provision(p)
  PROVE  PodsOK'
<1> DEFINE s == task[p].sb
<1>0. p \in Worker /\ task[p] \in Task
  BY DEF Worker, TypeOK, TasksOK
<1>1. CASE ProvisionBegin(p)
  <2>1. NobodyAboutToRun
    <3> DEFINE t == [task[p] EXCEPT !.pc = "sweep", !.copy = state[s]]
    <3>1. t.pc = "sweep"
      BY <1>0 DEF Task
    <3>2. Become(p, At("done")) \/ Become(p, t)
      BY <1>1 DEF ProvisionBegin
    <3> HIDE DEF t
    <3> QED BY <1>0, <3>1, <3>2, NotAboutToRun, DoneNotAboutToRun
  <2> QED BY <1>1, <2>1, PodsKept DEF ProvisionBegin, store, NoPodAdded
<1>2. CASE ProvisionStart(p)
  <2>1. NobodyAboutToRun
    <3>1. \E pc \in {"publish", "fail"} : To(p, pc)
      BY <1>2 DEF ProvisionStart
    <3> QED BY <1>0, <3>1, ToNotAboutToRun DEF Pcs
  <2> QED BY <1>2, <2>1, PodsKept DEF ProvisionStart, store, NoPodAdded
<1>3. CASE ProvisionPublish(p)
  <2>1. NobodyAboutToRun
    <3>1. \E pc \in {"finish", "fail"} : To(p, pc)
      BY <1>3 DEF ProvisionPublish
    <3> QED BY <1>0, <3>1, ToNotAboutToRun DEF Pcs
  <2> QED BY <1>3, <2>1, PodsKept DEF ProvisionPublish, NoPodAdded
<1>4. CASE ProvisionFinish(p) \/ ProvisionNote(p)
  BY <1>0, <1>4, PodsKept, FinishNotAboutToRun
  DEF ProvisionFinish, ProvisionNote, NoPodAdded
<1>5. CASE ProvisionFail(p)
  BY <1>0, <1>5, PodsKept, ToNotAboutToRun DEF ProvisionFail, NoPodAdded, Pcs
<1>6. CASE ProvisionClean(p)
  <2>1. s \in Sandbox
    BY <1>0, <1>6 DEF ProvisionClean, TypeOK, TasksOK, BusyPcs, LockedPcs
  <2>2. NoPodAdded
    BY <1>6, <2>1, StopPodObeyed DEF ProvisionClean, RemoveArtifacts
  <2>3. NobodyAboutToRun
    BY <1>0, <1>6, ToNotAboutToRun DEF ProvisionClean, Pcs
  <2> QED BY <2>2, <2>3, PodsKept
<1>7. CASE ProvisionMark(p)
  <2>1. NobodyAboutToRun
    <3> DEFINE t == [task[p] EXCEPT !.pc = "note", !.copy = state[s]]
    <3>1. t.pc = "note"
      BY <1>0 DEF Task
    <3>2. Finish(p) \/ Become(p, t)
      BY <1>7 DEF ProvisionMark
    <3> HIDE DEF t
    <3> QED BY <1>0, <3>1, <3>2, NotAboutToRun, FinishNotAboutToRun
  <2> QED BY <1>7, <2>1, PodsKept DEF ProvisionMark, store, NoPodAdded
<1> QED BY <1>1, <1>2, <1>3, <1>4, <1>5, <1>6, <1>7, SweepPods, RunPods DEF Provision

\* Deletions and reconcile passes.
LEMMA RemovalPods ==
  ASSUME TypeOK, PodsOK, "stop" \notin Faults,
         NEW w \in Deleter \cup Reconciler, RemoveSandbox(w) \/ EraseState(w)
  PROVE  PodsOK'
<1>0. w \in Worker
  BY DEF Worker
<1>1. CASE RemoveSandbox(w)
  <2>1. task[w].sb \in Sandbox
    BY <1>0, <1>1 DEF RemoveSandbox, TypeOK, TasksOK, BusyPcs, LockedPcs
  <2>2. NoPodAdded
    BY <1>1, <2>1, StopPodObeyed DEF RemoveSandbox, RemoveArtifacts
  <2>3. NobodyAboutToRun
    BY <1>0, <1>1, ToNotAboutToRun DEF RemoveSandbox, Pcs
  <2> QED BY <2>2, <2>3, PodsKept
<1>2. CASE EraseState(w)
  <2>1. Become(w, At("done")) \/ NextVisit(w)
    BY <1>2 DEF EraseState, NextVisit
  <2>2. NobodyAboutToRun
    BY <1>0, <2>1, DoneNotAboutToRun, NextVisitNotAboutToRun
  <2> QED BY <1>2, <2>2, PodsKept DEF EraseState, NoPodAdded
<1> QED BY <1>1, <1>2

LEMMA DeletePods ==
  ASSUME TypeOK, PodsOK, "stop" \notin Faults, NEW w \in Deleter, Delete(w)
  PROVE  PodsOK'
<1>1. CASE DeleteMark(w)
  <2>1. NobodyAboutToRun
    BY <1>1, ToNotAboutToRun DEF DeleteMark, Pcs, Worker
  <2> QED BY <1>1, <2>1, PodsKept DEF DeleteMark, NoPodAdded
<1> QED BY <1>1, RemovalPods DEF Delete

LEMMA ReconcilePods ==
  ASSUME TypeOK, PodsOK, "stop" \notin Faults, NEW w \in Reconciler, Reconcile(w)
  PROVE  PodsOK'
<1>0. w \in Worker /\ task[w] \in Task
  BY DEF Worker, TypeOK, TasksOK
<1>1. CASE ReconcileList(w)
  <2>1. PICK list \in Listings :
          Become(w, [At("visit") EXCEPT !.list = list, !.todo = Listed(list)])
    BY <1>1 DEF ReconcileList
  <2> DEFINE t == [At("visit") EXCEPT !.list = list, !.todo = Listed(list)]
  <2>2. t.pc = "visit" /\ Become(w, t)
    BY <2>1 DEF At
  <2>3. NobodyAboutToRun
    <3> HIDE DEF t
    <3> QED BY <1>0, <2>2, NotAboutToRun
  <2> QED BY <1>1, <2>3, PodsKept DEF ReconcileList, store, NoPodAdded
<1>2. ASSUME NEW s \in Sandbox, ReconcileVisit(w, s)
      PROVE  PodsOK'
  <2> DEFINE x  == task[w].list[s]
             pc == IF lock[s] # Nobody THEN "visit" ELSE VisitTarget(x)
             t  == [task[w] EXCEPT
                      !.pc = pc,
                      !.todo = @ \ {s},
                      !.sb   = IF pc = "visit" THEN NoSandbox ELSE s,
                      !.copy = IF pc = "visit" THEN NoState ELSE x]
  <2>1. pc # "run"
    BY DEF VisitTarget
  <2>2. Become(w, t)
    BY <1>2 DEF ReconcileVisit
  <2> HIDE DEF pc, x
  <2>3. t.pc # "run"
    BY <1>0, <2>1 DEF Task
  <2>4. NobodyAboutToRun
    <3> HIDE DEF t
    <3> QED BY <1>0, <2>2, <2>3, NotAboutToRun
  <2> QED BY <1>2, <2>4, PodsKept DEF ReconcileVisit, store, NoPodAdded
<1>3. CASE ReconcileExpire(w)
  BY <1>0, <1>3, NextVisitNotAboutToRun, PodsKept DEF ReconcileExpire, NoPodAdded
<1>4. CASE ReconcileExamine(w)
  <2>1. NextVisit(w) \/ To(w, "remove")
    BY <1>4 DEF ReconcileExamine
  <2>2. NobodyAboutToRun
    BY <1>0, <2>1, NextVisitNotAboutToRun, ToNotAboutToRun DEF Pcs
  <2> QED BY <1>4, <2>2, PodsKept DEF ReconcileExamine, store, NoPodAdded
<1>5. CASE ReconcileSweep(w)
  <2>1. NobodyAboutToRun
    BY <1>0, <1>5, NotAboutToRun DEF ReconcileSweep, At
  <2> QED BY <1>5, <2>1, PodsKept DEF ReconcileSweep, NoPodAdded
<1> QED BY <1>1, <1>2, <1>3, <1>4, <1>5, RemovalPods DEF Reconcile

LEMMA EnvironmentPods ==
  ASSUME TypeOK, PodsOK, Environment
  PROVE  PodsOK'
<1>1. ASSUME NEW s \in Sandbox, NEW w \in Creator, CreateBegin(w, s)
      PROVE  PodsOK'
  <2> DEFINE pc == IF pods[s] = {} THEN "ports" ELSE "cleanup"
             t  == [At(pc) EXCEPT !.sb = s]
  <2>1. Become(w, At("done")) \/ Become(w, t)
    BY <1>1 DEF CreateBegin
  <2>2. t.pc # "run" /\ w \in Worker
    BY DEF At, Worker
  <2>3. NobodyAboutToRun
    <3> HIDE DEF t
    <3> QED BY <2>1, <2>2, NotAboutToRun, DoneNotAboutToRun
  <2> QED BY <1>1, <2>3, PodsKept DEF CreateBegin, store, NoPodAdded
<1>2. ASSUME NEW s \in Sandbox, NEW w \in Deleter, DeleteBegin(w, s)
      PROVE  PodsOK'
  <2> DEFINE t == [At("drop") EXCEPT !.sb = s, !.copy = state[s]]
  <2>1. Become(w, At("done")) \/ Become(w, t)
    BY <1>2 DEF DeleteBegin
  <2>2. t.pc # "run" /\ w \in Worker
    BY DEF At, Worker
  <2>3. NobodyAboutToRun
    <3> HIDE DEF t
    <3> QED BY <2>1, <2>2, NotAboutToRun, DoneNotAboutToRun
  <2> QED BY <1>2, <2>3, PodsKept DEF DeleteBegin, store, NoPodAdded
<1>3. ASSUME NEW s \in Sandbox, NEW w \in Creator \cup Deleter, RequestTimeout(w, s)
      PROVE  PodsOK'
  <2>1. NobodyAboutToRun
    BY <1>3, DoneNotAboutToRun DEF RequestTimeout, Worker
  <2> QED BY <1>3, <2>1, PodsKept DEF RequestTimeout, store, NoPodAdded
<1>4. ASSUME NEW w \in Creator, CreateTimeout(w)
      PROVE  PodsOK'
  <2>1. NobodyAboutToRun
    BY <1>4, FinishNotAboutToRun DEF CreateTimeout, Worker
  <2> QED BY <1>4, <2>1, PodsKept DEF CreateTimeout, store, NoPodAdded
<1>5. ASSUME NEW p \in Provisioner, ProvisionTimeout(p)
      PROVE  PodsOK'
  <2>1. NobodyAboutToRun
    BY <1>5, ToNotAboutToRun DEF ProvisionTimeout, Pcs, Worker
  <2> QED BY <1>5, <2>1, PodsKept DEF ProvisionTimeout, store, NoPodAdded
<1>6. ASSUME UNCHANGED <<pods, task>>
      PROVE  PodsOK'
  BY <1>6, PodsKept DEF NoPodAdded, NobodyAboutToRun
<1>7. CASE Crash
  <2>1. \A w \in Worker : task'[w] \in {At("idle"), At("done"), At("new")}
    BY <1>7 DEF Crash
  <2>2. NobodyAboutToRun
    BY <2>1 DEF NobodyAboutToRun, At, Worker
  <2> QED BY <1>7, <2>2, PodsKept DEF Crash, NoPodAdded
<1> QED BY <1>1, <1>2, <1>3, <1>4, <1>5, <1>6, <1>7
        DEF Environment, ContainerExits, Age, GracePasses, store

LEMMA NextPods ==
  ASSUME TypeOK, PodsOK, "stop" \notin Faults, [Next]_vars
  PROVE  PodsOK'
<1>1. CASE UNCHANGED vars
  BY <1>1, PodsKept DEF vars, store, NoPodAdded, NobodyAboutToRun
<1> QED BY <1>1, CreatePods, ProvisionPods, DeletePods, ReconcilePods, EnvironmentPods DEF Next

LEMMA InitPods == Init => PodsOK
<1> SUFFICES ASSUME Init PROVE PodsOK
  OBVIOUS
<1>1. ASSUME NEW p \in Provisioner
      PROVE  task[p].pc # "run"
  BY WorkersAssumption DEF Init, Worker, At
<1> QED BY <1>1 DEF Init, PodsOK, AtMostOnePod, SweptClean

\* While the runtime obeys stop and remove, it never has two pods for one sandbox:
\* with any number of creations, deletions and reconcile passes of the id, any order of
\* their steps, failures, lock waits that time out and crashes (provisionSandbox,
\* createPodSandboxCRI, ReconcileOnce).
THEOREM NeverTwoPods ==
  ASSUME "stop" \notin Faults
  PROVE  Spec => []AtMostOnePod
<1>1. Init => PodsOK
  BY InitPods
<1>2. TypeOK /\ PodsOK /\ [Next]_vars => PodsOK'
  BY NextPods
<1>3. PodsOK => AtMostOnePod
  BY DEF PodsOK
<1> QED BY TypeCorrect, <1>1, <1>2, <1>3, PTL DEF Spec
=============================================================================
