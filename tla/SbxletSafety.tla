----------------------------- MODULE SbxletSafety -----------------------------
(***************************************************************************)
(* Two promises of the requests and the provisionings of sbxlet, for any   *)
(* number of them: every pod is named by a state file, and what was        *)
(* admitted fits the node.                                                 *)
(***************************************************************************)
EXTENDS SbxletRefinement, FiniteSetTheorems

-----------------------------------------------------------------------------
(***************************************************************************)
(* Every pod is named.  Whoever holds the flock of a sandbox knows its     *)
(* pods: there is none, or its copy of the state names the only one.  The  *)
(* file may name none meanwhile, but it does when the flock is given back. *)
(***************************************************************************)
NamesPods == Reconciler = {} /\ Faults \cap {"limits", "stop", "timeout"} = {} /\ MaxCrashes = 0

NoPodPcs  == CreationPcs \cup {"run", "mark", "note", "erase"}
OnePodPcs == {"sweep", "start", "publish", "finish", "fail", "clean", "drop", "remove"}

KnowsPods(s, t, pd) ==
  /\ t.sb = s
  /\ \/ t.pc \in NoPodPcs /\ pd[s] = {}
     \/ t.pc \in OnePodPcs /\ pd[s] \subseteq {t.copy.pod}

NamedInv ==
  /\ TypeOK
  /\ \A s \in Sandbox : state[s].phase = "none" => state[s].pod = NoPod
  /\ PodsAreNamed
  /\ \A s \in Sandbox, w \in Worker : lock[s] = w => KnowsPods(s, task[w], pods)
  /\ \A p \in Provisioner : task[p].pc \in {"mark", "note"} => lock[task[p].sb] = p
  /\ \A c \in Creator : task[c].pc # "done" => task[<<"provision", c>>].pc = "done"

Names(s) == lock'[s] = Nobody => pods'[s] \subseteq {state'[s].pod}

\* A goroutine that works on s leaves the other sandboxes alone.
LeavesOthers(s) ==
  \A r \in Sandbox \ {s} :
    lock'[r] = lock[r] /\ state'[r] = state[r] /\ pods'[r] = pods[r]

LEMMA HolderKnows ==
  ASSUME NamedInv, NEW w \in Worker \ Reconciler, task[w].pc \in LockedPcs
  PROVE  /\ task[w].sb \in Sandbox /\ lock[task[w].sb] = w
         /\ KnowsPods(task[w].sb, task[w], pods)
         /\ \A r \in Sandbox \ {task[w].sb} : lock[r] # w
<1>1. task[w].sb \in Sandbox /\ lock[task[w].sb] = w
  BY DEF NamedInv, TypeOK, TasksOK, BusyPcs
<1>2. \A r \in Sandbox : lock[r] = w => KnowsPods(r, task[w], pods)
  BY DEF NamedInv
<1> QED BY <1>1, <1>2 DEF KnowsPods

LEMMA NoHolder ==
  ASSUME NamedInv, NEW w \in Worker, task[w].pc \notin NoPodPcs \cup OnePodPcs
  PROVE  \A s \in Sandbox : lock[s] # w
BY DEF NamedInv, KnowsPods

LEMMA NamedTurn ==
  ASSUME NamedInv, TypeOK', NEW w \in Worker, NEW s \in Sandbox, NEW t, Become(w, t),
         task[w].pc # "done", LeavesOthers(s), Names(s),
         lock[s] \in {w, Nobody}, lock'[s] \in {w, Nobody},
         \A r \in Sandbox \ {s} : lock[r] # w,
         state'[s].phase = "none" => state'[s].pod = NoPod,
         lock'[s] = w => KnowsPods(s, t, pods'),
         w \in Provisioner /\ t.pc \in {"mark", "note"} => t.sb = s /\ lock'[s] = w
  PROVE  NamedInv'
<1>0. /\ TypeOK /\ TasksOK /\ Nobody \notin Worker
      /\ \A v \in Worker : task'[v] = IF v = w THEN t ELSE task[v]
  BY NamesAssumption DEF NamedInv, TypeOK, TasksOK, Become
<1>1. \A r \in Sandbox : state'[r].phase = "none" => state'[r].pod = NoPod
  BY DEF NamedInv, LeavesOthers
<1>2. PodsAreNamed'
  BY DEF NamedInv, PodsAreNamed, LeavesOthers, Names
<1>3. ASSUME NEW r \in Sandbox, NEW v \in Worker, lock'[r] = v
      PROVE  KnowsPods(r, task'[v], pods')
  <2>1. CASE r = s
    <3>1. v = w /\ task'[v] = t
      BY <1>0, <1>3, <2>1
    <3> QED BY <1>3, <2>1, <3>1
  <2>2. CASE r # s
    <3>1. lock[r] = v /\ v # w /\ task'[v] = task[v] /\ pods'[r] = pods[r]
      BY <1>0, <1>3, <2>2 DEF LeavesOthers
    <3> QED BY <3>1 DEF NamedInv, KnowsPods
  <2> QED BY <2>1, <2>2
<1>4. ASSUME NEW p \in Provisioner, task'[p].pc \in {"mark", "note"}
      PROVE  lock'[task'[p].sb] = p
  <2>1. CASE p = w
    BY <1>0, <1>4, <2>1
  <2>2. CASE p # w
    <3>1. p \in Worker /\ task'[p] = task[p]
      BY <1>0, <2>2 DEF Worker
    <3>2. lock[task[p].sb] = p /\ task[p].sb \in Sandbox
      BY <1>0, <1>4, <3>1 DEF NamedInv, TasksOK, BusyPcs
    <3>3. task[p].sb # s
      BY <1>0, <2>2, <3>1, <3>2
    <3> QED BY <3>1, <3>2, <3>3 DEF LeavesOthers
  <2> QED BY <2>1, <2>2
<1>5. ASSUME NEW c \in Creator, task'[c].pc # "done"
      PROVE  task'[<<"provision", c>>].pc = "done"
  <2>1. c \in Worker /\ <<"provision", c>> \in Worker
    BY DEF Worker, Provisioner
  <2>2. task[c].pc # "done"
    BY <1>0, <1>5, <2>1
  <2>3. task[<<"provision", c>>].pc = "done"
    BY <2>2 DEF NamedInv
  <2> QED BY <1>0, <2>1, <2>3
<1> QED BY <1>1, <1>2, <1>3, <1>4, <1>5 DEF NamedInv

\* The holder of the flock of s goes on with it ...
LEMMA NamedOn ==
  ASSUME NamedInv, TypeOK', NEW w \in Worker \ Reconciler, task[w].pc \in LockedPcs \cup {"mark", "note"},
         NEW s \in Sandbox, lock[s] = w, \A r \in Sandbox \ {s} : lock[r] # w,
         \A r \in Sandbox : lock'[r] = lock[r], LeavesOthers(s), NEW t, Become(w, t),
         state'[s].phase = "none" => state'[s].pod = NoPod, KnowsPods(s, t, pods')
  PROVE  NamedInv'
<1>1. task[w].pc # "done" /\ Nobody \notin Worker
  BY NamesAssumption DEF LockedPcs
<1>2. Names(s) /\ t.sb = s
  BY <1>1 DEF Names, KnowsPods
<1> QED BY <1>1, <1>2, NamedTurn

\* ... or gives it back: the file names what is there.
LEMMA NamedEnd ==
  ASSUME NamedInv, TypeOK', NEW w \in Worker \ Reconciler, task[w].pc \in LockedPcs \cup {"mark", "note"},
         NEW s \in Sandbox, lock[s] = w, \A r \in Sandbox \ {s} : lock[r] # w,
         lock' = Unlocked(w), \A r \in Sandbox \ {s} : state'[r] = state[r] /\ pods'[r] = pods[r],
         Become(w, At("done")),
         state'[s].phase = "none" => state'[s].pod = NoPod, pods'[s] \subseteq {state'[s].pod}
  PROVE  NamedInv'
<1>1. task[w].pc # "done" /\ Nobody \notin Worker /\ Sandbox \subseteq Lock
  BY NamesAssumption DEF LockedPcs, Lock
<1>2. Names(s) /\ LeavesOthers(s) /\ lock'[s] = Nobody
  BY <1>1 DEF Names, LeavesOthers, Unlocked
<1>3. At("done").pc = "done"
  BY DEF At
<1> QED BY <1>1, <1>2, <1>3, NamedTurn

\* A goroutine without a flock stays without.
LEMMA NamedIdle ==
  ASSUME NamedInv, TypeOK', NEW w \in Worker, NEW s \in Sandbox, task[w].pc \in {"new", "lock"},
         lock[s] = Nobody \/ lock[s] # w, UNCHANGED <<state, pods, lock>>, Become(w, At("done"))
  PROVE  NamedInv'
<1>1. \A r \in Sandbox : lock[r] # w
  BY NoHolder DEF NoPodPcs, OnePodPcs, CreationPcs
<1>2. At("done").pc = "done" /\ TypeOK /\ TasksOK
  BY DEF At, NamedInv, TypeOK
<1>3. \A v \in Worker : task'[v] = IF v = w THEN At("done") ELSE task[v]
  BY <1>2 DEF TasksOK, Become
<1>4. PodsAreNamed'
  BY DEF NamedInv, PodsAreNamed
<1>5. \A r \in Sandbox, v \in Worker : lock'[r] = v => KnowsPods(r, task'[v], pods')
  BY <1>1, <1>3 DEF NamedInv
<1>6. \A p \in Provisioner : task'[p].pc \in {"mark", "note"} => lock'[task'[p].sb] = p
  BY <1>2, <1>3 DEF NamedInv, Worker
<1>7. \A c \in Creator : task'[c].pc # "done" => task'[<<"provision", c>>].pc = "done"
  BY <1>2, <1>3 DEF NamedInv, Worker, Provisioner
<1> QED BY <1>4, <1>5, <1>6, <1>7 DEF NamedInv

LEMMA CreateBeginNamed ==
  ASSUME NamedInv, TypeOK', NEW w \in Creator, NEW s \in Sandbox, CreateBegin(w, s)
  PROVE  NamedInv'
<1>0. /\ w \in Worker /\ task[w].pc = "new" /\ lock[s] = Nobody /\ TypeOK
      /\ UNCHANGED <<state, pods>> /\ Nobody \notin Worker /\ s \in Lock
  BY NamesAssumption DEF Worker, CreateBegin, store, NamedInv, Lock
<1>1. CASE state[s].phase # "none"
  BY <1>0, <1>1, NamedIdle DEF CreateBegin
<1>2. CASE state[s].phase = "none"
  <2>1. pods[s] = {}
    <3>1. pods[s] \subseteq {NoPod} /\ pods[s] \subseteq Creator
      BY <1>0, <1>2 DEF NamedInv, PodsAreNamed, TypeOK
    <3> QED BY <3>1, NamesAssumption
  <2> DEFINE t == [At("ports") EXCEPT !.sb = s]
  <2>2. Become(w, t) /\ lock' = [lock EXCEPT ![s] = w]
    BY <1>2, <2>1, <1>0 DEF CreateBegin, Taken
  <2>3. t.pc = "ports" /\ t.sb = s
    BY DEF At
  <2> HIDE DEF t
  <2>4. lock'[s] = w /\ LeavesOthers(s) /\ Names(s)
    BY <1>0, <2>2 DEF TypeOK, LeavesOthers, Names
  <2>5. KnowsPods(s, t, pods')
    BY <1>0, <2>1, <2>3 DEF KnowsPods, NoPodPcs, CreationPcs
  <2>6. \A r \in Sandbox : lock[r] # w
    BY <1>0, NoHolder DEF NoPodPcs, OnePodPcs, CreationPcs
  <2>7. state'[s].phase = "none" => state'[s].pod = NoPod
    BY <1>0 DEF NamedInv
  <2> QED BY <1>0, <2>2, <2>3, <2>4, <2>5, <2>6, <2>7, NamedTurn
<1> QED BY <1>1, <1>2

LEMMA CreateNamed ==
  ASSUME NamedInv, TypeOK', NEW w \in Creator, Create(w)
  PROVE  NamedInv'
<1> DEFINE s == task[w].sb
<1>0. /\ w \in Worker \ Reconciler /\ TypeOK /\ TasksOK /\ task[w] \in Task
      /\ {"_ports", "_admission"} \cap Sandbox = {} /\ Sandbox \subseteq Lock
      /\ w \notin Provisioner
  BY WorkersAssumption, NamesAssumption DEF Worker, NamedInv, TypeOK, TasksOK, Lock
<1>1. task[w].pc \in CreationPcs
  BY DEF Create, CreateCleanup, CreatePorts, CreateReserve, CreateAdmit, CreateSave, CreationPcs
<1>2. task[w].pc \in LockedPcs
  BY <1>1 DEF CreationPcs, LockedPcs
<1>3. /\ s \in Sandbox /\ lock[s] = w /\ \A r \in Sandbox \ {s} : lock[r] # w
      /\ pods[s] = {}
  BY <1>0, <1>1, <1>2, HolderKnows DEF KnowsPods, OnePodPcs, CreationPcs
<1>4. state[s].phase = "none" => state[s].pod = NoPod
  BY <1>3 DEF NamedInv
<1>5. ASSUME NEW t, Become(w, t), t.pc \in CreationPcs, t.sb = s, UNCHANGED <<state, pods>>,
             \A r \in Sandbox : lock'[r] = lock[r]
      PROVE  NamedInv'
  <2>1. KnowsPods(s, t, pods') /\ LeavesOthers(s)
    BY <1>3, <1>5 DEF KnowsPods, NoPodPcs, LeavesOthers
  <2> QED BY <1>0, <1>2, <1>3, <1>4, <1>5, <2>1, NamedOn
<1>6. ASSUME NEW pc \in CreationPcs, To(w, pc), UNCHANGED <<state, pods>>,
             \A r \in Sandbox : lock'[r] = lock[r]
      PROVE  NamedInv'
  <2> DEFINE t == [task[w] EXCEPT !.pc = pc]
  <2>1. t.pc = pc /\ t.sb = s /\ Become(w, t)
    BY <1>0, <1>6 DEF Task, To
  <2> HIDE DEF t
  <2> QED BY <1>5, <1>6, <2>1
<1>7. ASSUME Finish(w), UNCHANGED <<state, pods>>
      PROVE  NamedInv'
  BY <1>0, <1>2, <1>3, <1>4, <1>7, NamedEnd DEF Finish
<1>8. CASE CreateCleanup(w)
  <2>1. UNCHANGED <<state, pods, lock>>
    BY <1>0, <1>3, <1>8 DEF CreateCleanup, Save, TypeOK, memory
  <2> QED BY <1>6, <1>8, <2>1 DEF CreateCleanup, CreationPcs
<1>9. CASE CreatePorts(w)
  <2>1. PICK list : Become(w, [task[w] EXCEPT !.pc = "reserve", !.list = list])
    BY <1>9 DEF CreatePorts
  <2> DEFINE t == [task[w] EXCEPT !.pc = "reserve", !.list = list]
  <2>2. t.pc = "reserve" /\ t.sb = s
    BY <1>0 DEF Task
  <2>3. \A r \in Sandbox : lock'[r] = lock[r]
    BY <1>0, <1>9 DEF CreatePorts, Taken, TypeOK
  <2> HIDE DEF t
  <2> QED BY <1>5, <1>9, <2>1, <2>2, <2>3 DEF CreatePorts, store, CreationPcs, t
<1>10. CASE CreateReserve(w)
  <2>1. UNCHANGED <<state, pods>>
    BY <1>10 DEF CreateReserve, store
  <2>2. CASE Finish(w)
    BY <1>7, <2>1, <2>2
  <2>3. CASE ~ Finish(w)
    <3> DEFINE t == [task[w] EXCEPT !.pc = "admit", !.list = NoList]
    <3>1. t.pc = "admit" /\ t.sb = s
      BY <1>0 DEF Task
    <3>2. lock' = [lock EXCEPT !["_ports"] = Nobody] /\ Become(w, t)
      BY <1>10, <2>3 DEF CreateReserve
    <3>3. \A r \in Sandbox : lock'[r] = lock[r]
      BY <1>0, <3>2 DEF TypeOK
    <3> HIDE DEF t
    <3> QED BY <1>5, <2>1, <3>1, <3>2, <3>3 DEF CreationPcs
  <2> QED BY <2>2, <2>3
<1>11. CASE CreateAdmit(w)
  <2>1. UNCHANGED <<state, pods>>
    BY <1>11 DEF CreateAdmit, store
  <2>2. CASE Finish(w)
    BY <1>7, <2>1, <2>2
  <2>3. CASE ~ Finish(w)
    <3>1. To(w, "save") /\ Taken(w, "_admission")
      BY <1>11, <2>3 DEF CreateAdmit
    <3>2. \A r \in Sandbox : lock'[r] = lock[r]
      BY <1>0, <3>1 DEF TypeOK, Taken
    <3> QED BY <1>6, <2>1, <3>1, <3>2 DEF CreationPcs
  <2> QED BY <2>2, <2>3
<1>12. CASE CreateSave(w)
  <2> DEFINE p == <<"provision", w>>
             t == [At("lock") EXCEPT !.sb = s]
  <2>1. /\ p \in Provisioner /\ p \in Worker /\ w # p /\ Nobody \notin Worker
        /\ t.pc = "lock" /\ At("done").pc = "done"
    BY <1>0, NamesAssumption DEF Provisioner, Worker, At
  <2>2. task[p].pc = "done" /\ \A r \in Sandbox : lock[r] # p
    <3>1. task[p].pc = "done"
      BY <1>1 DEF NamedInv, CreationPcs
    <3> QED BY <2>1, <3>1, NoHolder DEF NoPodPcs, OnePodPcs, CreationPcs
  <2>3. \A v \in Worker : task'[v] = IF v = w THEN At("done") ELSE IF v = p THEN t ELSE task[v]
    BY <1>0, <1>12, <2>1 DEF CreateSave, TasksOK
  <2> HIDE DEF t
  <2>4. \A r \in Sandbox : lock'[r] = IF r = s THEN Nobody ELSE lock[r]
    BY <1>0, <1>3, <1>12 DEF CreateSave, Unlocked
  <2>5. UNCHANGED pods /\ \A r \in Sandbox : state'[r] = IF r = s THEN NewState ELSE state[r]
    BY <1>0, <1>3, <1>12 DEF CreateSave, Save, TypeOK
  <2>6. NewState.phase = "creating"
    BY DEF NewState, NoState
  <2>7. PodsAreNamed'
    BY <1>3, <2>4, <2>5 DEF NamedInv, PodsAreNamed
  <2>8. \A r \in Sandbox : state'[r].phase = "none" => state'[r].pod = NoPod
    BY <2>5, <2>6 DEF NamedInv
  <2>9. \A r \in Sandbox, v \in Worker : lock'[r] = v => KnowsPods(r, task'[v], pods')
    BY <1>3, <2>1, <2>2, <2>3, <2>4, <2>5 DEF NamedInv
  <2>10. ASSUME NEW q \in Provisioner, task'[q].pc \in {"mark", "note"}
         PROVE  lock'[task'[q].sb] = q
    <3>1. q \in Worker /\ q # w /\ q # p /\ task'[q] = task[q]
      BY <1>0, <2>1, <2>3, <2>10 DEF Worker
    <3>2. task[q].sb \in Sandbox /\ lock[task[q].sb] = q
      BY <1>0, <2>10, <3>1 DEF NamedInv, TasksOK, BusyPcs
    <3> QED BY <1>3, <2>4, <3>1, <3>2
  <2>11. ASSUME NEW c \in Creator, task'[c].pc # "done"
         PROVE  task'[<<"provision", c>>].pc = "done"
    <3>1. c \in Worker /\ c \notin Provisioner /\ <<"provision", c>> \in Worker
      BY WorkersAssumption DEF Worker, Provisioner
    <3>2. c # w /\ c # p
      BY <2>1, <2>3, <2>11, <3>1
    <3>3. <<"provision", c>> # p /\ <<"provision", c>> # w
      BY <1>0, <3>2 DEF Provisioner
    <3> QED BY <2>3, <2>11, <3>1, <3>2, <3>3 DEF NamedInv
  <2> QED BY <2>7, <2>8, <2>9, <2>10, <2>11 DEF NamedInv
<1> QED BY <1>8, <1>9, <1>10, <1>11, <1>12 DEF Create

LEMMA NoStopFault == NamesPods => "stop" \notin Faults
BY DEF NamesPods

LEMMA ProvisionNamed ==
  ASSUME NamedInv, NamesPods, TypeOK', NEW w \in Provisioner, Provision(w)
  PROVE  NamedInv'
<1> DEFINE s == task[w].sb
           old == task[w].copy
<1>0. /\ w \in Worker \ Reconciler /\ w \notin Creator /\ w[2] \in Creator
      /\ TypeOK /\ TasksOK /\ task[w] \in Task /\ old \in State
  BY WorkersAssumption DEF Worker, Provisioner, NamedInv, TypeOK, TasksOK, Task
<1>1. ASSUME task[w].pc \in ProvisionPcs
      PROVE  /\ s \in Sandbox /\ lock[s] = w /\ KnowsPods(s, task[w], pods)
             /\ \A r \in Sandbox \ {s} : lock[r] # w
             /\ state[s].phase = "none" => state[s].pod = NoPod
             /\ task[w].pc \in LockedPcs \cup {"mark", "note"}
  <2>1. s \in Sandbox /\ lock[s] = w
    BY <1>0, <1>1 DEF ProvisionPcs, NamedInv, TasksOK, BusyPcs, LockedPcs
  <2>2. \A r \in Sandbox : lock[r] = w => KnowsPods(r, task[w], pods)
    BY <1>0 DEF NamedInv
  <2> QED BY <1>1, <2>1, <2>2 DEF KnowsPods, ProvisionPcs, LockedPcs, NamedInv
<1>2. ASSUME NEW t, Become(w, t), KnowsPods(s, t, pods'), UNCHANGED lock, LeavesOthers(s),
             task[w].pc \in ProvisionPcs,
             state'[s].phase = "none" => state'[s].pod = NoPod
      PROVE  NamedInv'
  BY <1>0, <1>1, <1>2, NamedOn
<1>3. ASSUME NEW pc, To(w, pc), UNCHANGED <<lock, state>>, task[w].pc \in ProvisionPcs,
             \A r \in Sandbox \ {s} : pods'[r] = pods[r],
             \/ pc \in NoPodPcs /\ pods'[s] = {}
             \/ pc \in OnePodPcs /\ pods'[s] \subseteq {old.pod}
      PROVE  NamedInv'
  <2> DEFINE t == [task[w] EXCEPT !.pc = pc]
  <2>1. t.pc = pc /\ t.sb = s /\ t.copy = old /\ Become(w, t)
    BY <1>0, <1>3 DEF Task, To
  <2> HIDE DEF t
  <2>2. KnowsPods(s, t, pods') /\ LeavesOthers(s)
    BY <1>3, <2>1 DEF KnowsPods, LeavesOthers
  <2> QED BY <1>1, <1>2, <1>3, <2>1, <2>2
<1>4. CASE ProvisionBegin(w)
  <2>0. s \in Sandbox /\ lock[s] = Nobody /\ UNCHANGED <<state, pods>> /\ task[w].pc = "lock"
        /\ Nobody \notin Worker /\ s \in Lock
    BY <1>0, <1>4, NamesAssumption DEF ProvisionBegin, store, TasksOK, BusyPcs, Lock
  <2>1. CASE state[s].phase \in {"none", "corrupt"}
    BY <1>0, <1>4, <2>0, <2>1, NamedIdle DEF ProvisionBegin
  <2>2. CASE state[s].phase \notin {"none", "corrupt"}
    <3> DEFINE t == [task[w] EXCEPT !.pc = "sweep", !.copy = state[s]]
    <3>1. t.pc = "sweep" /\ t.sb = s /\ t.copy = state[s] /\ Become(w, t) /\ Taken(w, s)
      BY <1>0, <1>4, <2>2 DEF ProvisionBegin, Task
    <3> HIDE DEF t
    <3>2. lock'[s] = w /\ LeavesOthers(s) /\ Names(s)
      BY <1>0, <2>0, <3>1 DEF Taken, TypeOK, LeavesOthers, Names
    <3>3. KnowsPods(s, t, pods')
      BY <2>0, <3>1 DEF KnowsPods, OnePodPcs, NamedInv, PodsAreNamed
    <3>4. \A r \in Sandbox : lock[r] # w
      BY <1>0, <2>0, NoHolder DEF NoPodPcs, OnePodPcs, CreationPcs
    <3>5. state'[s].phase = "none" => state'[s].pod = NoPod
      BY <2>0 DEF NamedInv
    <3> QED BY <1>0, <2>0, <3>1, <3>2, <3>3, <3>4, <3>5, NamedTurn
  <2> QED BY <2>1, <2>2
<1>5. CASE ProvisionSweep(w)
  <2>1. task[w].pc = "sweep" /\ To(w, "run") /\ UNCHANGED <<lock, state>>
    BY <1>5 DEF ProvisionSweep, memory
  <2>2. s \in Sandbox /\ pods[s] \subseteq {old.pod}
    BY <1>1, <2>1 DEF ProvisionPcs, KnowsPods, NoPodPcs, CreationPcs
  <2>3. pods'[s] = {} /\ \A r \in Sandbox \ {s} : pods'[r] = pods[r]
    <3>1. CASE pods[s] = {}
      BY <1>5, <3>1, <2>2 DEF ProvisionSweep
    <3>2. CASE pods[s] # {}
      <4>1. PICK q \in pods[s] : StopPod(s, q)
        BY <1>5, <3>2 DEF ProvisionSweep
      <4>2. \A r \in Sandbox : pods'[r] = IF r = s THEN pods[s] \ {q} ELSE pods[r]
        BY <1>0, <2>2, <4>1, NoStopFault, StopPodObeyed
      <4> QED BY <2>2, <4>1, <4>2
    <3> QED BY <3>1, <3>2
  <2> QED BY <1>3, <2>1, <2>3 DEF ProvisionPcs, NoPodPcs
<1>6. CASE ProvisionRun(w)
  <2>1. task[w].pc = "run" /\ UNCHANGED <<lock, state>>
    BY <1>6 DEF ProvisionRun, memory
  <2>2. /\ s \in Sandbox /\ pods[s] = {} /\ task[w].pc \in ProvisionPcs
        /\ state[s].phase = "none" => state[s].pod = NoPod
    BY <1>1, <2>1 DEF ProvisionPcs, KnowsPods, OnePodPcs
  <2>3. CASE To(w, "fail")
    <3>1. ~ Fault("limits")
      BY DEF NamesPods, Fault
    <3>2. ~ Become(w, [task[w] EXCEPT !.pc = "start", !.copy.pod = w[2]])
      <4>1. /\ [task[w] EXCEPT !.pc = "start", !.copy.pod = w[2]].pc = "start"
            /\ [task[w] EXCEPT !.pc = "fail"].pc = "fail"
        BY <1>0 DEF Task
      <4> QED BY <1>0, <2>3, <4>1 DEF To, Become, TasksOK
    <3>3. UNCHANGED pods
      BY <1>6, <3>1, <3>2 DEF ProvisionRun
    <3> QED BY <1>3, <2>1, <2>2, <2>3, <3>3 DEF OnePodPcs
  <2>4. CASE ~ To(w, "fail")
    <3> DEFINE t == [task[w] EXCEPT !.pc = "start", !.copy.pod = w[2]]
    <3>1. t.pc = "start" /\ t.sb = s /\ t.copy.pod = w[2]
      BY <1>0 DEF Task, State
    <3>2. Become(w, t) /\ pods' = [pods EXCEPT ![s] = @ \cup {w[2]}]
      BY <1>6, <2>4 DEF ProvisionRun
    <3> HIDE DEF t
    <3>3. pods'[s] = {w[2]} /\ LeavesOthers(s)
      BY <1>0, <2>1, <2>2, <3>2 DEF TypeOK, LeavesOthers
    <3>4. KnowsPods(s, t, pods')
      BY <3>1, <3>3 DEF KnowsPods, OnePodPcs
    <3> QED BY <1>2, <2>1, <2>2, <3>2, <3>3, <3>4
  <2> QED BY <2>3, <2>4
<1>7. CASE ProvisionStart(w) \/ ProvisionPublish(w)
  <2>1. /\ task[w].pc \in {"start", "publish"} /\ UNCHANGED <<lock, state, pods>>
        /\ \E pc \in {"publish", "finish", "fail"} : To(w, pc)
    BY <1>7 DEF ProvisionStart, ProvisionPublish, store, memory
  <2>2. pods[s] \subseteq {old.pod}
    BY <1>1, <2>1 DEF ProvisionPcs, KnowsPods, NoPodPcs, CreationPcs
  <2> QED BY <1>3, <2>1, <2>2 DEF ProvisionPcs, OnePodPcs
<1>8. ASSUME NEW phase \in {"running", "error"}
      PROVE  LET x == [old EXCEPT !.phase = phase] IN x.phase = phase /\ x.pod = old.pod
  BY <1>0 DEF State
<1>9. CASE ProvisionFinish(w)
  <2> DEFINE x == [old EXCEPT !.phase = "running"]
  <2>1. task[w].pc = "finish" /\ UNCHANGED pods /\ Save(s, x) /\ Finish(w)
    BY <1>9 DEF ProvisionFinish
  <2>2. x.phase = "running" /\ x.pod = old.pod
    BY <1>8
  <2> HIDE DEF x
  <2>3. /\ s \in Sandbox /\ lock[s] = w /\ pods[s] \subseteq {old.pod}
        /\ \A r \in Sandbox \ {s} : lock[r] # w
    BY <1>1, <2>1 DEF ProvisionPcs, KnowsPods, NoPodPcs, CreationPcs
  <2>4. state'[s] = x /\ \A r \in Sandbox \ {s} : state'[r] = state[r]
    BY <1>0, <2>1, <2>3 DEF Save, TypeOK
  <2>5. task[w].pc \in LockedPcs
    BY <2>1 DEF LockedPcs
  <2> QED BY <1>0, <2>1, <2>2, <2>3, <2>4, <2>5, NamedEnd DEF Finish
<1>10. CASE ProvisionFail(w)
  <2> DEFINE x == [old EXCEPT !.phase = "error"]
             t == [task[w] EXCEPT !.pc = "clean"]
  <2>1. task[w].pc = "fail" /\ UNCHANGED <<pods, lock>> /\ Save(s, x) /\ Become(w, t)
    BY <1>10 DEF ProvisionFail, To, memory
  <2>2. x.phase = "error" /\ t.pc = "clean" /\ t.sb = s /\ t.copy = old
    BY <1>0, <1>8 DEF Task
  <2> HIDE DEF x, t
  <2>3. s \in Sandbox /\ pods[s] \subseteq {old.pod} /\ task[w].pc \in ProvisionPcs
    BY <1>1, <2>1 DEF ProvisionPcs, KnowsPods, NoPodPcs, CreationPcs
  <2>4. state'[s] = x /\ LeavesOthers(s)
    BY <1>0, <2>1, <2>3 DEF Save, TypeOK, LeavesOthers
  <2>5. KnowsPods(s, t, pods')
    BY <2>1, <2>2, <2>3 DEF KnowsPods, OnePodPcs
  <2> QED BY <1>2, <2>1, <2>2, <2>3, <2>4, <2>5
<1>11. CASE ProvisionClean(w)
  <2>1. task[w].pc = "clean" /\ UNCHANGED <<lock, state>> /\ StopPod(s, old.pod) /\ To(w, "mark")
    BY <1>11 DEF ProvisionClean, RemoveArtifacts, memory
  <2>2. s \in Sandbox /\ pods[s] \subseteq {old.pod}
    BY <1>1, <2>1 DEF ProvisionPcs, KnowsPods, NoPodPcs, CreationPcs
  <2>3. pods'[s] = {} /\ \A r \in Sandbox \ {s} : pods'[r] = pods[r]
    <3>1. \A r \in Sandbox : pods'[r] = IF r = s THEN pods[s] \ {old.pod} ELSE pods[r]
      BY <1>0, <2>1, <2>2, NoStopFault, StopPodObeyed
    <3> QED BY <2>2, <3>1
  <2> QED BY <1>3, <2>1, <2>3 DEF ProvisionPcs, NoPodPcs
<1>12. CASE ProvisionMark(w)
  <2>1. task[w].pc = "mark" /\ UNCHANGED <<state, pods>>
    BY <1>12 DEF ProvisionMark, store
  <2>2. /\ s \in Sandbox /\ lock[s] = w /\ pods[s] = {} /\ task[w].pc \in ProvisionPcs
        /\ \A r \in Sandbox \ {s} : lock[r] # w
        /\ state[s].phase = "none" => state[s].pod = NoPod
    BY <1>1, <2>1 DEF ProvisionPcs, KnowsPods, OnePodPcs
  <2>3. CASE Finish(w)
    BY <1>0, <2>1, <2>2, <2>3, NamedEnd DEF Finish
  <2>4. CASE ~ Finish(w)
    <3> DEFINE t == [task[w] EXCEPT !.pc = "note", !.copy = state[s]]
    <3>1. t.pc = "note" /\ t.sb = s /\ Become(w, t) /\ UNCHANGED lock
      BY <1>0, <1>12, <2>4 DEF ProvisionMark, Task
    <3> HIDE DEF t
    <3>2. KnowsPods(s, t, pods') /\ LeavesOthers(s)
      BY <2>1, <2>2, <3>1 DEF KnowsPods, NoPodPcs, LeavesOthers
    <3> QED BY <1>2, <2>1, <2>2, <3>1, <3>2
  <2> QED BY <2>3, <2>4
<1>13. CASE ProvisionNote(w)
  <2> DEFINE x == [old EXCEPT !.phase = "error"]
  <2>1. task[w].pc = "note" /\ UNCHANGED pods /\ Save(s, x) /\ Finish(w)
    BY <1>13 DEF ProvisionNote
  <2>2. x.phase = "error"
    BY <1>8
  <2> HIDE DEF x
  <2>3. /\ s \in Sandbox /\ lock[s] = w /\ pods[s] = {}
        /\ \A r \in Sandbox \ {s} : lock[r] # w
    BY <1>1, <2>1 DEF ProvisionPcs, KnowsPods, OnePodPcs
  <2>4. state'[s] = x /\ \A r \in Sandbox \ {s} : state'[r] = state[r]
    BY <1>0, <2>1, <2>3 DEF Save, TypeOK
  <2> QED BY <1>0, <2>1, <2>2, <2>3, <2>4, NamedEnd DEF Finish
<1> QED
  BY <1>4, <1>5, <1>6, <1>7, <1>9, <1>10, <1>11, <1>12, <1>13 DEF Provision

LEMMA DeleteBeginNamed ==
  ASSUME NamedInv, TypeOK', NEW w \in Deleter, NEW s \in Sandbox, DeleteBegin(w, s)
  PROVE  NamedInv'
<1>0. /\ w \in Worker /\ task[w].pc = "new" /\ lock[s] = Nobody /\ TypeOK
      /\ UNCHANGED <<state, pods>> /\ Nobody \notin Worker /\ s \in Lock
      /\ w \notin Provisioner
  BY NamesAssumption, WorkersAssumption DEF Worker, DeleteBegin, store, NamedInv, Lock
<1>1. CASE state[s].phase \in {"none", "corrupt"}
  BY <1>0, <1>1, NamedIdle DEF DeleteBegin
<1>2. CASE state[s].phase \notin {"none", "corrupt"}
  <2> DEFINE t == [At("drop") EXCEPT !.sb = s, !.copy = state[s]]
  <2>2. Become(w, t) /\ lock' = [lock EXCEPT ![s] = w]
    BY <1>2 DEF DeleteBegin, Taken
  <2>3. t.pc = "drop" /\ t.sb = s /\ t.copy = state[s]
    BY DEF At
  <2> HIDE DEF t
  <2>4. lock'[s] = w /\ LeavesOthers(s) /\ Names(s)
    BY <1>0, <2>2 DEF TypeOK, LeavesOthers, Names
  <2>5. KnowsPods(s, t, pods')
    BY <1>0, <2>3 DEF KnowsPods, OnePodPcs, NamedInv, PodsAreNamed
  <2>6. \A r \in Sandbox : lock[r] # w
    BY <1>0, NoHolder DEF NoPodPcs, OnePodPcs, CreationPcs
  <2>7. state'[s].phase = "none" => state'[s].pod = NoPod
    BY <1>0 DEF NamedInv
  <2> QED BY <1>0, <2>2, <2>3, <2>4, <2>5, <2>6, <2>7, NamedTurn
<1> QED BY <1>1, <1>2

LEMMA DeleteNamed ==
  ASSUME NamedInv, NamesPods, TypeOK', NEW w \in Deleter, Delete(w)
  PROVE  NamedInv'
<1> DEFINE s == task[w].sb
           old == task[w].copy
<1>0. w \in Worker \ Reconciler /\ TypeOK /\ task[w] \in Task /\ old \in State
  BY WorkersAssumption DEF Worker, NamedInv, TypeOK, TasksOK, Task
<1>1. task[w].pc \in {"drop", "remove", "erase"} /\ task[w].pc \in LockedPcs
  BY DEF Delete, DeleteMark, RemoveSandbox, EraseState, LockedPcs
<1>2. /\ s \in Sandbox /\ lock[s] = w /\ KnowsPods(s, task[w], pods)
      /\ \A r \in Sandbox \ {s} : lock[r] # w
      /\ state[s].phase = "none" => state[s].pod = NoPod
  BY <1>0, <1>1, HolderKnows DEF NamedInv
<1>3. CASE DeleteMark(w)
  <2> DEFINE x == [old EXCEPT !.phase = "deleting"]
             t == [task[w] EXCEPT !.pc = "remove"]
  <2>1. task[w].pc = "drop" /\ UNCHANGED <<pods, lock>> /\ Save(s, x) /\ Become(w, t)
    BY <1>3 DEF DeleteMark, To, memory
  <2>2. x.phase = "deleting" /\ t.pc = "remove" /\ t.sb = s /\ t.copy = old
    BY <1>0 DEF Task, State
  <2> HIDE DEF x, t
  <2>3. pods[s] \subseteq {old.pod}
    BY <1>2, <2>1 DEF KnowsPods, NoPodPcs, CreationPcs
  <2>4. state'[s] = x /\ LeavesOthers(s)
    BY <1>0, <1>2, <2>1 DEF Save, TypeOK, LeavesOthers
  <2>5. KnowsPods(s, t, pods')
    BY <2>1, <2>2, <2>3 DEF KnowsPods, OnePodPcs
  <2> QED BY <1>0, <1>1, <1>2, <2>1, <2>2, <2>4, <2>5, NamedOn
<1>4. CASE RemoveSandbox(w)
  <2> DEFINE t == [task[w] EXCEPT !.pc = "erase"]
  <2>1. task[w].pc = "remove" /\ UNCHANGED <<lock, state>> /\ StopPod(s, old.pod) /\ Become(w, t)
    BY <1>4 DEF RemoveSandbox, RemoveArtifacts, memory, To
  <2>2. t.pc = "erase" /\ t.sb = s
    BY <1>0 DEF Task
  <2> HIDE DEF t
  <2>3. pods[s] \subseteq {old.pod}
    BY <1>2, <2>1 DEF KnowsPods, NoPodPcs, CreationPcs
  <2>4. pods'[s] = {} /\ LeavesOthers(s)
    <3>1. \A r \in Sandbox : pods'[r] = IF r = s THEN pods[s] \ {old.pod} ELSE pods[r]
      BY <1>0, <1>2, <2>1, NoStopFault, StopPodObeyed
    <3> QED BY <1>2, <2>1, <2>3, <3>1 DEF LeavesOthers
  <2>5. KnowsPods(s, t, pods')
    BY <2>2, <2>4 DEF KnowsPods, NoPodPcs
  <2> QED BY <1>0, <1>1, <1>2, <2>1, <2>4, <2>5, NamedOn
<1>5. CASE EraseState(w)
  <2>1. /\ task[w].pc = "erase" /\ UNCHANGED pods /\ Save(s, NoState) /\ Become(w, At("done"))
        /\ lock' = Unlocked(w)
    BY <1>5 DEF EraseState
  <2>2. pods[s] = {}
    BY <1>2, <2>1 DEF KnowsPods, OnePodPcs
  <2>3. state'[s] = NoState /\ \A r \in Sandbox \ {s} : state'[r] = state[r]
    BY <1>0, <1>2, <2>1 DEF Save, TypeOK
  <2> QED BY <1>0, <1>1, <1>2, <2>1, <2>2, <2>3, NamedEnd DEF NoState
<1> QED BY <1>3, <1>4, <1>5 DEF Delete

LEMMA EnvironmentNamed ==
  ASSUME NamedInv, NamesPods, TypeOK', Environment
  PROVE  NamedInv'
<1>0. TypeOK /\ TasksOK
  BY DEF NamedInv, TypeOK
<1>1. ASSUME NEW s \in Sandbox, NEW w \in Creator \cup Deleter, RequestTimeout(w, s)
      PROVE  NamedInv'
  <2>1. w \in Worker /\ task[w].pc = "new"
    BY <1>1 DEF Worker, RequestTimeout
  <2>2. lock[s] # w
    BY <2>1, NoHolder DEF NoPodPcs, OnePodPcs, CreationPcs
  <2> QED BY <1>1, <2>1, <2>2, NamedIdle DEF RequestTimeout, store, memory
<1>2. ASSUME NEW w \in Creator, CreateTimeout(w)
      PROVE  NamedInv'
  <2>1. w \in Worker \ Reconciler /\ task[w].pc \in LockedPcs /\ task[w].pc \in CreationPcs
    BY <1>2, WorkersAssumption DEF Worker, CreateTimeout, LockedPcs, CreationPcs
  <2>2. /\ task[w].sb \in Sandbox /\ lock[task[w].sb] = w /\ pods[task[w].sb] = {}
        /\ \A r \in Sandbox \ {task[w].sb} : lock[r] # w
    BY <2>1, HolderKnows DEF KnowsPods, OnePodPcs, CreationPcs
  <2>3. UNCHANGED <<state, pods>> /\ Become(w, At("done")) /\ lock' = Unlocked(w)
    BY <1>2 DEF CreateTimeout, store, Finish
  <2>4. state[task[w].sb].phase = "none" => state[task[w].sb].pod = NoPod
    BY <2>2 DEF NamedInv
  <2> QED BY <2>1, <2>2, <2>3, <2>4, NamedEnd
<1>3. ASSUME NEW s \in Sandbox, Age(s)
      PROVE  NamedInv'
  <2>1. [state[s] EXCEPT !.old = TRUE].phase = state[s].phase
        /\ [state[s] EXCEPT !.old = TRUE].pod = state[s].pod
    BY <1>0 DEF TypeOK, State
  <2>2. \A r \in Sandbox : state'[r].phase = state[r].phase /\ state'[r].pod = state[r].pod
    BY <1>0, <1>3, <2>1 DEF Age, Save, TypeOK
  <2> QED BY <1>3, <2>2 DEF Age, memory, NamedInv, PodsAreNamed
<1>4. CASE UNCHANGED <<state, pods, lock, task>>
  BY <1>4 DEF NamedInv, PodsAreNamed
<1>5. \A p \in Provisioner : ~ ProvisionTimeout(p)
  BY DEF NamesPods, ProvisionTimeout, Fault
<1>6. ~ Crash
  BY <1>0 DEF NamesPods, Crash, TypeOK
<1> QED
  BY <1>1, <1>2, <1>3, <1>4, <1>5, <1>6, CreateBeginNamed, DeleteBeginNamed
     DEF Environment, ContainerExits, GracePasses, store, memory

\* As long as the runtime obeys stop and remove and no pod is lost while its limits are
\* set, requests and provisionings of any number leave no pod behind that no state file
\* names, whatever the order of their steps and whatever fails in between
\* (provisionSandboxSync, markSandboxError, DeleteSandbox).
THEOREM PodsAlwaysNamed ==
  ASSUME NamesPods
  PROVE  Spec => []PodsAreNamed
<1>1. Init => NamedInv
  <2> SUFFICES ASSUME Init PROVE NamedInv
    OBVIOUS
  <2>1. TypeOK /\ Sandbox \subseteq Lock /\ Nobody \notin Worker
    BY InitType, NamesAssumption DEF Lock
  <2>2. ASSUME NEW p \in Provisioner
        PROVE  task[p].pc = "done"
    <3>1. p \in Worker /\ p \notin Creator \cup Deleter /\ p \notin Reconciler
      BY WorkersAssumption DEF Worker
    <3>2. task[p] = At("done")
      BY <3>1, <2>2 DEF Init
    <3> QED BY <3>2 DEF At
  <2>3. \A c \in Creator : <<"provision", c>> \in Provisioner
    BY DEF Provisioner
  <2> QED BY <2>1, <2>2, <2>3 DEF Init, NamedInv, PodsAreNamed, NoList, NoState
<1>2. NamedInv /\ [Next]_vars => NamedInv'
  <2> SUFFICES ASSUME NamedInv, [Next]_vars PROVE NamedInv'
    OBVIOUS
  <2>1. TypeOK'
    BY NextType, StutterType DEF NamedInv
  <2>2. CASE UNCHANGED vars
    BY <2>1, <2>2 DEF vars, store, memory, NamedInv, PodsAreNamed
  <2>3. Reconciler = {}
    BY DEF NamesPods
  <2> QED
    BY <2>1, <2>2, <2>3, CreateNamed, ProvisionNamed, DeleteNamed, EnvironmentNamed DEF Next
<1>3. NamedInv => PodsAreNamed
  BY DEF NamedInv
<1> QED BY <1>1, <1>2, <1>3, PTL DEF Spec

-----------------------------------------------------------------------------
(***************************************************************************)
(* What was admitted fits.  Until something fails, every provisioning ends *)
(* in running, so that nothing that has left creating and running comes    *)
(* back; and a creation that has passed admission holds "_admission" until *)
(* its state is saved, so that nobody else takes the room it was given.    *)
(***************************************************************************)
Admitted == {s \in Sandbox : state[s].phase \in {"creating", "running"}}

Faultless ==
  /\ sick = {}
  /\ \A s \in Sandbox : state[s].phase # "error"
  /\ \A p \in Provisioner :
       /\ task[p].pc \notin {"fail", "clean", "mark", "note"}
       /\ task[p].pc = "start" => task[p].copy.pod \in pods[task[p].sb]
  /\ Cardinality(Admitted) <= Capacity
  /\ \A w \in Creator : task[w].pc = "save" => Cardinality(Admitted) < Capacity

FitInv == PromiseInv /\ (faults = 0 => Faultless)

\* The pods of a sandbox change at the hands of who holds its flock.
LeavesPods(w) == \A s \in Sandbox : pods'[s] = pods[s] \/ lock[s] = w

LEMMA AdmittedFinite ==
  /\ IsFiniteSet(Admitted) /\ Cardinality(Admitted) \in Nat
  /\ Capacity \in Nat
BY SizeAssumption, FS_Subset, FS_CardinalityType DEF Admitted

LEMMA FewerFit ==
  ASSUME Admitted' \subseteq Admitted
  PROVE  Cardinality(Admitted') \in Nat /\ Cardinality(Admitted') <= Cardinality(Admitted)
BY AdmittedFinite, FS_Subset, FS_CardinalityType

LEMMA FitTurn ==
  ASSUME PromiseInv, Faultless, NEW w \in Worker, NEW t, Become(w, t), UNCHANGED sick,
         LeavesPods(w), \A s \in Sandbox : state'[s].phase # "error",
         Admitted' \subseteq Admitted,
         w \in Provisioner => /\ t.pc \notin {"fail", "clean", "mark", "note"}
                              /\ t.pc = "start" => t.copy.pod \in pods'[t.sb],
         w \in Creator /\ t.pc = "save" => Cardinality(Admitted) < Capacity
  PROVE  Faultless'
<1>1. TypeOK /\ TasksOK /\ \A v \in Worker : task'[v] = IF v = w THEN t ELSE task[v]
  BY DEF PromiseInv, TypeOK, TasksOK, Become
<1>2. ASSUME NEW p \in Provisioner
      PROVE  /\ task'[p].pc \notin {"fail", "clean", "mark", "note"}
             /\ task'[p].pc = "start" => task'[p].copy.pod \in pods'[task'[p].sb]
  <2>1. CASE p = w
    BY <1>1, <2>1
  <2>2. CASE p # w
    <3>1. p \in Worker /\ p \notin Reconciler /\ task'[p] = task[p]
      BY <1>1, <2>2, WorkersAssumption DEF Worker
    <3>2. task[p].pc = "start" => task[p].sb \in Sandbox /\ lock[task[p].sb] = p
      BY <1>1, <3>1 DEF TasksOK, BusyPcs, LockedPcs
    <3> QED BY <2>2, <3>1, <3>2 DEF Faultless, LeavesPods
  <2> QED BY <2>1, <2>2
<1>3. \A v \in Creator : task'[v].pc = "save" => Cardinality(Admitted) < Capacity
  BY <1>1 DEF Faultless, Worker
<1>4. /\ Cardinality(Admitted') <= Capacity
      /\ \A v \in Creator : task'[v].pc = "save" => Cardinality(Admitted') < Capacity
  BY <1>3, FewerFit, AdmittedFinite DEF Faultless
<1> QED BY <1>2, <1>4 DEF Faultless

\* Steps that leave files and pods alone.
LEMMA FitIdle ==
  ASSUME PromiseInv, Faultless, NEW w \in Worker, NEW t, Become(w, t), UNCHANGED <<sick, state, pods>>,
         t.pc \notin {"fail", "clean", "mark", "note", "start", "save"}
  PROVE  Faultless'
<1>1. LeavesPods(w) /\ Admitted' = Admitted /\ \A s \in Sandbox : state'[s].phase # "error"
  BY DEF LeavesPods, Admitted, Faultless
<1> QED BY <1>1, FitTurn

LEMMA FitTo ==
  ASSUME PromiseInv, Faultless, NEW w \in Worker, NEW pc, To(w, pc), UNCHANGED <<sick, state, pods>>,
         pc \notin {"fail", "clean", "mark", "note", "start", "save"}
  PROVE  Faultless'
<1> DEFINE t == [task[w] EXCEPT !.pc = pc]
<1>1. t.pc = pc /\ Become(w, t)
  BY DEF PromiseInv, TypeOK, TasksOK, Task, To
<1> HIDE DEF t
<1> QED BY <1>1, FitIdle

LEMMA FitDone ==
  ASSUME PromiseInv, Faultless, NEW w \in Worker, Become(w, At("done")), UNCHANGED <<sick, state, pods>>
  PROVE  Faultless'
BY FitIdle DEF At

\* The listing under "_admission" shows what is creating or running.
LEMMA AdmissionSees ==
  ASSUME PromiseInv, Undisturbed, Faultless, NEW s \in Sandbox, state[s].phase = "none",
         NEW list \in Listings
  PROVE  Active(s, list) = Admitted
<1>1. \A t \in Sandbox : list[t] = IF state[t].phase \notin {"none", "corrupt"} THEN state[t] ELSE NoState
  BY DEF Listings, Undisturbed
<1>2. \A t \in Sandbox : state[t].phase \in {"none", "creating", "running", "deleting"}
  BY DEF PromiseInv, TypeOK, State, Phases, NothingTorn, Faultless
<1>3. \A t \in Sandbox : t \in Listed(list) <=> state[t].phase # "none"
  <2>1. NoState.phase = "none"
    BY DEF NoState
  <2>2. \A t \in Sandbox : list[t] = NoState <=> state[t].phase = "none"
    BY <1>1, <1>2, <2>1
  <2> QED BY <2>2 DEF Listed
<1>4. \A t \in Listed(list) : t \in Sandbox /\ list[t] = state[t]
  BY <1>1, <1>3, <1>2 DEF Listed
<1> QED BY <1>2, <1>3, <1>4 DEF Active, Admitted

LEMMA CreateFits ==
  ASSUME PromiseInv, Undisturbed, Faultless, NEW w \in Creator, Create(w)
  PROVE  Faultless'
<1> DEFINE s == task[w].sb
<1>0. /\ w \in Worker \ Reconciler /\ TypeOK /\ TasksOK /\ task[w] \in Task /\ w \notin Provisioner
      /\ UNCHANGED sick
  BY WorkersAssumption
     DEF Worker, PromiseInv, TypeOK, TasksOK, Create, CreateCleanup, CreatePorts, CreateReserve,
         CreateAdmit, CreateSave, world
<1>1. s \in Sandbox /\ lock[s] = w /\ state[s].phase = "none"
  <2>1. task[w].pc \in CreationPcs
    BY DEF Create, CreateCleanup, CreatePorts, CreateReserve, CreateAdmit, CreateSave, CreationPcs
  <2> QED BY <1>0, <2>1 DEF TasksOK, BusyPcs, LockedPcs, CreationPcs, PromiseInv, Knows
<1>2. CASE CreateCleanup(w)
  <2>1. LeavesPods(w)
    BY <1>0, <1>1, <1>2 DEF CreateCleanup, RemoveArtifacts, StopPod, LeavesPods, TypeOK
  <2>2. \A r \in Sandbox : state'[r].phase = state[r].phase
    BY <1>0, <1>1, <1>2 DEF CreateCleanup, Save, TypeOK, NoState
  <2>3. Admitted' = Admitted /\ \A r \in Sandbox : state'[r].phase # "error"
    BY <2>2 DEF Admitted, Faultless
  <2> DEFINE t == [task[w] EXCEPT !.pc = "ports"]
  <2>4. t.pc = "ports" /\ Become(w, t)
    BY <1>0, <1>2 DEF Task, CreateCleanup, To
  <2> HIDE DEF t
  <2> QED BY <1>0, <2>1, <2>3, <2>4, FitTurn
<1>3. CASE CreatePorts(w)
  <2>1. PICK list : Become(w, [task[w] EXCEPT !.pc = "reserve", !.list = list])
    BY <1>3 DEF CreatePorts
  <2> DEFINE t == [task[w] EXCEPT !.pc = "reserve", !.list = list]
  <2>2. t.pc = "reserve"
    BY <1>0 DEF Task
  <2>3. UNCHANGED <<sick, state, pods>>
    BY <1>0, <1>3 DEF CreatePorts, store
  <2> HIDE DEF t
  <2> QED BY <1>0, <2>1, <2>2, <2>3, FitIdle DEF t
<1>4. CASE CreateReserve(w)
  <2> DEFINE t == [task[w] EXCEPT !.pc = "admit", !.list = NoList]
  <2>1. t.pc = "admit"
    BY <1>0 DEF Task
  <2>2. Become(w, At("done")) \/ Become(w, t)
    BY <1>4 DEF CreateReserve, Finish
  <2>3. UNCHANGED <<sick, state, pods>>
    BY <1>0, <1>4 DEF CreateReserve, store
  <2> HIDE DEF t
  <2> QED BY <1>0, <2>1, <2>2, <2>3, FitIdle, FitDone
<1>5. CASE CreateAdmit(w)
  <2>1. UNCHANGED <<sick, state, pods>>
    BY <1>0, <1>5 DEF CreateAdmit, store
  <2>2. CASE Become(w, At("done"))
    BY <1>0, <2>1, <2>2, FitDone
  <2>3. CASE ~ Become(w, At("done"))
    <3>1. PICK list \in Listings : Cardinality(Active(s, list)) < Capacity /\ To(w, "save")
      BY <1>5, <2>3 DEF CreateAdmit, Finish
    <3>2. Cardinality(Admitted) < Capacity
      BY <1>1, <3>1, AdmissionSees
    <3> DEFINE t == [task[w] EXCEPT !.pc = "save"]
    <3>3. Become(w, t)
      BY <3>1 DEF To
    <3> HIDE DEF t
    <3>4. LeavesPods(w) /\ Admitted' = Admitted /\ \A r \in Sandbox : state'[r].phase # "error"
      BY <2>1 DEF LeavesPods, Admitted, Faultless
    <3> QED BY <1>0, <2>1, <3>2, <3>3, <3>4, FitTurn
  <2> QED BY <2>2, <2>3
<1>6. CASE CreateSave(w)
  <2> DEFINE p == <<"provision", w>>
             t == [At("lock") EXCEPT !.sb = s]
  <2>1. p \in Worker /\ w # p /\ t.pc = "lock" /\ At("done").pc = "done"
    BY <1>0 DEF Provisioner, Worker, At
  <2>2. \A v \in Worker : task'[v] = IF v = w THEN At("done") ELSE IF v = p THEN t ELSE task[v]
    BY <1>0, <1>6, <2>1 DEF CreateSave, TasksOK
  <2> HIDE DEF t
  <2>3. UNCHANGED pods /\ \A r \in Sandbox : state'[r] = IF r = s THEN NewState ELSE state[r]
    BY <1>0, <1>1, <1>6 DEF CreateSave, Save, TypeOK
  <2>4. NewState.phase = "creating"
    BY DEF NewState, NoState
  <2>5. Admitted' = Admitted \cup {s} /\ s \notin Admitted
    BY <1>1, <2>3, <2>4 DEF Admitted
  <2>6. Cardinality(Admitted) < Capacity
    BY <1>6 DEF CreateSave, Faultless
  <2>7. Cardinality(Admitted') <= Capacity
    <3>1. Cardinality(Admitted \cup {s}) = Cardinality(Admitted) + 1
      BY <2>5, AdmittedFinite, FS_AddElement
    <3> QED BY <2>5, <2>6, <3>1, AdmittedFinite
  <2>8. \A v \in Creator : task'[v].pc # "save"
    <3> SUFFICES ASSUME NEW v \in Creator, task'[v].pc = "save" PROVE FALSE
      OBVIOUS
    <3>1. v \in Worker /\ v # w /\ v # p /\ task[v].pc = "save"
      BY <2>1, <2>2 DEF Worker
    <3>2. lock["_admission"] = v /\ lock["_admission"] = w
      BY <1>0, <1>6, <3>1 DEF TasksOK, CreateSave
    <3> QED BY <3>1, <3>2
  <2>9. ASSUME NEW q \in Provisioner
        PROVE  /\ task'[q].pc \notin {"fail", "clean", "mark", "note"}
               /\ task'[q].pc = "start" => task'[q].copy.pod \in pods'[task'[q].sb]
    BY <1>0, <2>1, <2>2, <2>3 DEF Faultless, Worker
  <2>10. \A r \in Sandbox : state'[r].phase # "error"
    BY <2>3, <2>4 DEF Faultless
  <2> QED BY <1>0, <2>7, <2>8, <2>9, <2>10 DEF Faultless
<1> QED BY <1>2, <1>3, <1>4, <1>5, <1>6 DEF Create

LEMMA ProvisionFits ==
  ASSUME PromiseInv, Undisturbed, Faultless, NEW p \in Provisioner, Provision(p),
         faults = 0, faults' = 0
  PROVE  Faultless'
<1> DEFINE s == task[p].sb
<1>0. /\ p \in Worker \ Reconciler /\ TypeOK /\ TasksOK /\ task[p] \in Task /\ p \notin Creator
      /\ UNCHANGED sick /\ task[p].pc \notin {"fail", "clean", "mark", "note"}
      /\ task[p].copy \in State
  BY WorkersAssumption
     DEF Worker, PromiseInv, TypeOK, TasksOK, Task, Faultless, Provision, ProvisionBegin,
         ProvisionSweep, ProvisionRun, ProvisionStart, ProvisionPublish, ProvisionFinish,
         ProvisionFail, ProvisionClean, ProvisionMark, ProvisionNote, world
<1>1. \A kind : ~ Fault(kind)
  BY DEF Fault
<1>2. ASSUME task[p].pc \in ProvisionPcs
      PROVE  s \in Sandbox /\ lock[s] = p /\ state[s].phase \in {"creating", "running"}
  <2>1. s \in Sandbox
    BY <1>0, <1>2 DEF TasksOK, BusyPcs, LockedPcs, ProvisionPcs
  <2> QED BY <1>0, <1>2, <2>1 DEF PromiseInv, Knows, Faultless
<1>3. CASE ProvisionBegin(p)
  <2> DEFINE t == [task[p] EXCEPT !.pc = "sweep", !.copy = state[s]]
  <2>1. t.pc = "sweep"
    BY <1>0 DEF Task
  <2>2. Become(p, At("done")) \/ Become(p, t)
    BY <1>3 DEF ProvisionBegin
  <2>3. UNCHANGED <<sick, state, pods>>
    BY <1>0, <1>3 DEF ProvisionBegin, store
  <2> HIDE DEF t
  <2> QED BY <1>0, <2>1, <2>2, <2>3, FitIdle, FitDone
<1>4. CASE ProvisionSweep(p)
  <2>1. s \in Sandbox /\ lock[s] = p
    BY <1>2, <1>4 DEF ProvisionSweep, ProvisionPcs
  <2>2. LeavesPods(p)
    BY <1>0, <1>4, <2>1 DEF ProvisionSweep, StopPod, LeavesPods, TypeOK
  <2>3. Admitted' = Admitted /\ \A r \in Sandbox : state'[r].phase # "error"
    BY <1>4 DEF ProvisionSweep, Admitted, Faultless
  <2> DEFINE t == [task[p] EXCEPT !.pc = "run"]
  <2>4. t.pc = "run" /\ Become(p, t)
    BY <1>0, <1>4 DEF Task, ProvisionSweep, To
  <2> HIDE DEF t
  <2> QED BY <1>0, <2>2, <2>3, <2>4, FitTurn
<1>5. CASE ProvisionRun(p)
  <2>1. s \in Sandbox /\ lock[s] = p
    BY <1>2, <1>5 DEF ProvisionRun, ProvisionPcs
  <2> DEFINE t == [task[p] EXCEPT !.pc = "start", !.copy.pod = p[2]]
  <2>2. /\ pods' = [pods EXCEPT ![s] = @ \cup {p[2]}] /\ Become(p, t)
        /\ UNCHANGED state
    BY <1>1, <1>5 DEF ProvisionRun
  <2>3. t.pc = "start" /\ t.sb = s
    BY <1>0 DEF Task
  <2>4. t.copy.pod = p[2]
    BY <1>0 DEF Task, State
  <2> HIDE DEF t
  <2>5. LeavesPods(p) /\ t.copy.pod \in pods'[t.sb]
    BY <1>0, <2>1, <2>2, <2>3, <2>4 DEF LeavesPods, TypeOK
  <2>6. Admitted' = Admitted /\ \A r \in Sandbox : state'[r].phase # "error"
    BY <2>2 DEF Admitted, Faultless
  <2> QED BY <1>0, <2>2, <2>3, <2>5, <2>6, FitTurn
<1>6. CASE ProvisionStart(p)
  <2>1. Healthy(s, task[p].copy)
    BY <1>0, <1>6 DEF ProvisionStart, Healthy, Faultless
  <2>2. To(p, "publish") /\ UNCHANGED <<state, pods>>
    BY <1>1, <1>6, <2>1 DEF ProvisionStart, store
  <2> QED BY <1>0, <2>2, FitTo
<1>7. CASE ProvisionPublish(p)
  <2>1. To(p, "finish") /\ UNCHANGED <<state, pods>>
    BY <1>1, <1>7 DEF ProvisionPublish
  <2> QED BY <1>0, <2>1, FitTo
<1>8. CASE ProvisionFinish(p)
  <2>1. s \in Sandbox /\ lock[s] = p /\ state[s].phase \in {"creating", "running"}
    BY <1>2, <1>8 DEF ProvisionFinish, ProvisionPcs
  <2> DEFINE x == [task[p].copy EXCEPT !.phase = "running"]
  <2>2. x.phase = "running"
    BY <1>0 DEF State
  <2>3. /\ \A r \in Sandbox : state'[r] = IF r = s THEN x ELSE state[r]
        /\ UNCHANGED pods /\ Become(p, At("done"))
    BY <1>0, <1>8, <2>1 DEF ProvisionFinish, Save, TypeOK, Finish
  <2> HIDE DEF x
  <2>4. Admitted' \subseteq Admitted /\ \A r \in Sandbox : state'[r].phase # "error"
    BY <2>1, <2>2, <2>3 DEF Admitted, Faultless
  <2>5. LeavesPods(p) /\ At("done").pc = "done"
    BY <2>3 DEF LeavesPods, At
  <2> QED BY <1>0, <2>3, <2>4, <2>5, FitTurn
<1> QED
  BY <1>0, <1>3, <1>4, <1>5, <1>6, <1>7, <1>8
     DEF Provision, ProvisionFail, ProvisionClean, ProvisionMark, ProvisionNote

LEMMA DeleteFits ==
  ASSUME PromiseInv, Undisturbed, Faultless, NEW w \in Deleter, Delete(w)
  PROVE  Faultless'
<1> DEFINE s == task[w].sb
<1>0. /\ w \in Worker \ Reconciler /\ TypeOK /\ TasksOK /\ task[w] \in Task /\ UNCHANGED sick
      /\ task[w].copy \in State /\ w \notin Creator \cup Provisioner
  BY WorkersAssumption
     DEF Worker, PromiseInv, TypeOK, TasksOK, Task, Delete, DeleteMark, RemoveSandbox, EraseState, world
<1>1. s \in Sandbox /\ lock[s] = w
  BY <1>0 DEF Delete, DeleteMark, RemoveSandbox, EraseState, TasksOK, BusyPcs, LockedPcs
<1>2. CASE DeleteMark(w)
  <2> DEFINE x == [task[w].copy EXCEPT !.phase = "deleting"]
             t == [task[w] EXCEPT !.pc = "remove"]
  <2>1. x.phase = "deleting" /\ t.pc = "remove" /\ Become(w, t)
    BY <1>0, <1>2 DEF State, Task, DeleteMark, To
  <2>2. UNCHANGED pods /\ \A r \in Sandbox : state'[r] = IF r = s THEN x ELSE state[r]
    BY <1>0, <1>1, <1>2 DEF DeleteMark, Save, TypeOK
  <2> HIDE DEF x, t
  <2>3. Admitted' \subseteq Admitted /\ \A r \in Sandbox : state'[r].phase # "error"
    BY <2>1, <2>2 DEF Admitted, Faultless
  <2>4. LeavesPods(w)
    BY <2>2 DEF LeavesPods
  <2> QED BY <1>0, <2>1, <2>3, <2>4, FitTurn
<1>3. CASE RemoveSandbox(w)
  <2> DEFINE t == [task[w] EXCEPT !.pc = "erase"]
  <2>1. t.pc = "erase" /\ Become(w, t) /\ UNCHANGED state
    BY <1>0, <1>3 DEF Task, RemoveSandbox, To
  <2> HIDE DEF t
  <2>2. LeavesPods(w)
    BY <1>0, <1>1, <1>3 DEF RemoveSandbox, RemoveArtifacts, StopPod, LeavesPods, TypeOK
  <2>3. Admitted' = Admitted /\ \A r \in Sandbox : state'[r].phase # "error"
    BY <2>1 DEF Admitted, Faultless
  <2> QED BY <1>0, <2>1, <2>2, <2>3, FitTurn
<1>4. CASE EraseState(w)
  <2>1. UNCHANGED pods /\ Become(w, At("done")) /\ At("done").pc = "done"
    BY <1>4 DEF EraseState, At
  <2>2. \A r \in Sandbox : state'[r] = IF r = s THEN NoState ELSE state[r]
    BY <1>0, <1>1, <1>4 DEF EraseState, Save, TypeOK
  <2>3. Admitted' \subseteq Admitted /\ \A r \in Sandbox : state'[r].phase # "error"
    BY <2>2 DEF Admitted, Faultless, NoState
  <2>4. LeavesPods(w)
    BY <2>1 DEF LeavesPods
  <2> QED BY <1>0, <2>1, <2>3, <2>4, FitTurn
<1> QED BY <1>2, <1>3, <1>4 DEF Delete

LEMMA EnvironmentFits ==
  ASSUME PromiseInv, Undisturbed, Faultless, Environment, faults = 0, faults' = 0
  PROVE  Faultless'
<1>0. TypeOK /\ TasksOK /\ \A kind : ~ Fault(kind)
  BY DEF PromiseInv, TypeOK, Fault
<1>1. ASSUME NEW s \in Sandbox, NEW w \in Creator, CreateBegin(w, s)
      PROVE  Faultless'
  <2> DEFINE t == [At(IF pods[s] = {} THEN "ports" ELSE "cleanup") EXCEPT !.sb = s]
  <2>1. w \in Worker /\ t.pc \in {"ports", "cleanup"} /\ UNCHANGED <<sick, state, pods>>
    BY <1>1 DEF Worker, At, CreateBegin, store, world
  <2>2. Become(w, At("done")) \/ Become(w, t)
    BY <1>1 DEF CreateBegin
  <2> HIDE DEF t
  <2> QED BY <2>1, <2>2, FitIdle, FitDone
<1>2. ASSUME NEW s \in Sandbox, NEW w \in Deleter, DeleteBegin(w, s)
      PROVE  Faultless'
  <2> DEFINE t == [At("drop") EXCEPT !.sb = s, !.copy = state[s]]
  <2>1. w \in Worker /\ t.pc = "drop" /\ UNCHANGED <<sick, state, pods>>
    BY <1>2 DEF Worker, At, DeleteBegin, store, world
  <2>2. Become(w, At("done")) \/ Become(w, t)
    BY <1>2 DEF DeleteBegin
  <2> HIDE DEF t
  <2> QED BY <2>1, <2>2, FitIdle, FitDone
<1>3. ASSUME NEW s \in Sandbox, Age(s)
      PROVE  Faultless'
  <2>1. [state[s] EXCEPT !.old = TRUE].phase = state[s].phase
    BY <1>0 DEF TypeOK, State
  <2>2. \A r \in Sandbox : state'[r].phase = state[r].phase
    BY <1>0, <1>3, <2>1 DEF Age, Save, TypeOK
  <2>3. Admitted' = Admitted
    BY <2>2 DEF Admitted
  <2>4. UNCHANGED <<sick, pods, task>>
    BY <1>3 DEF Age, world
  <2> QED BY <2>2, <2>3, <2>4 DEF Faultless
<1>4. CASE Crash
  <2>1. UNCHANGED <<sick, pods>> /\ \A r \in Sandbox : state'[r] = state[r]
    BY <1>4 DEF Crash, Undisturbed
  <2>2. Admitted' = Admitted
    BY <2>1 DEF Admitted
  <2>3. \A w \in Worker : task'[w].pc \in {"new", "idle", "done"}
    BY <1>4 DEF Crash, At
  <2>4. \A w \in Creator \cup Provisioner : w \in Worker
    BY DEF Worker
  <2> QED BY <2>1, <2>2, <2>3, <2>4 DEF Faultless
<1>5. CASE UNCHANGED <<sick, state, pods, task>>
  BY <1>5 DEF Faultless, Admitted
<1> QED
  BY <1>0, <1>1, <1>2, <1>3, <1>4, <1>5
     DEF Environment, RequestTimeout, ContainerExits, GracePasses, CreateTimeout,
         ProvisionTimeout, store, memory, world

LEMMA FaultsGrow ==
  ASSUME faults \in Nat, Next, faults' = 0
  PROVE  faults = 0
<1> DEFINE Counted == NoFault \/ \E kind : Fault(kind)
<1>1. Counted
  <2>1. ASSUME NEW w \in Creator, Create(w) PROVE Counted
    BY <2>1 DEF Create, CreateCleanup, CreatePorts, CreateReserve, CreateAdmit, CreateSave,
                RemoveArtifacts, StopPod, NoFault
  <2>2. ASSUME NEW p \in Provisioner, Provision(p) PROVE Counted
    BY <2>2 DEF Provision, ProvisionBegin, ProvisionSweep, ProvisionRun, ProvisionStart,
                ProvisionPublish, ProvisionFinish, ProvisionFail, ProvisionClean, ProvisionMark,
                ProvisionNote, RemoveArtifacts, StopPod, NoFault
  <2>3. ASSUME NEW w \in Worker, Delete(w) \/ Reconcile(w) PROVE Counted
    BY <2>3 DEF Delete, Reconcile, DeleteMark, RemoveSandbox, EraseState, ReconcileList,
                ReconcileVisit, ReconcileExpire, ReconcileExamine, ReconcileSweep,
                RemoveArtifacts, StopPod, NoFault
  <2>4. CASE Environment
    BY <2>4 DEF Environment, CreateBegin, DeleteBegin, RequestTimeout, ContainerExits, Age,
                GracePasses, CreateTimeout, ProvisionTimeout, Crash, NoFault
  <2> QED BY <2>1, <2>2, <2>3, <2>4 DEF Next, Worker
<1> QED BY <1>1 DEF NoFault, Fault

\* Until something fails, what was admitted fits the node, for every number of
\* sandboxes, of requests and of stops of sbxlet: the decision and the save are one
\* under "_admission", and nothing comes back that has left creating and running
\* (createSandbox, enforceAdmission, provisionSandboxSync).
THEOREM AdmittedAlwaysFit ==
  ASSUME Undisturbed
  PROVE  Spec => []AdmittedFit
<1>1. Init => FitInv
  <2> SUFFICES ASSUME Init PROVE FitInv
    OBVIOUS
  <2>1. PromiseInv
    BY InitPromise
  <2>2. Admitted = {}
    BY DEF Init, NoList, NoState, Admitted
  <2>3. Cardinality(Admitted) <= Capacity
    BY <2>2, FS_EmptySet, SizeAssumption
  <2>4. \A w \in Creator \cup Provisioner : task[w].pc \in {"new", "idle", "done"}
    BY WorkersAssumption DEF Init, At, Worker
  <2> QED BY <2>1, <2>3, <2>4 DEF Init, FitInv, Faultless, NoList, NoState
<1>2. FitInv /\ [Next]_vars => FitInv'
  <2> SUFFICES ASSUME FitInv, [Next]_vars PROVE FitInv'
    OBVIOUS
  <2>1. PromiseInv'
    BY NextKeeps DEF FitInv
  <2>2. CASE UNCHANGED vars
    BY <2>1, <2>2 DEF vars, store, memory, world, FitInv, Faultless, Admitted
  <2>3. CASE Next /\ faults' = 0
    <3>1. faults = 0
      BY <2>3, FaultsGrow DEF FitInv, PromiseInv, TypeOK
    <3>2. Faultless /\ PromiseInv
      BY <3>1 DEF FitInv
    <3>3. Faultless'
      BY <2>3, <3>1, <3>2, CreateFits, ProvisionFits, DeleteFits, EnvironmentFits
         DEF Next, Undisturbed
    <3> QED BY <2>1, <3>3 DEF FitInv
  <2> QED BY <2>1, <2>2, <2>3 DEF FitInv
<1>3. FitInv => AdmittedFit
  BY DEF FitInv, Faultless, Admitted, AdmittedFit
<1> QED BY <1>1, <1>2, <1>3, PTL DEF Spec

=============================================================================
