-------------------------- MODULE SbxletRefinement --------------------------
(***************************************************************************)
(* Sbxlet implements NodeAgent, for every number of sandboxes and requests *)
(* and with crashes, while no reconcile pass runs, no wait for a lock of a *)
(* provisioning times out and no state file is torn.                       *)
(***************************************************************************)
EXTENDS SbxletProofs

Undisturbed == Reconciler = {} /\ Faults \cap {"timeout", "torn"} = {}

Phase == [s \in Sandbox |-> IF state[s].phase = "none" THEN "absent" ELSE state[s].phase]

AgentStep == [Agent!Next]_Phase

(***************************************************************************)
(* Whoever holds the flock of a sandbox knows its phase: a creation has    *)
(* found none and still has none, a provisioning has something to          *)
(* provision, a deletion something to delete.  A provisioning that waits   *)
(* for the flock of a sandbox in deletion waits for that deletion.         *)
(***************************************************************************)
CreationPcs  == {"cleanup", "ports", "reserve", "admit", "save"}
ProvisionPcs == {"sweep", "run", "start", "publish", "finish", "fail", "clean", "mark", "note"}
DeletionPcs  == {"drop", "remove", "erase"}

Knows(w, t, st, lk) ==
  /\ t.pc \in CreationPcs => st[t.sb].phase = "none"
  /\ t.pc \in ProvisionPcs => lk[t.sb] = w /\ st[t.sb].phase \in {"creating", "running", "error"}
  /\ t.pc = "drop" => st[t.sb].phase # "none"
  /\ t.pc = "lock" /\ st[t.sb].phase = "deleting" => lk[t.sb] \in Deleter

\* A deletion holds the flock of the sandbox it deletes, and no other sandbox's.
Deletes(w, t, lk) ==
  \A s \in Sandbox : lk[s] = w => t.pc \in DeletionPcs /\ t.sb = s

NothingTorn == \A s \in Sandbox : state[s].phase # "corrupt"

PromiseInv ==
  /\ TypeOK
  /\ NothingTorn
  /\ \A w \in Worker : Knows(w, task[w], state, lock)
  /\ \A w \in Deleter : Deletes(w, task[w], lock)

-----------------------------------------------------------------------------
(* One goroutine turns to t, and leaves the locks and the files of others. *)

LeavesLocks(w) == \A l \in Lock : lock'[l] = lock[l] \/ {lock[l], lock'[l]} \subseteq {w, Nobody}

LeavesFiles(w) == \A s \in Sandbox : state'[s].phase = state[s].phase \/ lock[s] = w

\* Only the deletion itself leaves "deleting" behind, and it does not.
FinishesDeletions ==
  \A s \in Sandbox :
    state'[s].phase = "deleting" /\ lock'[s] \notin Deleter =>
      state[s].phase = "deleting" /\ lock[s] \notin Deleter

LEMMA OthersKnow ==
  ASSUME PromiseInv, Undisturbed, NEW w \in Worker, NEW v \in Worker \ {w},
         LeavesLocks(w), LeavesFiles(w), FinishesDeletions
  PROVE  Knows(v, task[v], state', lock')
<1> DEFINE s == task[v].sb
<1>0. TypeOK /\ TasksOK /\ Knows(v, task[v], state, lock)
  BY DEF PromiseInv, TypeOK
<1>1. Nobody \notin Worker /\ v \notin Reconciler /\ Sandbox \subseteq Lock
  BY NamesAssumption DEF Undisturbed, Lock
<1>2. CASE task[v].pc \in CreationPcs \cup ProvisionPcs \cup {"drop"}
  <2>1. s \in Sandbox /\ lock[s] = v
    BY <1>0, <1>1, <1>2 DEF TasksOK, BusyPcs, LockedPcs, CreationPcs, ProvisionPcs, Knows
  <2>2. lock'[s] = v /\ state'[s].phase = state[s].phase
    BY <1>1, <2>1 DEF LeavesLocks, LeavesFiles
  <2> QED BY <1>0, <1>2, <2>2 DEF Knows, CreationPcs, ProvisionPcs
<1>3. CASE task[v].pc = "lock"
  <2>1. s \in Sandbox
    BY <1>0, <1>3 DEF TasksOK, BusyPcs
  <2> QED BY <1>0, <1>3, <2>1 DEF Knows, FinishesDeletions, CreationPcs, ProvisionPcs
<1> QED BY <1>2, <1>3 DEF Knows

LEMMA OthersDelete ==
  ASSUME PromiseInv, NEW w \in Worker, NEW v \in Deleter \ {w}, LeavesLocks(w)
  PROVE  v \in Worker /\ Deletes(v, task[v], lock')
<1>1. v \in Worker /\ Nobody \notin Worker /\ Sandbox \subseteq Lock
  BY NamesAssumption DEF Worker, Lock
<1>2. \A s \in Sandbox : lock'[s] = v => lock[s] = v
  BY <1>1 DEF LeavesLocks
<1> QED BY <1>1, <1>2 DEF PromiseInv, Deletes

LEMMA Turn ==
  ASSUME PromiseInv, Undisturbed, TypeOK', NEW w \in Worker, NEW t, Become(w, t),
         LeavesLocks(w), LeavesFiles(w), FinishesDeletions, NothingTorn',
         Knows(w, t, state', lock'), w \in Deleter => Deletes(w, t, lock')
  PROVE  PromiseInv'
<1>1. \A v \in Worker : task'[v] = IF v = w THEN t ELSE task[v]
  BY DEF Become, PromiseInv, TypeOK, TasksOK
<1>2. \A v \in Worker : Knows(v, task'[v], state', lock')
  BY <1>1, OthersKnow
<1>3. \A v \in Deleter : Deletes(v, task'[v], lock')
  BY <1>1, OthersDelete
<1> QED BY <1>2, <1>3 DEF PromiseInv

\* A step of a creation or a provisioning that writes no file.
LEMMA QuietTurn ==
  ASSUME PromiseInv, Undisturbed, TypeOK', NEW w \in Worker \ Deleter, NEW t, Become(w, t),
         LeavesLocks(w), UNCHANGED state, Knows(w, t, state, lock')
  PROVE  PromiseInv' /\ AgentStep
<1>1. LeavesFiles(w) /\ NothingTorn'
  BY DEF LeavesFiles, NothingTorn, PromiseInv
<1>2. FinishesDeletions
  <2>1. Sandbox \subseteq Lock /\ Nobody \notin Worker /\ Deleter \subseteq Worker
    BY NamesAssumption DEF Lock, Worker
  <2> QED BY <2>1 DEF FinishesDeletions, LeavesLocks
<1>3. AgentStep
  BY DEF AgentStep, Phase
<1> QED BY <1>1, <1>2, <1>3, Turn

\* ... that goes on under its locks.
LEMMA QuietTo ==
  ASSUME PromiseInv, Undisturbed, TypeOK', NEW w \in Worker \ Deleter, NEW pc, To(w, pc),
         UNCHANGED <<state, lock>>,
         \/ task[w].pc \in CreationPcs /\ pc \in CreationPcs
         \/ task[w].pc \in ProvisionPcs /\ pc \in ProvisionPcs
  PROVE  PromiseInv' /\ AgentStep
<1> DEFINE t == [task[w] EXCEPT !.pc = pc]
<1>1. t.pc = pc /\ t.sb = task[w].sb
  BY DEF PromiseInv, TypeOK, TasksOK, Task
<1>2. Become(w, t)
  BY DEF To
<1> HIDE DEF t
<1>3. Knows(w, t, state, lock')
  BY <1>1 DEF Knows, PromiseInv, CreationPcs, ProvisionPcs
<1> QED BY <1>2, <1>3, QuietTurn DEF LeavesLocks

\* ... or ends.
LEMMA QuietEnd ==
  ASSUME PromiseInv, Undisturbed, TypeOK', NEW w \in Worker \ Deleter, Become(w, At("done")),
         LeavesLocks(w), UNCHANGED state
  PROVE  PromiseInv' /\ AgentStep
<1>1. Knows(w, At("done"), state, lock')
  BY DEF Knows, At, CreationPcs, ProvisionPcs
<1> QED BY <1>1, QuietTurn

LEMMA UnlockedLeaves ==
  ASSUME TypeOK, NEW w, lock' = Unlocked(w) \/ UNCHANGED lock
  PROVE  LeavesLocks(w)
BY DEF LeavesLocks, Unlocked, TypeOK

LEMMA TakenLeaves ==
  ASSUME TypeOK, NEW w, NEW l, lock[l] = Nobody, Taken(w, l)
  PROVE  LeavesLocks(w)
BY DEF LeavesLocks, Taken, TypeOK

LEMMA QuietFinish ==
  ASSUME PromiseInv, Undisturbed, TypeOK', NEW w \in Worker \ Deleter, Finish(w), UNCHANGED state
  PROVE  PromiseInv' /\ AgentStep
BY UnlockedLeaves, QuietEnd DEF Finish, PromiseInv

\* The holder of the flock of s writes its file.
LEMMA Written ==
  ASSUME TypeOK, NEW s \in Sandbox, NEW x \in State, Save(s, x)
  PROVE  /\ \A r \in Sandbox : state'[r] = IF r = s THEN x ELSE state[r]
         /\ Phase' = [Phase EXCEPT ![s] = IF x.phase = "none" THEN "absent" ELSE x.phase]
<1>1. \A r \in Sandbox : state'[r] = IF r = s THEN x ELSE state[r]
  BY DEF Save, TypeOK
<1>2. \A r \in Sandbox :
        Phase'[r] = IF r = s THEN (IF x.phase = "none" THEN "absent" ELSE x.phase) ELSE Phase[r]
  BY <1>1 DEF Phase
<1>3. Phase' = [Phase EXCEPT ![s] = IF x.phase = "none" THEN "absent" ELSE x.phase]
  BY <1>2 DEF Phase
<1> QED BY <1>1, <1>3

\* The steps the promise allows.
LEMMA Moves ==
  ASSUME NEW s \in Sandbox, NEW p, Phase' = [Phase EXCEPT ![s] = p],
         \/ p = "creating" /\ Phase[s] = "absent"
         \/ p = "running" /\ Phase[s] \in {"creating", "error"}
         \/ p = "error" /\ Phase[s] \in {"creating", "running"}
         \/ p = "deleting" /\ Phase[s] # "absent"
         \/ p = "absent"
  PROVE  AgentStep
<1>1. Agent!Becomes(s, p)
  BY DEF Agent!Becomes, Phase
<1>2. \/ Agent!Accept(s) \/ Agent!Ready(s) \/ Agent!Break(s) \/ Agent!Begin(s)
      \/ Agent!Remove(s)
  BY <1>1 DEF Agent!Accept, Agent!Ready, Agent!Break, Agent!Begin, Agent!Remove, Phase
<1> QED BY <1>2 DEF AgentStep, Agent!Next

-----------------------------------------------------------------------------
(* Creations.                                                              *)

LEMMA CreateBeginKeeps ==
  ASSUME PromiseInv, Undisturbed, TypeOK', NEW w \in Creator, NEW s \in Sandbox, CreateBegin(w, s)
  PROVE  PromiseInv' /\ AgentStep
<1>0. w \in Worker \ Deleter
  BY WorkersAssumption DEF Worker
<1>1. UNCHANGED state /\ TypeOK
  BY DEF CreateBegin, store, PromiseInv
<1>2. CASE state[s].phase # "none"
  BY <1>0, <1>1, <1>2, QuietEnd, UnlockedLeaves DEF CreateBegin
<1>3. CASE state[s].phase = "none"
  <2> DEFINE t == [At(IF pods[s] = {} THEN "ports" ELSE "cleanup") EXCEPT !.sb = s]
  <2>1. t.pc \in {"ports", "cleanup"} /\ t.sb = s
    BY DEF At
  <2>2. Become(w, t) /\ Taken(w, s) /\ lock[s] = Nobody
    BY <1>3 DEF CreateBegin
  <2> HIDE DEF t
  <2>3. Knows(w, t, state, lock')
    BY <1>3, <2>1 DEF Knows, ProvisionPcs
  <2> QED BY <1>0, <1>1, <2>2, <2>3, TakenLeaves, QuietTurn
<1> QED BY <1>2, <1>3

LEMMA CreateKeeps ==
  ASSUME PromiseInv, Undisturbed, TypeOK', NEW w \in Creator, Create(w)
  PROVE  PromiseInv' /\ AgentStep
<1> DEFINE s == task[w].sb
<1>0. w \in Worker \ Deleter /\ w \notin Reconciler /\ TypeOK /\ TasksOK /\ task[w] \in Task
  BY WorkersAssumption DEF Worker, PromiseInv, TypeOK, TasksOK
<1>1. ASSUME task[w].pc \in CreationPcs
      PROVE  s \in Sandbox /\ lock[s] = w /\ state[s].phase = "none"
  BY <1>0, <1>1 DEF TasksOK, BusyPcs, LockedPcs, CreationPcs, PromiseInv, Knows
<1>2. CASE CreateCleanup(w)
  <2>1. s \in Sandbox /\ lock[s] = w /\ state[s].phase = "none"
    BY <1>1, <1>2 DEF CreateCleanup, CreationPcs
  <2>2. PICK x \in State : Save(s, x) /\ x.phase = "none"
    BY <1>0, <1>2, <2>1, NoStateType DEF CreateCleanup, NoState, TypeOK
  <2>3. \A r \in Sandbox : state'[r].phase = state[r].phase
    BY <1>0, <2>1, <2>2, Written
  <2> DEFINE t == [task[w] EXCEPT !.pc = "ports"]
  <2>4. t.pc = "ports" /\ t.sb = s /\ Become(w, t)
    BY <1>0, <1>2 DEF Task, CreateCleanup, To
  <2> HIDE DEF t
  <2>5. UNCHANGED lock
    BY <1>2 DEF CreateCleanup, memory
  <2>6. Knows(w, t, state', lock')
    BY <2>1, <2>3, <2>4 DEF Knows, ProvisionPcs
  <2>7. LeavesLocks(w) /\ LeavesFiles(w) /\ FinishesDeletions /\ NothingTorn'
    BY <2>3, <2>5 DEF LeavesLocks, LeavesFiles, FinishesDeletions, NothingTorn, PromiseInv
  <2>8. AgentStep
    BY <2>3 DEF AgentStep, Phase
  <2> QED BY <1>0, <2>4, <2>6, <2>7, <2>8, Turn
<1>3. CASE CreatePorts(w)
  <2>1. PICK list \in Listings : Become(w, [task[w] EXCEPT !.pc = "reserve", !.list = list])
    BY <1>3 DEF CreatePorts
  <2> DEFINE t == [task[w] EXCEPT !.pc = "reserve", !.list = list]
  <2>2. t.pc = "reserve" /\ t.sb = s /\ state[s].phase = "none"
    BY <1>0, <1>1, <1>3 DEF Task, CreatePorts, CreationPcs
  <2>5. Become(w, t)
    BY <2>1 DEF Become
  <2> HIDE DEF t
  <2>3. Knows(w, t, state, lock')
    BY <2>2 DEF Knows, ProvisionPcs
  <2>4. LeavesLocks(w) /\ UNCHANGED state
    BY <1>0, <1>3, TakenLeaves DEF CreatePorts, store
  <2> QED BY <1>0, <2>3, <2>4, <2>5, QuietTurn
<1>4. CASE CreateReserve(w)
  <2>1. UNCHANGED state
    BY <1>4 DEF CreateReserve, store
  <2>2. CASE Finish(w)
    BY <1>0, <2>1, <2>2, QuietFinish
  <2>3. CASE /\ Become(w, [task[w] EXCEPT !.pc = "admit", !.list = NoList])
             /\ lock' = [lock EXCEPT !["_ports"] = Nobody]
    <3> DEFINE t == [task[w] EXCEPT !.pc = "admit", !.list = NoList]
    <3>1. t.pc = "admit" /\ t.sb = s /\ state[s].phase = "none"
      BY <1>0, <1>1, <1>4 DEF Task, CreateReserve, CreationPcs
    <3>2. Become(w, t)
      BY <2>3
    <3> HIDE DEF t
    <3>3. Knows(w, t, state, lock')
      BY <3>1 DEF Knows, ProvisionPcs
    <3>4. LeavesLocks(w)
      BY <1>0, <1>4, <2>3 DEF LeavesLocks, TypeOK, TasksOK, CreateReserve
    <3> QED BY <1>0, <2>1, <3>2, <3>3, <3>4, QuietTurn
  <2> QED BY <1>4, <2>2, <2>3 DEF CreateReserve
<1>5. CASE CreateAdmit(w)
  <2>1. UNCHANGED state
    BY <1>5 DEF CreateAdmit, store
  <2>2. CASE Finish(w)
    BY <1>0, <2>1, <2>2, QuietFinish
  <2>3. CASE To(w, "save") /\ Taken(w, "_admission")
    <3> DEFINE t == [task[w] EXCEPT !.pc = "save"]
    <3>1. t.pc = "save" /\ t.sb = s /\ state[s].phase = "none" /\ Become(w, t)
      BY <1>0, <1>1, <1>5, <2>3 DEF Task, CreateAdmit, CreationPcs, To
    <3> HIDE DEF t
    <3>2. Knows(w, t, state, lock')
      BY <3>1 DEF Knows, ProvisionPcs
    <3> QED BY <1>0, <1>5, <2>1, <2>3, <3>1, <3>2, TakenLeaves, QuietTurn DEF CreateAdmit
  <2> QED BY <1>5, <2>2, <2>3 DEF CreateAdmit
<1>6. CASE CreateSave(w)
  <2> DEFINE p == <<"provision", w>>
             t == [At("lock") EXCEPT !.sb = s]
  <2>1. s \in Sandbox /\ lock[s] = w /\ state[s].phase = "none"
    BY <1>1, <1>6 DEF CreateSave, CreationPcs
  <2>2. NewState \in State /\ NewState.phase = "creating" /\ Save(s, NewState)
    BY <1>6, NoStateType DEF CreateSave, NewState, NoState, State, Phases
  <2>3. /\ \A r \in Sandbox : state'[r] = IF r = s THEN NewState ELSE state[r]
        /\ Phase' = [Phase EXCEPT ![s] = "creating"]
    BY <1>0, <2>1, <2>2, Written
  <2>4. AgentStep
    <3>1. Phase[s] = "absent"
      BY <2>1 DEF Phase
    <3> QED BY <2>1, <2>3, <3>1, Moves
  <2>5. LeavesLocks(w) /\ LeavesFiles(w) /\ NothingTorn'
    <3>1. LeavesLocks(w)
      BY <1>0, <1>6, UnlockedLeaves DEF CreateSave
    <3>2. LeavesFiles(w)
      BY <2>1, <2>3 DEF LeavesFiles
    <3>3. NothingTorn'
      BY <2>2, <2>3 DEF NothingTorn, PromiseInv
    <3> QED BY <3>1, <3>2, <3>3
  <2>6. FinishesDeletions
    <3>1. Sandbox \subseteq Lock /\ Nobody \notin Worker /\ Deleter \subseteq Worker
      BY NamesAssumption DEF Lock, Worker
    <3> QED BY <1>0, <2>2, <2>3, <2>5, <3>1 DEF FinishesDeletions, LeavesLocks
  <2>7. p \in Worker /\ p # w
    BY WorkersAssumption DEF Worker, Provisioner
  <2>8. \A v \in Worker : task'[v] = IF v = p THEN t ELSE IF v = w THEN At("done") ELSE task[v]
    BY <1>0, <1>6, <2>7 DEF CreateSave, TasksOK
  <2>9. Knows(w, At("done"), state', lock')
    BY DEF Knows, At, CreationPcs, ProvisionPcs
  <2>10. Knows(p, t, state', lock')
    <3>1. t.pc = "lock" /\ t.sb = s
      BY DEF At
    <3> HIDE DEF t
    <3> QED BY <2>1, <2>2, <2>3, <3>1 DEF Knows, CreationPcs, ProvisionPcs
  <2> HIDE DEF t, p
  <2>11. \A v \in Worker : Knows(v, task'[v], state', lock')
    BY <1>0, <2>5, <2>6, <2>8, <2>9, <2>10, OthersKnow
  <2>12. \A v \in Deleter : Deletes(v, task'[v], lock')
    <3>1. p \notin Deleter /\ w \notin Deleter
      BY <1>0, WorkersAssumption DEF Provisioner, p
    <3> QED BY <1>0, <2>5, <2>8, <3>1, OthersDelete
  <2> QED BY <2>4, <2>5, <2>11, <2>12 DEF PromiseInv
<1> QED BY <1>2, <1>3, <1>4, <1>5, <1>6 DEF Create

-----------------------------------------------------------------------------
(* Provisionings.                                                          *)

\* A provisioning writes how it ended, over a phase it may end with.
LEMMA EndingKeeps ==
  ASSUME PromiseInv, Undisturbed, TypeOK', NEW w \in Provisioner,
         task[w].pc \in ProvisionPcs, NEW phase \in {"running", "error"},
         Save(task[w].sb, [task[w].copy EXCEPT !.phase = phase]),
         NEW t, Become(w, t), LeavesLocks(w),
         \/ t.pc = "clean" /\ t.sb = task[w].sb /\ UNCHANGED lock
         \/ t = At("done")
  PROVE  PromiseInv' /\ AgentStep
<1> DEFINE s == task[w].sb
           x == [task[w].copy EXCEPT !.phase = phase]
<1>0. w \in Worker \ Deleter /\ TypeOK /\ TasksOK /\ Nobody \notin Worker
  BY WorkersAssumption, NamesAssumption DEF Worker, PromiseInv, TypeOK
<1>1. s \in Sandbox /\ lock[s] = w /\ state[s].phase \in {"creating", "running", "error"}
  BY <1>0 DEF PromiseInv, Knows, TasksOK, BusyPcs, LockedPcs, ProvisionPcs
<1>2. x \in State /\ x.phase = phase
  <2>1. phase \in Phases /\ task[w].copy \in State
    BY <1>0 DEF Phases, TasksOK, Task
  <2>2. x \in State
    BY <1>0, <2>1, CopyType
  <2>3. x.phase = phase
    BY <2>1 DEF State
  <2> QED BY <2>2, <2>3
<1>3. Save(s, x)
  OBVIOUS
<1> HIDE DEF x
<1>4. /\ \A r \in Sandbox : state'[r] = IF r = s THEN x ELSE state[r]
      /\ Phase' = [Phase EXCEPT ![s] = phase]
  BY <1>0, <1>1, <1>2, <1>3, Written
<1>5. AgentStep
  <2>1. Phase[s] = state[s].phase
    BY <1>1 DEF Phase
  <2>2. CASE state[s].phase = phase
    <3>1. Phase' = Phase
      BY <1>4, <2>1, <2>2 DEF Phase
    <3> QED BY <3>1 DEF AgentStep
  <2>3. CASE state[s].phase # phase
    BY <1>1, <1>4, <2>1, <2>3, Moves
  <2> QED BY <2>2, <2>3
<1>6. LeavesFiles(w) /\ NothingTorn'
  BY <1>1, <1>2, <1>4 DEF LeavesFiles, NothingTorn, PromiseInv
<1>7. FinishesDeletions
  <2>1. Sandbox \subseteq Lock /\ Deleter \subseteq Worker
    BY DEF Lock, Worker
  <2> QED BY <1>0, <1>2, <1>4, <2>1 DEF FinishesDeletions, LeavesLocks
<1>8. Knows(w, t, state', lock')
  <2>1. CASE t.pc = "clean" /\ t.sb = s /\ UNCHANGED lock
    BY <1>1, <1>2, <1>4, <2>1 DEF Knows, CreationPcs, ProvisionPcs
  <2>2. CASE t = At("done")
    BY <2>2 DEF Knows, At, CreationPcs, ProvisionPcs
  <2> QED BY <2>1, <2>2
<1> QED BY <1>0, <1>5, <1>6, <1>7, <1>8, Turn

LEMMA ProvisionKeeps ==
  ASSUME PromiseInv, Undisturbed, TypeOK', NEW w \in Provisioner, Provision(w)
  PROVE  PromiseInv' /\ AgentStep
<1> DEFINE s == task[w].sb
<1>0. /\ w \in Worker \ Deleter /\ TypeOK /\ TasksOK /\ task[w] \in Task
      /\ Nobody \notin Worker /\ Deleter \subseteq Worker
  BY WorkersAssumption, NamesAssumption DEF Worker, PromiseInv, TypeOK, TasksOK
<1>1. CASE ProvisionBegin(w)
  <2>0. s \in Sandbox /\ lock[s] = Nobody /\ UNCHANGED state /\ task[w].pc = "lock"
    BY <1>0, <1>1 DEF ProvisionBegin, store, TasksOK, BusyPcs
  <2>1. CASE state[s].phase \in {"none", "corrupt"}
    BY <1>0, <1>1, <2>0, <2>1, QuietEnd, UnlockedLeaves DEF ProvisionBegin
  <2>2. CASE state[s].phase \notin {"none", "corrupt"}
    <3> DEFINE t == [task[w] EXCEPT !.pc = "sweep", !.copy = state[s]]
    <3>1. t.pc = "sweep" /\ t.sb = s /\ Become(w, t) /\ Taken(w, s)
      BY <1>0, <1>1, <2>2 DEF ProvisionBegin, Task
    <3> HIDE DEF t
    <3>2. state[s].phase \in {"creating", "running", "error"}
      BY <1>0, <2>0, <2>2 DEF PromiseInv, Knows, TypeOK, State, Phases
    <3>3. lock'[s] = w /\ LeavesLocks(w)
      BY <1>0, <2>0, <3>1, TakenLeaves DEF Taken, TypeOK, Lock
    <3>4. Knows(w, t, state, lock')
      BY <3>1, <3>2, <3>3 DEF Knows, CreationPcs
    <3> QED BY <1>0, <2>0, <3>1, <3>3, <3>4, QuietTurn
  <2> QED BY <2>1, <2>2
<1>2. CASE ProvisionSweep(w)
  BY <1>0, <1>2, QuietTo DEF ProvisionSweep, memory, ProvisionPcs
<1>3. CASE ProvisionRun(w)
  <2>1. UNCHANGED <<state, lock>> /\ task[w].pc = "run"
    BY <1>3 DEF ProvisionRun, memory
  <2>2. CASE To(w, "fail")
    BY <1>0, <2>1, <2>2, QuietTo DEF ProvisionPcs
  <2>3. CASE ~ To(w, "fail")
    <3> DEFINE t == [task[w] EXCEPT !.pc = "start", !.copy.pod = w[2]]
    <3>1. t.pc = "start" /\ t.sb = s /\ Become(w, t)
      BY <1>0, <1>3, <2>3 DEF ProvisionRun, Task
    <3> HIDE DEF t
    <3>2. Knows(w, t, state, lock')
      BY <1>0, <2>1, <3>1 DEF Knows, PromiseInv, CreationPcs, ProvisionPcs
    <3> QED BY <1>0, <2>1, <3>1, <3>2, QuietTurn DEF LeavesLocks
  <2> QED BY <2>2, <2>3
<1>4. CASE ProvisionStart(w)
  <2>1. \E pc \in {"publish", "fail"} : To(w, pc)
    BY <1>4 DEF ProvisionStart
  <2> QED BY <1>0, <1>4, <2>1, QuietTo DEF ProvisionStart, store, memory, ProvisionPcs
<1>5. CASE ProvisionPublish(w)
  <2>1. \E pc \in {"finish", "fail"} : To(w, pc)
    BY <1>5 DEF ProvisionPublish
  <2> QED BY <1>0, <1>5, <2>1, QuietTo DEF ProvisionPublish, memory, ProvisionPcs
<1>6. CASE ProvisionFinish(w)
  <2>1. Become(w, At("done")) /\ LeavesLocks(w)
    BY <1>0, <1>6, UnlockedLeaves DEF ProvisionFinish, Finish
  <2> QED BY <1>6, <2>1, EndingKeeps DEF ProvisionFinish, ProvisionPcs
<1>7. CASE ProvisionFail(w)
  <2> DEFINE t == [task[w] EXCEPT !.pc = "clean"]
  <2>1. t.pc = "clean" /\ t.sb = s /\ Become(w, t) /\ UNCHANGED lock /\ LeavesLocks(w)
    BY <1>0, <1>7 DEF ProvisionFail, To, Task, memory, LeavesLocks
  <2> HIDE DEF t
  <2> QED BY <1>7, <2>1, EndingKeeps DEF ProvisionFail, ProvisionPcs
<1>8. CASE ProvisionClean(w)
  BY <1>0, <1>8, QuietTo DEF ProvisionClean, memory, ProvisionPcs
<1>9. CASE ProvisionMark(w)
  <2>1. UNCHANGED state /\ task[w].pc = "mark"
    BY <1>9 DEF ProvisionMark, store
  <2>2. CASE Finish(w)
    BY <1>0, <2>1, <2>2, QuietFinish
  <2>3. CASE ~ Finish(w)
    <3> DEFINE t == [task[w] EXCEPT !.pc = "note", !.copy = state[s]]
    <3>1. t.pc = "note" /\ t.sb = s /\ Become(w, t) /\ UNCHANGED lock
      BY <1>0, <1>9, <2>3 DEF ProvisionMark, Task
    <3> HIDE DEF t
    <3>2. Knows(w, t, state, lock')
      BY <1>0, <2>1, <3>1 DEF Knows, PromiseInv, CreationPcs, ProvisionPcs
    <3> QED BY <1>0, <2>1, <3>1, <3>2, QuietTurn DEF LeavesLocks
  <2> QED BY <2>2, <2>3
<1>10. CASE ProvisionNote(w)
  <2>1. Become(w, At("done")) /\ LeavesLocks(w)
    BY <1>0, <1>10, UnlockedLeaves DEF ProvisionNote, Finish
  <2> QED BY <1>10, <2>1, EndingKeeps DEF ProvisionNote, ProvisionPcs
<1> QED BY <1>1, <1>2, <1>3, <1>4, <1>5, <1>6, <1>7, <1>8, <1>9, <1>10 DEF Provision

-----------------------------------------------------------------------------
(* Deletions.                                                              *)

LEMMA DeleteBeginKeeps ==
  ASSUME PromiseInv, Undisturbed, TypeOK', NEW w \in Deleter, NEW s \in Sandbox, DeleteBegin(w, s)
  PROVE  PromiseInv' /\ AgentStep
<1>0. w \in Worker /\ TypeOK /\ UNCHANGED state /\ lock[s] = Nobody
  BY DEF Worker, PromiseInv, DeleteBegin, store
<1>1. AgentStep /\ LeavesFiles(w) /\ NothingTorn'
  BY <1>0 DEF AgentStep, Phase, LeavesFiles, NothingTorn, PromiseInv
<1>2. LeavesLocks(w) /\ FinishesDeletions
  <2>1. UNCHANGED lock \/ Taken(w, s)
    BY DEF DeleteBegin
  <2>2. \A l \in Lock : lock'[l] # lock[l] => lock[l] = Nobody /\ lock'[l] = w
    BY <1>0, <2>1 DEF Taken, TypeOK
  <2> QED BY <1>0, <2>2, NamesAssumption DEF LeavesLocks, FinishesDeletions, Lock, Worker
<1>5. \A r \in Sandbox : lock[r] # w
  BY DEF PromiseInv, Deletes, DeletionPcs, DeleteBegin
<1>3. CASE state[s].phase \in {"none", "corrupt"}
  <2>1. Become(w, At("done")) /\ UNCHANGED lock
    BY <1>3 DEF DeleteBegin
  <2>2. Knows(w, At("done"), state', lock')
    BY DEF Knows, At, CreationPcs, ProvisionPcs
  <2>3. Deletes(w, At("done"), lock')
    BY <1>5, <2>1 DEF Deletes
  <2> QED BY <1>0, <1>1, <1>2, <2>1, <2>2, <2>3, Turn
<1>4. CASE state[s].phase \notin {"none", "corrupt"}
  <2> DEFINE t == [At("drop") EXCEPT !.sb = s, !.copy = state[s]]
  <2>1. t.pc = "drop" /\ t.sb = s /\ Become(w, t) /\ Taken(w, s)
    BY <1>4 DEF DeleteBegin, At
  <2> HIDE DEF t
  <2>2. Knows(w, t, state', lock')
    BY <1>0, <1>4, <2>1 DEF Knows, CreationPcs, ProvisionPcs
  <2>3. Deletes(w, t, lock')
    BY <1>0, <1>5, <2>1 DEF Deletes, DeletionPcs, Taken, TypeOK, Lock
  <2> QED BY <1>0, <1>1, <1>2, <2>1, <2>2, <2>3, Turn
<1> QED BY <1>3, <1>4

\* A deletion writes "deleting", under its lock, or gives the lock back and leaves
\* nothing.
LEMMA DeleteKeeps ==
  ASSUME PromiseInv, Undisturbed, TypeOK', NEW w \in Deleter, Delete(w)
  PROVE  PromiseInv' /\ AgentStep
<1> DEFINE s == task[w].sb
<1>0. /\ w \in Worker /\ w \notin Reconciler /\ TypeOK /\ TasksOK /\ task[w] \in Task
      /\ Nobody \notin Worker /\ Sandbox \subseteq Lock
  BY WorkersAssumption, NamesAssumption DEF Worker, PromiseInv, TypeOK, TasksOK, Lock
<1>1. ASSUME task[w].pc \in {"drop", "remove", "erase"}
      PROVE  s \in Sandbox /\ lock[s] = w
  BY <1>0, <1>1 DEF TasksOK, BusyPcs, LockedPcs
<1>5. Deletes(w, task[w], lock)
  BY DEF PromiseInv
<1>2. CASE DeleteMark(w)
  <2> DEFINE x == [task[w].copy EXCEPT !.phase = "deleting"]
  <2>1. s \in Sandbox /\ lock[s] = w /\ state[s].phase # "none" /\ UNCHANGED lock
    BY <1>0, <1>1, <1>2 DEF DeleteMark, memory, PromiseInv, Knows
  <2>2. x \in State /\ x.phase = "deleting" /\ Save(s, x)
    <3>1. x \in State
      BY <1>0, CopyType DEF Phases
    <3>2. x.phase = "deleting" /\ Save(s, x)
      BY <1>0, <1>2 DEF DeleteMark, Task, State
    <3> QED BY <3>1, <3>2
  <2> HIDE DEF x
  <2>3. /\ \A r \in Sandbox : state'[r] = IF r = s THEN x ELSE state[r]
        /\ Phase' = [Phase EXCEPT ![s] = "deleting"]
    BY <1>0, <2>1, <2>2, Written
  <2>4. AgentStep
    <3>1. Phase[s] # "absent"
      BY <1>0, <2>1 DEF Phase, TypeOK, State, Phases
    <3> QED BY <2>1, <2>3, <3>1, Moves
  <2>5. LeavesLocks(w) /\ LeavesFiles(w) /\ NothingTorn' /\ FinishesDeletions
    BY <2>1, <2>2, <2>3
    DEF LeavesLocks, LeavesFiles, NothingTorn, FinishesDeletions, PromiseInv
  <2> DEFINE t == [task[w] EXCEPT !.pc = "remove"]
  <2>6. t.pc = "remove" /\ t.sb = s /\ Become(w, t)
    BY <1>0, <1>2 DEF DeleteMark, To, Task
  <2> HIDE DEF t
  <2>7. Knows(w, t, state', lock') /\ Deletes(w, t, lock')
    BY <1>5, <2>1, <2>6 DEF Knows, CreationPcs, ProvisionPcs, Deletes, DeletionPcs
  <2> QED BY <1>0, <2>4, <2>5, <2>6, <2>7, Turn
<1>3. CASE RemoveSandbox(w)
  <2>1. UNCHANGED <<state, lock>>
    BY <1>3 DEF RemoveSandbox, memory
  <2>2. LeavesLocks(w) /\ LeavesFiles(w) /\ NothingTorn' /\ FinishesDeletions /\ AgentStep
    BY <2>1
    DEF LeavesLocks, LeavesFiles, NothingTorn, FinishesDeletions, PromiseInv, AgentStep, Phase
  <2> DEFINE t == [task[w] EXCEPT !.pc = "erase"]
  <2>3. t.pc = "erase" /\ t.sb = s /\ Become(w, t)
    BY <1>0, <1>3 DEF RemoveSandbox, To, Task
  <2> HIDE DEF t
  <2>4. Knows(w, t, state', lock') /\ Deletes(w, t, lock')
    BY <1>5, <2>1, <2>3 DEF Knows, CreationPcs, ProvisionPcs, Deletes, DeletionPcs
  <2> QED BY <1>0, <2>2, <2>3, <2>4, Turn
<1>4. CASE EraseState(w)
  <2>1. s \in Sandbox /\ lock[s] = w
    BY <1>1, <1>4 DEF EraseState
  <2>2. Save(s, NoState) /\ NoState \in State /\ NoState.phase = "none"
    BY <1>4, NoStateType DEF EraseState, NoState
  <2>3. /\ \A r \in Sandbox : state'[r] = IF r = s THEN NoState ELSE state[r]
        /\ Phase' = [Phase EXCEPT ![s] = "absent"]
    BY <1>0, <2>1, <2>2, Written
  <2>4. AgentStep
    BY <2>1, <2>3, Moves
  <2>5. Become(w, At("done")) /\ lock' = Unlocked(w)
    BY <1>4 DEF EraseState
  <2>6. LeavesLocks(w) /\ LeavesFiles(w) /\ NothingTorn'
    <3>1. LeavesLocks(w)
      BY <1>0, <2>5, UnlockedLeaves
    <3> QED BY <2>1, <2>2, <2>3, <3>1 DEF LeavesFiles, NothingTorn, PromiseInv
  <2>7. FinishesDeletions
    <3>1. \A l \in Lock : lock'[l] = IF lock[l] = w THEN Nobody ELSE lock[l]
      BY <2>5 DEF Unlocked
    <3>2. ASSUME NEW r \in Sandbox, state'[r].phase = "deleting", lock'[r] \notin Deleter
          PROVE  state[r].phase = "deleting" /\ lock[r] \notin Deleter
      <4>1. r # s /\ state[r].phase = "deleting"
        BY <2>2, <2>3, <3>2
      <4>2. CASE lock[r] # w
        BY <1>0, <3>1, <3>2, <4>1, <4>2
      <4>3. CASE lock[r] = w
        BY <1>5, <4>1, <4>3 DEF Deletes
      <4> QED BY <4>1, <4>2, <4>3
    <3> QED BY <3>2 DEF FinishesDeletions
  <2>8. Knows(w, At("done"), state', lock') /\ Deletes(w, At("done"), lock')
    <3>1. \A r \in Sandbox : lock'[r] # w
      BY <1>0, <2>5 DEF Unlocked
    <3> QED BY <3>1 DEF Knows, At, CreationPcs, ProvisionPcs, Deletes
  <2> QED BY <1>0, <2>4, <2>5, <2>6, <2>7, <2>8, Turn
<1> QED BY <1>2, <1>3, <1>4 DEF Delete

-----------------------------------------------------------------------------
(* Time-outs, containers that exit, time, crashes, and the theorem.        *)

\* A step that turns no goroutine, gives no lock, and changes no phase.
LEMMA StandStill ==
  ASSUME PromiseInv, TypeOK', UNCHANGED <<lock, task>>,
         \A s \in Sandbox : state'[s].phase = state[s].phase
  PROVE  PromiseInv' /\ AgentStep
<1>1. ASSUME NEW w \in Worker
      PROVE  Knows(w, task[w], state', lock)
  <2>1. Knows(w, task[w], state, lock) /\ TasksOK
    BY DEF PromiseInv, TypeOK
  <2>2. task[w].pc \in CreationPcs \cup ProvisionPcs \cup {"drop", "lock"} => task[w].sb \in Sandbox
    BY <2>1 DEF TasksOK, BusyPcs, LockedPcs, CreationPcs, ProvisionPcs
  <2> QED BY <2>1, <2>2 DEF Knows, CreationPcs, ProvisionPcs
<1>2. PromiseInv'
  BY <1>1 DEF PromiseInv, NothingTorn, Deletes
<1> QED BY <1>2 DEF AgentStep, Phase

LEMMA CrashKeeps ==
  ASSUME PromiseInv, Undisturbed, TypeOK', Crash
  PROVE  PromiseInv' /\ AgentStep
<1>0. TypeOK /\ Deleter \subseteq Worker /\ Nobody \notin Worker /\ Sandbox \subseteq Lock
  BY NamesAssumption DEF PromiseInv, Worker, Lock
<1>1. \A s \in Sandbox : state'[s].phase = state[s].phase
  BY DEF Crash, Undisturbed
<1>2. \A s \in Sandbox : lock'[s] = Nobody
  BY <1>0 DEF Crash
<1>3. \A w \in Worker : task'[w] \in {At("new"), At("idle"), At("done")}
  BY DEF Crash
<1>4. \A w \in Worker : Knows(w, task'[w], state', lock')
  BY <1>3 DEF Knows, At, CreationPcs, ProvisionPcs
<1>5. \A w \in Deleter : Deletes(w, task'[w], lock')
  BY <1>0, <1>2 DEF Deletes
<1> QED BY <1>1, <1>4, <1>5 DEF PromiseInv, NothingTorn, AgentStep, Phase

LEMMA EnvironmentKeeps ==
  ASSUME PromiseInv, Undisturbed, TypeOK', Environment
  PROVE  PromiseInv' /\ AgentStep
<1>0. /\ TypeOK /\ Deleter \subseteq Worker /\ Creator \subseteq Worker
      /\ Creator \cap Deleter = {}
  BY WorkersAssumption DEF PromiseInv, Worker
<1>1. ASSUME NEW s \in Sandbox, NEW w \in Creator, CreateBegin(w, s)
      PROVE  PromiseInv' /\ AgentStep
  BY <1>1, CreateBeginKeeps
<1>2. ASSUME NEW s \in Sandbox, NEW w \in Deleter, DeleteBegin(w, s)
      PROVE  PromiseInv' /\ AgentStep
  BY <1>2, DeleteBeginKeeps
<1>3. ASSUME NEW s \in Sandbox, NEW w \in Creator \cup Deleter, RequestTimeout(w, s)
      PROVE  PromiseInv' /\ AgentStep
  <2>1. /\ UNCHANGED <<state, lock>> /\ Become(w, At("done")) /\ task[w].pc = "new"
        /\ LeavesLocks(w)
    BY <1>3 DEF RequestTimeout, store, memory, LeavesLocks
  <2>2. CASE w \in Creator
    BY <1>0, <2>1, <2>2, QuietEnd
  <2>3. CASE w \in Deleter
    <3>1. LeavesFiles(w) /\ FinishesDeletions /\ NothingTorn' /\ AgentStep
      BY <2>1
      DEF LeavesFiles, FinishesDeletions, NothingTorn, PromiseInv, AgentStep, Phase
    <3>2. Knows(w, At("done"), state', lock') /\ Deletes(w, At("done"), lock')
      BY <2>1, <2>3
      DEF Knows, At, CreationPcs, ProvisionPcs, Deletes, DeletionPcs, PromiseInv
    <3> QED BY <1>0, <2>1, <2>3, <3>1, <3>2, Turn
  <2> QED BY <2>2, <2>3
<1>4. ASSUME NEW w \in Creator, CreateTimeout(w)
      PROVE  PromiseInv' /\ AgentStep
  BY <1>0, <1>4, QuietFinish DEF CreateTimeout, store
<1>5. ASSUME NEW s \in Sandbox, NEW p \in Creator, ContainerExits(s, p)
      PROVE  PromiseInv' /\ AgentStep
  BY <1>5, StandStill DEF ContainerExits, store, memory
<1>6. ASSUME NEW s \in Sandbox, Age(s)
      PROVE  PromiseInv' /\ AgentStep
  <2>1. \A r \in Sandbox : state'[r].phase = state[r].phase
    BY <1>0, <1>6 DEF Age, Save, TypeOK, State
  <2> QED BY <1>6, <2>1, StandStill DEF Age, memory
<1>7. ASSUME NEW s \in Sandbox, GracePasses(s)
      PROVE  PromiseInv' /\ AgentStep
  BY <1>7, StandStill DEF GracePasses, store
<1>8. ~ \E p \in Provisioner : ProvisionTimeout(p)
  BY DEF ProvisionTimeout, Fault, Undisturbed
<1>9. CASE Crash
  BY <1>9, CrashKeeps
<1> QED BY <1>1, <1>2, <1>3, <1>4, <1>5, <1>6, <1>7, <1>8, <1>9 DEF Environment

LEMMA NextKeeps ==
  ASSUME PromiseInv, Undisturbed, [Next]_vars
  PROVE  PromiseInv' /\ AgentStep
<1>1. TypeOK'
  BY NextType, StutterType DEF PromiseInv
<1>2. CASE UNCHANGED vars
  BY <1>1, <1>2, StandStill DEF vars, store, memory
<1>3. Reconciler = {}
  BY DEF Undisturbed
<1> QED BY <1>1, <1>2, <1>3, CreateKeeps, ProvisionKeeps, DeleteKeeps, EnvironmentKeeps DEF Next

LEMMA InitPromise == Init => PromiseInv /\ Agent!Init
<1> SUFFICES ASSUME Init PROVE PromiseInv /\ Agent!Init
  OBVIOUS
<1>1. /\ \A s \in Sandbox : state[s].phase = "none" /\ lock[s] = Nobody
      /\ Deleter \subseteq Worker /\ Nobody \notin Worker
  BY NamesAssumption DEF Init, NoList, NoState, Lock, Worker
<1>2. \A w \in Worker : task[w] \in {At("new"), At("idle"), At("done")}
  <2>1. ASSUME NEW w \in Worker
        PROVE  task[w] \in {At("new"), At("idle"), At("done")}
    <3>1. CASE w \in Creator \cup Deleter
      BY <3>1 DEF Init, Worker
    <3>2. CASE w \in Reconciler
      BY <3>2, WorkersAssumption DEF Init, Worker
    <3>3. CASE w \in Provisioner
      BY <3>3, WorkersAssumption DEF Init, Worker
    <3> QED BY <3>1, <3>2, <3>3 DEF Worker
  <2> QED BY <2>1
<1>3. \A w \in Worker : Knows(w, task[w], state, lock)
  BY <1>2 DEF Knows, At, CreationPcs, ProvisionPcs
<1>4. \A w \in Deleter : Deletes(w, task[w], lock)
  BY <1>1 DEF Deletes
<1>5. PromiseInv
  BY <1>1, <1>3, <1>4, InitType DEF PromiseInv, NothingTorn
<1> QED BY <1>1, <1>5 DEF Agent!Init

\* sbxlet keeps its promise, for every number of sandboxes, creations and deletions and
\* with crashes of the daemon: an id that is known is not accepted again, a provisioning
\* revives nothing that is being deleted, and every step concerns one id
\* (CreateSandbox, provisionSandboxSync, DeleteSandbox).
THEOREM KeepsPromise ==
  ASSUME Undisturbed
  PROVE  Spec => KeepsItsPromise
<1>1. Init => PromiseInv /\ Agent!Init
  BY InitPromise
<1>2. PromiseInv /\ [Next]_vars => PromiseInv' /\ [Agent!Next]_Phase
  BY NextKeeps DEF AgentStep
<1> QED BY <1>1, <1>2, PTL DEF Spec, KeepsItsPromise, Agent!Spec, Phase
=============================================================================
