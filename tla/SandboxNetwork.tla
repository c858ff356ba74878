---------------------------- MODULE SandboxNetwork ----------------------------
(***************************************************************************)
(* What sbxlet builds around the pods of its sandboxes on one node, and    *)
(* takes down again: the hooks and chains of the network policy, the early *)
(* accepts of published ports in FORWARD, the DNAT rules, the cgroups; with *)
(* the reconcile passes that run beside the requests, and restarts.        *)
(*                                                                         *)
(* The order of the rules is the point: iptables takes the first match,    *)
(* and addresses, host ports and ids pass from one sandbox to the next.    *)
(* Who may do what to a state file at which moment is module Sbxlet's: here *)
(* a request, and the provisioning it leads to, is one goroutine that has  *)
(* the flock of the id.                                                    *)
(***************************************************************************)
EXTENDS Naturals, Sequences, SequencesExt

CONSTANTS
  Sandbox, IP, Port,
  PortOf,       \* PortOf[s]: the host port s publishes; container ports are equal
  DeleteFrom,   \* bound: the phases in which a deletion begins
  Faults,       \* kinds of faults that happen in this instance
  MaxCreates,   \* bound: creations, the names of the pods
  MaxFaults,    \* bound: faults
  MaxCrashes,   \* bound: stops of sbxlet
  NoIP, Reconciler

Worker == Sandbox \cup {Reconciler}

ASSUME NamesAssumption ==
  /\ NoIP \notin IP /\ "SANDBOX-FWD" \notin IP /\ Reconciler \notin Sandbox
  /\ PortOf \in [Sandbox -> Port]
  /\ DeleteFrom \subseteq {"running", "error"}
  /\ Faults \subseteq {"run", "limits", "address", "start", "rules", "stop", "exit"}
  /\ {MaxCreates, MaxFaults, MaxCrashes} \subseteq Nat

VARIABLES
  state,      \* the state files
  pod,        \* pod[s]: the pod of the runtime that carries the id of s
  forward,    \* the chain FORWARD
  hooks,      \* the chains SANDBOX-FWD and SANDBOX-IN: <<address, s>>
  rules,      \* rules[s]: the chains of s; empty when flushed or not there
  nat,        \* the DNAT rules, in PREROUTING and in OUTPUT alike
  leaves,     \* sandboxes with a cgroup
  task,       \* the goroutine of each id, and the reconcile loop
  pass,       \* what the reconcile pass listed, and what it has to visit
  main,       \* the process: "down", "ensuring" (New), "up"
  creates, faults, crashes,
  overlooked, \* history: ids that were created while a pass was under way
  strayed     \* history: whether a pass erased the state of such an id

filter == <<forward, hooks, rules>>
store  == <<state, leaves>>
bounds == <<creates, crashes>>
past   == <<overlooked, strayed>>
vars   == <<store, pod, filter, nat, task, pass, main, bounds, faults, past>>

-----------------------------------------------------------------------------
Phases  == {"none", "creating", "running", "deleting", "error"}
PodName == 0..MaxCreates
State   == [phase : Phases, ip : IP \cup {NoIP}, pod : PodName, open : BOOLEAN]
Pod     == [name : PodName, ip : IP \cup {NoIP}, well : BOOLEAN]

NoState == [phase |-> "none", ip |-> NoIP, pod |-> 0, open |-> FALSE]
NoPod   == [name |-> 0, ip |-> NoIP, well |-> FALSE]

Jump    == "SANDBOX-FWD"
Rule    == {"private", "ACCEPT", "REJECT"}
Dnat    == [to : Sandbox, ip : IP]

\* "stop" to "unhook" are the removal, which "then" leads on from.
Pcs == {"idle", "save", "sweep", "run", "limits", "start", "hook", "policy", "publish",
        "finish", "fail", "stop", "unpublish", "unhook", "erase", "mark", "visit"}

Task == [pc : Pcs, sb : Worker, copy : State, then : Pcs]

At(pc, s, x) == [pc |-> pc, sb |-> s, copy |-> x, then |-> "idle"]
Idle(w)      == At("idle", w, NoState)

Become(w, t) == task' = [task EXCEPT ![w] = t]
To(w, pc)    == Become(w, [task[w] EXCEPT !.pc = pc])
Removal(s, x, then) == [At("stop", s, x) EXCEPT !.then = then]

Listed(list) == {s \in Sandbox : list[s].phase # "none"}
NoPass       == [list |-> [s \in Sandbox |-> NoState], todo |-> {}]
Reconciling  == task[Reconciler].pc # "idle"

Fault(kind) == kind \in Faults /\ faults < MaxFaults /\ faults' = faults + 1
NoFault     == UNCHANGED faults

-----------------------------------------------------------------------------
(***************************************************************************)
(* iptables, which takes the first rule that matches.                      *)
(***************************************************************************)
AppendUnique(chain, rule) == IF Contains(chain, rule) THEN chain ELSE Append(chain, rule)

\* The chain without the rules that are in gone, in the order it had.
Without(chain, gone) ==
  LET kept[i \in 0..Len(chain)] ==
        IF i = 0 THEN <<>>
        ELSE IF chain[i] \in gone THEN kept[i - 1] ELSE Append(kept[i - 1], chain[i])
  IN  kept[Len(chain)]

\* (Faulty variant: the jump goes to the end.)
InsertLast(chain, rule) == Append(Without(chain, {rule}), rule)

\* insertFirst, and insertForwardAcceptEarly, which leaves the jump its place.
InsertFirst(chain, rule) == <<rule>> \o Without(chain, {rule})
InsertSecond(chain, rule) ==
  LET rest == Without(chain, {rule}) IN  <<Head(rest), rule>> \o Tail(rest)

\* What becomes of a new connection from the pod at ip to a public address: its hooks
\* in their order, until one leads to a chain that decides.
Verdict(ip) ==
  LET hook == SelectInSeq(hooks, LAMBDA h : h[1] = ip /\ rules[h[2]] # <<>>)
      all  == IF hook = 0 THEN <<>> ELSE rules[hooks[hook][2]]
      last == SelectInSeq(all, LAMBDA r : r # "private")
  IN  IF last = 0 THEN "none" ELSE all[last]

\* Where a connection to host port p is led to.
Target(p) ==
  LET hit == SelectInSeq(nat, LAMBDA d : PortOf[d.to] = p)
  IN  IF hit = 0 THEN NoIP ELSE nat[hit].ip

-----------------------------------------------------------------------------
(***************************************************************************)
(* Create.                                                                 *)
(***************************************************************************)
\* What the CNI cache knows of the address of a pod no state names.
OrphanAddress(s) == {NoIP, pod[s].ip}

\* hasRuntimeArtifacts: a pod that goes by the id is removed first.
CreateBegin(s, open) ==
  /\ main = "up" /\ task[s].pc = "idle"
  /\ state[s].phase = "none"
  /\ creates < MaxCreates
  /\ creates' = creates + 1
  /\ LET x == [NoState EXCEPT !.open = open]
     IN  IF pod[s].name = 0
         THEN Become(s, At("save", s, x))
         ELSE \E ip \in OrphanAddress(s) :
                Become(s, Removal(s, [x EXCEPT !.pod = pod[s].name, !.ip = ip], "save"))
  /\ UNCHANGED <<store, pod, filter, nat, pass, main, crashes, faults, past>>

\* ensureHostPortsAvailable, then the state is saved and provisioning begins.
CreateSave(s) ==
  /\ task[s].pc = "save"
  /\ LET x == [NoState EXCEPT !.phase = "creating", !.open = task[s].copy.open]
         busy == \E t \in Sandbox \ {s} : PortOf[t] = PortOf[s] /\ state[t].phase # "none"
     IN  IF busy
         THEN Become(s, Idle(s)) /\ UNCHANGED <<state, overlooked>>
         ELSE /\ Become(s, At("sweep", s, x))
              /\ state' = [state EXCEPT ![s] = x]
              /\ overlooked' = IF Reconciling THEN overlooked \cup {s} ELSE overlooked \ {s}
  /\ UNCHANGED <<leaves, pod, filter, nat, pass, main, bounds, faults, strayed>>

-----------------------------------------------------------------------------
(***************************************************************************)
(* provisionSandboxSync.                                                   *)
(***************************************************************************)
\* createPodSandboxCRI: a pod that goes by the id is removed, then the cgroup is made.
ProvisionSweep(s) ==
  /\ task[s].pc = "sweep"
  /\ \/ NoFault /\ pod' = [pod EXCEPT ![s] = NoPod]
     \/ pod[s].name # 0 /\ Fault("stop") /\ UNCHANGED pod
  /\ leaves' = leaves \cup {s}
  /\ To(s, "run")
  /\ UNCHANGED <<state, filter, nat, pass, main, bounds, past>>

FreeIP == IP \ {pod[t].ip : t \in Sandbox}

\* The runtime gives the pod an address no other pod has, or none, and refuses a second
\* pod of the name.
ProvisionRun(s) ==
  /\ task[s].pc = "run"
  /\ LET Runs(ip) ==
           /\ pod' = [pod EXCEPT ![s] = [name |-> creates, ip |-> ip, well |-> TRUE]]
           /\ To(s, "limits")
         Refused == UNCHANGED pod /\ To(s, "fail")
     IN  IF pod[s].name # 0 \/ FreeIP = {}
         THEN NoFault /\ Refused
         ELSE \/ NoFault /\ \E ip \in FreeIP : Runs(ip)
              \/ Fault("address") /\ Runs(NoIP)
              \/ Fault("run") /\ Refused
  /\ UNCHANGED <<store, filter, nat, pass, main, bounds, past>>

\* enforceCgroupV2Limits of the pod.  When that fails, nothing names the pod.
ProvisionLimits(s) ==
  /\ task[s].pc = "limits"
  /\ \/ NoFault /\ Become(s, [task[s] EXCEPT !.pc = "start", !.copy.pod = pod[s].name,
                                             !.copy.ip = pod[s].ip])
     \/ Fault("limits") /\ To(s, "fail")
  /\ UNCHANGED <<store, pod, filter, nat, pass, main, bounds, past>>

\* (Faulty variant: a pod without an address goes on.)
ProvisionStartAnyway(s) ==
  /\ task[s].pc = "start"
  /\ \/ NoFault /\ To(s, "hook")
     \/ Fault("start") /\ To(s, "fail")
  /\ UNCHANGED <<store, pod, filter, nat, pass, main, bounds, past>>

\* Images and containers, then the check of the address.
ProvisionStart(s) ==
  /\ task[s].pc = "start"
  /\ \/ NoFault /\ To(s, IF task[s].copy.ip = NoIP THEN "fail" ELSE "hook")
     \/ Fault("start") /\ To(s, "fail")
  /\ UNCHANGED <<store, pod, filter, nat, pass, main, bounds, past>>

\* ApplySandboxRules: the chains, and the hooks that lead to them ...
ProvisionHook(s) ==
  /\ task[s].pc = "hook"
  /\ hooks' = AppendUnique(hooks, <<task[s].copy.ip, s>>)
  /\ \/ NoFault /\ To(s, "policy")
     \/ Fault("rules") /\ To(s, "fail")
  /\ UNCHANGED <<store, pod, forward, rules, nat, pass, main, bounds, past>>

\* How the chain of a sandbox ends, which may reach public addresses or may not.
Decision(open) == IF open THEN "ACCEPT" ELSE "REJECT"

\* ... the early accept of the published port, and what the chain of s says.
ProvisionPolicy(s) ==
  /\ task[s].pc = "policy"
  /\ forward' = InsertSecond(forward, task[s].copy.ip)
  /\ rules' = [rules EXCEPT ![s] = AppendUnique(AppendUnique(@, "private"), Decision(task[s].copy.open))]
  /\ To(s, "publish")
  /\ UNCHANGED <<store, pod, hooks, nat, pass, main, bounds, faults, past>>

\* waitSandboxReady, then ApplyHostPortDNAT.
ProvisionPublish(s) ==
  /\ task[s].pc = "publish"
  /\ IF pod[s].name = task[s].copy.pod /\ pod[s].well
     THEN /\ nat' = AppendUnique(nat, [to |-> s, ip |-> task[s].copy.ip])
          /\ \/ NoFault /\ To(s, "finish")
             \/ Fault("rules") /\ To(s, "fail")
     ELSE NoFault /\ To(s, "fail") /\ UNCHANGED nat
  /\ UNCHANGED <<store, pod, filter, pass, main, bounds, past>>

ProvisionFinish(s) ==
  /\ task[s].pc = "finish"
  /\ state' = [state EXCEPT ![s] = [task[s].copy EXCEPT !.phase = "running"]]
  /\ Become(s, Idle(s))
  /\ UNCHANGED <<leaves, pod, filter, nat, pass, main, bounds, faults, past>>

\* (Faulty variant: the removal goes by the state as it was saved before.)
ProvisionFailSaved(s) ==
  /\ task[s].pc = "fail"
  /\ LET x == [state[s] EXCEPT !.phase = "error"]
     IN  state' = [state EXCEPT ![s] = x] /\ Become(s, Removal(s, x, "mark"))
  /\ UNCHANGED <<leaves, pod, filter, nat, pass, main, bounds, faults, past>>

\* The deferred function saves the error and removes what there is; provisionSandbox
\* marks the error once more.
ProvisionFail(s) ==
  /\ task[s].pc = "fail"
  /\ LET x == [task[s].copy EXCEPT !.phase = "error"]
     IN  state' = [state EXCEPT ![s] = x] /\ Become(s, Removal(s, x, "mark"))
  /\ UNCHANGED <<leaves, pod, filter, nat, pass, main, bounds, faults, past>>

MarkError(s) ==
  /\ task[s].pc = "mark"
  /\ state' = IF state[s].phase = "none" THEN state ELSE [state EXCEPT ![s].phase = "error"]
  /\ Become(s, Idle(s))
  /\ UNCHANGED <<leaves, pod, filter, nat, pass, main, bounds, faults, past>>

-----------------------------------------------------------------------------
(***************************************************************************)
(* deleteSandboxRuntimeArtifacts with the copy at hand, for a deletion, a  *)
(* failed provisioning, a creation that finds a pod, or a reconcile pass.  *)
(***************************************************************************)
DeleteBegin(s) ==
  /\ main = "up" /\ task[s].pc = "idle"
  /\ state[s].phase \in DeleteFrom
  /\ state' = [state EXCEPT ![s].phase = "deleting"]
  /\ Become(s, Removal(s, state'[s], "erase"))
  /\ UNCHANGED <<leaves, pod, filter, nat, pass, main, bounds, faults, past>>

\* The errors of the runtime are ignored.
StopPod(w) ==
  /\ task[w].pc = "stop"
  /\ LET s == task[w].sb
         named == pod[s].name # 0 /\ pod[s].name = task[w].copy.pod
     IN  \/ NoFault /\ pod' = IF named THEN [pod EXCEPT ![s] = NoPod] ELSE pod
         \/ named /\ Fault("stop") /\ UNCHANGED pod
  /\ To(w, "unpublish")
  /\ UNCHANGED <<store, filter, nat, pass, main, bounds, past>>

\* DNAT rules carry the id of their sandbox in the comment.
Tagged(S) == {d \in Dnat : d.to \in S}

\* DeleteHostPortDNAT when the address is known, then DeleteHostPortDNATBySandbox,
\* which takes every rule with the tag.
Unpublish(w) ==
  /\ task[w].pc = "unpublish"
  /\ nat' = Without(nat, Tagged({task[w].sb}))
  /\ To(w, "unhook")
  /\ UNCHANGED <<store, pod, filter, pass, main, bounds, faults, past>>

\* (Faulty variant: the chain keeps its rules.)
UnhookOnly(s, ip, published) ==
  /\ forward' = IF published THEN Without(forward, {ip}) ELSE forward
  /\ hooks' = Without(hooks, {<<ip, s>>})
  /\ UNCHANGED rules

\* DeleteSandboxRules; an orphan has no list of ports.
DeleteRules(s, ip, published) ==
  /\ forward' = IF published THEN Without(forward, {ip}) ELSE forward
  /\ hooks' = Without(hooks, {<<ip, s>>})
  /\ rules' = [rules EXCEPT ![s] = <<>>]

\* cleanupSandboxParentCgroup: os.Remove fails while there is a pod in it.
RemoveCgroup(s) == leaves' = IF pod[s].name = 0 THEN leaves \ {s} ELSE leaves

\* Without an address the rules are left alone.
Unhook(w) ==
  /\ task[w].pc = "unhook"
  /\ LET s  == task[w].sb
         ip == task[w].copy.ip
     IN  /\ IF ip = NoIP THEN UNCHANGED filter ELSE DeleteRules(s, ip, task[w].then # "save")
         /\ RemoveCgroup(s)
  /\ To(w, IF task[w].then = "mark" THEN "mark" ELSE "erase")
  /\ UNCHANGED <<state, pod, nat, pass, main, bounds, faults, past>>

\* deleteSandboxFromState deletes the file, whatever it says by now.
EraseState(w) ==
  /\ task[w].pc = "erase"
  /\ LET s == task[w].sb
     IN  /\ state' = [state EXCEPT ![s] = NoState]
         /\ strayed' = (strayed \/ (w = Reconciler /\ s \in overlooked))
         /\ Become(w, CASE task[w].then = "save"  -> [task[w] EXCEPT !.pc = "save"]
                        [] task[w].then = "erase" -> Idle(w)
                        [] task[w].then = "visit" -> [Idle(w) EXCEPT !.pc = "visit"])
  /\ UNCHANGED <<leaves, pod, filter, nat, pass, main, bounds, faults, overlooked>>

-----------------------------------------------------------------------------
(***************************************************************************)
(* ReconcileOnce, which takes no lock for longer than it looks at it.      *)
(***************************************************************************)
SavePcs == {"save", "finish", "fail", "mark"}

\* A listing skips a file that is being written.
PassList ==
  /\ main = "up" /\ ~ Reconciling
  /\ \E missed \in SUBSET {s \in Sandbox : task[s].pc \in SavePcs /\ state[s].phase # "none"} :
       LET list == [s \in Sandbox |-> IF s \in missed THEN NoState ELSE state[s]]
       IN  /\ pass' = [list |-> list, todo |-> Listed(list)]
           /\ overlooked' = overlooked \cup missed
  /\ To(Reconciler, "visit")
  /\ UNCHANGED <<store, pod, filter, nat, main, bounds, faults, strayed>>

\* A sandbox that nobody provisions any more, after a crash.  That a pass takes one for
\* such whose provisioning has just ended is module Sbxlet's.
Abandoned(s, x) == x.phase = "creating" /\ state[s] = x

Unhealthy(s, x) == x.pod = 0 \/ pod[s].name # x.pod \/ ~ pod[s].well

PassNext(s) ==
  /\ task[Reconciler].pc = "visit"
  /\ s \in pass.todo
  /\ pass' = [pass EXCEPT !.todo = @ \ {s}]
  /\ UNCHANGED <<leaves, pod, filter, nat, main, bounds, faults, past>>

PassSkip(s) == PassNext(s) /\ UNCHANGED <<task, state>>

PassExpire(s) ==
  /\ PassNext(s)
  /\ task[s].pc = "idle" /\ Abandoned(s, pass.list[s])
  /\ state' = [state EXCEPT ![s].phase = "error"]
  /\ UNCHANGED task

\* Whether the grace period is over and the hits are enough is module Sbxlet's.
PassFinalize(s) ==
  /\ PassNext(s)
  /\ task[s].pc = "idle"
  /\ pass.list[s].phase \in {"running", "error"} /\ Unhealthy(s, pass.list[s])
  /\ Become(Reconciler, Removal(s, pass.list[s], "visit"))
  /\ UNCHANGED state

\* (Faulty variant: only what runs is kept.)
KeepRunning(list) == {s \in Sandbox : list[s].phase = "running"}

\* DeleteOrphanHostPortDNAT keeps the rules of what was listed at the start.
Keep(list) == Listed(list)

PassSweep ==
  /\ task[Reconciler].pc = "visit" /\ pass.todo = {}
  /\ nat' = Without(nat, Tagged(Sandbox \ Keep(pass.list)))
  /\ pass' = NoPass
  /\ Become(Reconciler, Idle(Reconciler))
  /\ UNCHANGED <<store, pod, filter, main, bounds, faults, past>>

-----------------------------------------------------------------------------
(***************************************************************************)
(* Containers that exit, stops of sbxlet, and New.                         *)
(***************************************************************************)
ContainerExits(s) ==
  /\ pod[s].well
  /\ Fault("exit")
  /\ pod' = [pod EXCEPT ![s].well = FALSE]
  /\ UNCHANGED <<store, filter, nat, task, pass, main, bounds, past>>

Crash ==
  /\ main # "down" /\ crashes < MaxCrashes
  /\ crashes' = crashes + 1
  /\ main' = "down"
  /\ task' = [w \in Worker |-> Idle(w)]
  /\ pass' = NoPass
  /\ UNCHANGED <<store, pod, filter, nat, creates, faults, past>>

\* EnsureGlobalChains: insertFirst deletes the jump, then inserts it.
EnsureBegin ==
  /\ main = "down"
  /\ main' = "ensuring"
  /\ forward' = Without(forward, {Jump})
  /\ UNCHANGED <<store, pod, hooks, rules, nat, task, pass, bounds, faults, past>>

EnsureGlobalChains ==
  /\ main = "ensuring"
  /\ main' = "up"
  /\ forward' = InsertFirst(forward, Jump)
  /\ UNCHANGED <<store, pod, hooks, rules, nat, task, pass, bounds, faults, past>>

-----------------------------------------------------------------------------
Init ==
  /\ state = [s \in Sandbox |-> NoState]
  /\ pod = [s \in Sandbox |-> NoPod]
  /\ forward = <<>> /\ hooks = <<>> /\ nat = <<>>
  /\ rules = [s \in Sandbox |-> <<>>]
  /\ leaves = {}
  /\ task = [w \in Worker |-> Idle(w)]
  /\ pass = NoPass
  /\ main = "down"
  /\ creates = 0 /\ faults = 0 /\ crashes = 0
  /\ overlooked = {} /\ strayed = FALSE

TakeDown(w) == StopPod(w) \/ Unpublish(w) \/ Unhook(w) \/ EraseState(w)

Work(s) ==
  \/ CreateSave(s) \/ ProvisionSweep(s) \/ ProvisionRun(s) \/ ProvisionLimits(s)
  \/ ProvisionStart(s) \/ ProvisionHook(s) \/ ProvisionPolicy(s) \/ ProvisionPublish(s)
  \/ ProvisionFinish(s) \/ ProvisionFail(s) \/ MarkError(s) \/ TakeDown(s)

Pass ==
  \/ PassList \/ PassSweep \/ TakeDown(Reconciler)
  \/ \E s \in Sandbox : PassSkip(s) \/ PassExpire(s) \/ PassFinalize(s)

Restart == EnsureBegin \/ EnsureGlobalChains

Next ==
  \/ \E s \in Sandbox :
       Work(s) \/ DeleteBegin(s) \/ ContainerExits(s) \/ \E open \in BOOLEAN : CreateBegin(s, open)
  \/ Pass \/ Restart \/ Crash

Spec == Init /\ [][Next]_vars

-----------------------------------------------------------------------------
(***************************************************************************)
(* Properties.                                                             *)
(***************************************************************************)
\* Type correctness of the files, the rules and the goroutines: in particular no
\* address is ever matched that the network did not give (firewall.go, runtime.go).
TypeOK ==
  /\ state \in [Sandbox -> State] /\ pod \in [Sandbox -> Pod] /\ leaves \subseteq Sandbox
  /\ forward \in Seq(IP \cup {Jump}) /\ hooks \in Seq(IP \X Sandbox)
  /\ rules \in [Sandbox -> Seq(Rule)] /\ nat \in Seq(Dnat)
  /\ task \in [Worker -> Task] /\ \A s \in Sandbox : task[s].sb = s
  /\ main \in {"down", "ensuring", "up"}

Removing(w) == task[w].pc \in {"stop", "unpublish", "unhook", "erase"}

\* What a reconcile pass did not see, and may have taken for an orphan, is left out.
Serving(s) ==
  /\ state[s].phase = "running" /\ task[s].pc = "idle" /\ ~ Unhealthy(s, state[s])
  /\ s \notin overlooked /\ ~ strayed

\* Whatever addresses and ids were used before, and by whom: when no removal is under
\* way, what a running sandbox sends is decided by the egress setting of its own
\* request (ApplySandboxRules, DeleteSandboxRules, cleanupOrphanRuntimeSandbox).
PolicyFollowsSpec ==
  crashes = 0 /\ (\A w \in Worker : ~ Removing(w)) =>
    \A s \in Sandbox : Serving(s) =>
      Verdict(state[s].ip) = IF state[s].open THEN "ACCEPT" ELSE "REJECT"

\* No early accept comes before the policy of the sandbox that sends, not after
\* restarts with accepts in the chain either (EnsureGlobalChains,
\* insertForwardAcceptEarly).
PolicyComesFirst == main = "up" => forward # <<>> /\ Head(forward) = Jump

\* The host port of a running sandbox leads to it, although the port may have been
\* another's, deletions and passes go on, and sbxlet may have stopped anywhere
\* (ApplyHostPortDNAT, DeleteHostPortDNATBySandbox, DeleteOrphanHostPortDNAT).
PublishedReachesOwner ==
  \A s \in Sandbox : Serving(s) => Target(PortOf[s]) = state[s].ip

\* A deleted sandbox leaves no rule and, unless the runtime kept its pod, no cgroup
\* behind, and every early accept is for an address some sandbox still claims, after
\* failures half way too (deleteSandboxRuntimeArtifacts, provisionSandboxSync).
Absent(s) == state[s].phase = "none" /\ task[s].pc = "idle" /\ task[Reconciler].sb # s

Claimed ==
  {state[s].ip : s \in Sandbox} \cup {task[w].copy.ip : w \in Worker}

NothingLeft ==
  crashes = 0 /\ ~ strayed =>
    /\ \A s \in Sandbox : Absent(s) =>
         /\ rules[s] = <<>>
         /\ \A i \in 1..Len(hooks) : hooks[i][2] # s
         /\ \A i \in 1..Len(nat) : nat[i].to # s
         /\ s \in leaves => pod[s].name # 0
    /\ \A i \in 1..Len(forward) : forward[i] \in Claimed \cup {Jump}
=============================================================================
