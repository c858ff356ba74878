------------------------- MODULE SandboxNetworkProofs -------------------------
(***************************************************************************)
(* Proofs about SandboxNetwork: the chains keep their order and their      *)
(* types, and what stands in them belongs to who the properties say.       *)
(***************************************************************************)
EXTENDS SandboxNetwork, TLAPS, NaturalsInduction, WellFoundedInduction

-----------------------------------------------------------------------------
(***************************************************************************)
(* Numbers: what holds of 0 and goes from each number to the next holds of *)
(* all, for a set in the place of the property; and the least member of a  *)
(* set of numbers.                                                         *)
(***************************************************************************)
LessThan == {ss \in Nat \X Nat : ss[1] < ss[2]}

LEMMA LeastNumber ==
  ASSUME NEW T, T \subseteq Nat, T # {}
  PROVE  \E x \in T : \A y \in T : x <= y
<1>1. IsWellFoundedOn(LessThan, Nat)
  BY NatLessThanWellFounded DEF OpToRel, LessThan
<1>2. PICK x \in T : \A y \in T : <<y, x>> \notin LessThan
  BY <1>1, WFMin
<1>3. ASSUME NEW y \in T PROVE x <= y
  <2>1. x \in Nat /\ y \in Nat /\ ~ (y < x)
    BY <1>2 DEF LessThan
  <2> QED BY <2>1
<1> QED BY <1>3

LEMMA AllNumbers ==
  ASSUME NEW T, T \subseteq Nat, 0 \in T, \A n \in T : n + 1 \in T
  PROVE  T = Nat
<1>1. SUFFICES ASSUME Nat \ T # {} PROVE FALSE
  OBVIOUS
<1>2. PICK x \in Nat \ T : \A y \in Nat \ T : x <= y
  BY <1>1, LeastNumber
<1>3. x # 0 /\ x - 1 \in T
  BY <1>2
<1> QED BY <1>2, <1>3

LEMMA LeastIsMin ==
  ASSUME NEW T, T \subseteq Nat, T # {}
  PROVE  Min(T) \in T /\ \A y \in T : Min(T) <= y
BY LeastNumber DEF Min

-----------------------------------------------------------------------------
(***************************************************************************)
(* Chains: Without takes the given rules out, and leaves the first rule in *)
(* its place when it stays.                                                *)
(***************************************************************************)
Step(chain, gone, kept, i) == IF chain[i] \in gone THEN kept ELSE Append(kept, chain[i])

\* kept[i] is what stays of the first i rules.
Keeps(chain, gone, kept, n) ==
  kept = [i \in 0..n |-> IF i = 0 THEN <<>>
                         ELSE IF chain[i] \in gone THEN kept[i - 1] ELSE Append(kept[i - 1], chain[i])]

LEMMA KeepsExists ==
  ASSUME NEW chain, NEW gone, NEW n \in Nat
  PROVE  \E kept : Keeps(chain, gone, kept, n)
<1> DEFINE T == {k \in Nat : \E kept : Keeps(chain, gone, kept, k)}
<1>1. 0 \in T
  <2> DEFINE kept == [i \in 0..0 |-> <<>>]
  <2>1. kept = [i \in 0..0 |-> IF i = 0 THEN <<>>
                 ELSE IF chain[i] \in gone THEN kept[i - 1] ELSE Append(kept[i - 1], chain[i])]
    OBVIOUS
  <2> HIDE DEF kept
  <2> QED BY <2>1 DEF Keeps
<1>2. ASSUME NEW k \in T
      PROVE  k + 1 \in T
  <2>1. PICK old : Keeps(chain, gone, old, k)
    OBVIOUS
  <2> DEFINE kept == [i \in 0..(k + 1) |-> IF i <= k THEN old[i] ELSE Step(chain, gone, old[k], k + 1)]
  <2>2. \A i \in 0..k : kept[i] = old[i]
    OBVIOUS
  <2>3. kept[k + 1] = Step(chain, gone, old[k], k + 1)
    OBVIOUS
  <2>4. \A i \in 0..(k + 1) :
          kept[i] = IF i = 0 THEN <<>>
                    ELSE IF chain[i] \in gone THEN kept[i - 1] ELSE Append(kept[i - 1], chain[i])
    <3> SUFFICES ASSUME NEW i \in 0..(k + 1)
                 PROVE  kept[i] = IF i = 0 THEN <<>>
                                  ELSE IF chain[i] \in gone THEN kept[i - 1]
                                       ELSE Append(kept[i - 1], chain[i])
      OBVIOUS
    <3> HIDE DEF kept
    <3>1. CASE i = k + 1
      <4>1. k \in 0..k /\ i # 0 /\ i - 1 = k
        BY <3>1
      <4> QED BY <2>2, <2>3, <3>1, <4>1 DEF Step
    <3>2. CASE i # k + 1
      <4>1. i \in 0..k /\ (i # 0 => i - 1 \in 0..k)
        BY <3>2
      <4> QED BY <2>1, <2>2, <4>1 DEF Keeps
    <3> QED BY <3>1, <3>2
  <2>5. kept = [i \in 0..(k + 1) |-> IF i = 0 THEN <<>>
                 ELSE IF chain[i] \in gone THEN kept[i - 1] ELSE Append(kept[i - 1], chain[i])]
    <3>1. DOMAIN kept = 0..(k + 1) /\ kept = [i \in 0..(k + 1) |-> kept[i]]
      OBVIOUS
    <3> HIDE DEF kept
    <3> QED BY <2>4, <3>1
  <2>6. k + 1 \in Nat
    OBVIOUS
  <2> HIDE DEF kept
  <2>7. Keeps(chain, gone, kept, k + 1)
    BY <2>5 DEF Keeps
  <2> QED BY <2>6, <2>7
<1>3. T = Nat
  <2> HIDE DEF T
  <2>1. T \subseteq Nat
    BY DEF T
  <2> QED BY <1>1, <1>2, <2>1, AllNumbers
<1> QED BY <1>3

LEMMA AppendSet ==
  ASSUME NEW R, NEW chain \in Seq(R), NEW r \in R
  PROVE  /\ Append(chain, r) \in Seq(R) /\ ToSet(Append(chain, r)) = ToSet(chain) \cup {r}
         /\ chain # <<>> => Append(chain, r)[1] = chain[1]
<1> DEFINE n == Len(chain)
           more == Append(chain, r)
<1>1. /\ n \in Nat /\ DOMAIN chain = 1..n /\ DOMAIN more = 1..(n + 1) /\ more \in Seq(R)
      /\ more[n + 1] = r /\ \A i \in 1..n : more[i] = chain[i]
  OBVIOUS
<1>2. 1..(n + 1) = (1..n) \cup {n + 1}
  BY <1>1
<1>3. chain # <<>> => 1 \in 1..n
  OBVIOUS
<1> HIDE DEF more, n
<1>4. ToSet(more) = ToSet(chain) \cup {r}
  BY <1>1, <1>2 DEF ToSet
<1> QED BY <1>1, <1>3, <1>4 DEF more

\* What stays of a chain is of its rules, and its first rule is the first to stay.
LEMMA WithoutIs ==
  ASSUME NEW R, NEW chain \in Seq(R), NEW gone
  PROVE  /\ Without(chain, gone) \in Seq(R)
         /\ ToSet(Without(chain, gone)) = ToSet(chain) \ gone
         /\ chain # <<>> /\ chain[1] \notin gone =>
              Without(chain, gone) # <<>> /\ Without(chain, gone)[1] = chain[1]
<1> DEFINE n == Len(chain)
           kept == CHOOSE f : Keeps(chain, gone, f, n)
<1>1. Keeps(chain, gone, kept, n)
  <2>0. n \in Nat
    OBVIOUS
  <2> HIDE DEF n
  <2>1. \E f : Keeps(chain, gone, f, n)
    BY <2>0, KeepsExists
  <2> QED BY <2>1
<1>2. Without(chain, gone) = kept[n]
  BY DEF Without, Keeps
<1> HIDE DEF kept
<1>3. /\ kept[0] = <<>>
      /\ \A i \in 1..n : kept[i] = IF chain[i] \in gone THEN kept[i - 1]
                                   ELSE Append(kept[i - 1], chain[i])
  <2>1. \A i \in 0..n : kept[i] = IF i = 0 THEN <<>>
                                  ELSE IF chain[i] \in gone THEN kept[i - 1]
                                       ELSE Append(kept[i - 1], chain[i])
    BY <1>1 DEF Keeps
  <2>2. n \in Nat /\ 0 \in 0..n /\ \A i \in 1..n : i \in 0..n /\ i # 0
    OBVIOUS
  <2> QED BY <2>1, <2>2
<1> DEFINE Good(i) == /\ kept[i] \in Seq(R)
                      /\ ToSet(kept[i]) = {chain[j] : j \in 1..i} \ gone
                      /\ i > 0 /\ chain[1] \notin gone => kept[i] # <<>> /\ kept[i][1] = chain[1]
           T == {i \in Nat : i <= n => Good(i)}
<1>4. 0 \in T
  <2>1. Good(0)
    BY <1>3 DEF ToSet
  <2> QED BY <2>1
<1>5. ASSUME NEW i \in T
      PROVE  i + 1 \in T
  <2> SUFFICES ASSUME i + 1 <= n PROVE Good(i + 1)
    OBVIOUS
  <2>1. i \in Nat /\ n \in Nat /\ i + 1 \in 1..n /\ (i + 1) - 1 = i /\ Good(i)
    OBVIOUS
  <2>2. chain[i + 1] \in R
    BY <2>1
  <2>3. {chain[j] : j \in 1..(i + 1)} = {chain[j] : j \in 1..i} \cup {chain[i + 1]}
    <3>1. 1..(i + 1) = (1..i) \cup {i + 1}
      BY <2>1
    <3> QED BY <3>1
  <2>4. CASE chain[i + 1] \in gone
    <3>1. kept[i + 1] = kept[i]
      BY <1>3, <2>1, <2>4
    <3>2. chain[1] \notin gone => i > 0
      BY <2>1, <2>4
    <3> QED BY <2>1, <2>3, <2>4, <3>1, <3>2
  <2>5. CASE chain[i + 1] \notin gone
    <3>1. kept[i + 1] = Append(kept[i], chain[i + 1])
      BY <1>3, <2>1, <2>5
    <3>2. kept[i + 1] \in Seq(R) /\ kept[i + 1] # <<>>
      BY <2>1, <2>2, <3>1
    <3>3. ToSet(kept[i + 1]) = ToSet(kept[i]) \cup {chain[i + 1]}
      BY <2>1, <2>2, <3>1, AppendSet
    <3>4. chain[1] \notin gone => kept[i + 1][1] = chain[1]
      <4>1. CASE i = 0
        BY <1>3, <3>1, <4>1
      <4>2. CASE i > 0
        BY <2>1, <2>2, <3>1, <4>2
      <4> QED BY <2>1, <4>1, <4>2
    <3> QED BY <2>1, <2>3, <2>5, <3>2, <3>3, <3>4
  <2> QED BY <2>4, <2>5
<1>6. Good(n)
  <2> HIDE DEF Good
  <2>1. T = Nat
    <3> HIDE DEF T
    <3>1. T \subseteq Nat
      BY DEF T
    <3> QED BY <1>4, <1>5, <3>1, AllNumbers
  <2> QED BY <2>1
<1>7. {chain[j] : j \in 1..n} = ToSet(chain)
  BY DEF ToSet
<1> QED BY <1>2, <1>6, <1>7

LEMMA AppendUniqueIs ==
  ASSUME NEW R, NEW chain \in Seq(R), NEW r \in R
  PROVE  /\ AppendUnique(chain, r) \in Seq(R)
         /\ ToSet(AppendUnique(chain, r)) = ToSet(chain) \cup {r}
<1>1. CASE Contains(chain, r)
  <2>1. r \in ToSet(chain)
    BY <1>1 DEF Contains, ToSet
  <2> QED BY <1>1, <2>1 DEF AppendUnique
<1>2. CASE ~ Contains(chain, r)
  BY <1>2, AppendSet DEF AppendUnique
<1> QED BY <1>1, <1>2

LEMMA ConsSet ==
  ASSUME NEW R, NEW chain \in Seq(R), NEW r \in R
  PROVE  /\ <<r>> \o chain \in Seq(R) /\ (<<r>> \o chain)[1] = r /\ <<r>> \o chain # <<>>
         /\ ToSet(<<r>> \o chain) = ToSet(chain) \cup {r}
<1> DEFINE n == Len(chain)
           more == <<r>> \o chain
<1>1. /\ n \in Nat /\ DOMAIN chain = 1..n /\ DOMAIN more = 1..(n + 1) /\ more \in Seq(R)
      /\ more[1] = r /\ more # <<>>
  OBVIOUS
<1>2. \A i \in 1..n : i + 1 \in DOMAIN more /\ more[i + 1] = chain[i]
  OBVIOUS
<1> HIDE DEF more, n
<1>3. \A x \in ToSet(more) : x \in ToSet(chain) \cup {r}
  <2> SUFFICES ASSUME NEW i \in 1..(n + 1) PROVE more[i] \in ToSet(chain) \cup {r}
    BY <1>1 DEF ToSet
  <2>1. CASE i = 1
    BY <1>1, <2>1
  <2>2. CASE i # 1
    <3>1. i - 1 \in 1..n /\ (i - 1) + 1 = i
      BY <1>1, <2>2
    <3> QED BY <1>1, <1>2, <3>1 DEF ToSet
  <2> QED BY <2>1, <2>2
<1>4. \A x \in ToSet(chain) \cup {r} : x \in ToSet(more)
  BY <1>1, <1>2 DEF ToSet
<1> QED BY <1>1, <1>3, <1>4 DEF more

LEMMA InsertFirstIs ==
  ASSUME NEW R, NEW chain \in Seq(R), NEW r \in R
  PROVE  /\ InsertFirst(chain, r) \in Seq(R)
         /\ InsertFirst(chain, r) # <<>> /\ InsertFirst(chain, r)[1] = r
         /\ ToSet(InsertFirst(chain, r)) = ToSet(chain) \cup {r}
<1> DEFINE rest == Without(chain, {r})
<1>1. rest \in Seq(R) /\ ToSet(rest) = ToSet(chain) \ {r}
  BY WithoutIs
<1> HIDE DEF rest
<1>2. InsertFirst(chain, r) = <<r>> \o rest
  BY DEF InsertFirst, rest
<1> QED BY <1>1, <1>2, ConsSet

\* A rule put at the second place leaves the first one where it is.
LEMMA InsertSecondIs ==
  ASSUME NEW R, NEW chain \in Seq(R), NEW r \in R, chain # <<>>, chain[1] # r
  PROVE  /\ InsertSecond(chain, r) \in Seq(R)
         /\ InsertSecond(chain, r) # <<>> /\ InsertSecond(chain, r)[1] = chain[1]
         /\ ToSet(InsertSecond(chain, r)) = ToSet(chain) \cup {r}
<1> DEFINE rest == Without(chain, {r})
<1>1. /\ rest \in Seq(R) /\ ToSet(rest) = ToSet(chain) \ {r}
      /\ rest # <<>> /\ rest[1] = chain[1]
  BY WithoutIs
<1> HIDE DEF rest
<1> DEFINE tail == Tail(rest)
<1>2. /\ tail \in Seq(R) /\ Head(rest) = chain[1] /\ chain[1] \in R
      /\ Len(tail) = Len(rest) - 1 /\ Len(rest) \in Nat \ {0}
      /\ \A i \in 1..Len(tail) : tail[i] = rest[i + 1]
  BY <1>1
<1> HIDE DEF tail
<1>3. ToSet(rest) = ToSet(tail) \cup {chain[1]}
  <2>1. /\ DOMAIN tail = 1..Len(tail) /\ DOMAIN rest = 1..Len(rest)
    BY <1>1, <1>2
  <2>2. ASSUME NEW i \in 1..Len(rest) PROVE rest[i] \in ToSet(tail) \cup {chain[1]}
    <3>1. CASE i = 1
      BY <1>1, <3>1
    <3>2. CASE i # 1
      <4>1. i - 1 \in 1..Len(tail) /\ (i - 1) + 1 = i
        BY <1>2, <3>2
      <4> QED BY <1>2, <2>1, <4>1 DEF ToSet
    <3> QED BY <3>1, <3>2
  <2>3. ASSUME NEW i \in 1..Len(tail) PROVE tail[i] \in ToSet(rest)
    <3>1. i + 1 \in 1..Len(rest)
      BY <1>2
    <3> QED BY <1>2, <2>1, <3>1 DEF ToSet
  <2>4. chain[1] \in ToSet(rest)
    BY <1>1, <1>2, <2>1 DEF ToSet
  <2> QED BY <2>1, <2>2, <2>3, <2>4 DEF ToSet
<1>4. InsertSecond(chain, r) = <<chain[1], r>> \o tail
  BY <1>2 DEF InsertSecond, rest, tail
<1>5. <<chain[1], r>> \o tail = <<chain[1]>> \o (<<r>> \o tail)
  BY <1>2
<1>6. /\ <<r>> \o tail \in Seq(R) /\ ToSet(<<r>> \o tail) = ToSet(tail) \cup {r}
  BY <1>2, ConsSet
<1> DEFINE most == <<r>> \o tail
<1>7. most \in Seq(R) /\ ToSet(most) = ToSet(tail) \cup {r}
  BY <1>6
<1> HIDE DEF most
<1>8. /\ <<chain[1]>> \o most \in Seq(R) /\ (<<chain[1]>> \o most)[1] = chain[1]
      /\ <<chain[1]>> \o most # <<>>
      /\ ToSet(<<chain[1]>> \o most) = ToSet(most) \cup {chain[1]}
  BY <1>2, <1>7, ConsSet
<1>9. InsertSecond(chain, r) = <<chain[1]>> \o most
  BY <1>4, <1>5 DEF most
<1>10. chain[1] \in ToSet(chain)
  BY <1>1, <1>3
<1> QED BY <1>1, <1>3, <1>7, <1>8, <1>9, <1>10

-----------------------------------------------------------------------------
(***************************************************************************)
(* Types, with what they rest on: a provisioning that adds a rule knows an *)
(* address; nobody works while the global chains are being made; no two    *)
(* pods have one address.                                                  *)
(***************************************************************************)
RemovalPcs == {"stop", "unpublish", "unhook", "erase"}
LinePcs    == {"hook", "policy", "publish", "finish"}
MakingPcs  == {"sweep", "run", "limits", "start", "fail"} \cup LinePcs

\* n creations were begun.
TaskOK(w, t, n) ==
  /\ t.pc \in RemovalPcs =>
       t.sb \in Sandbox /\ t.then \in (IF w = Reconciler THEN {"visit"} ELSE {"save", "erase", "mark"})
  /\ w \in Sandbox => t.sb = w /\ t.pc # "visit"
  /\ w = Reconciler => t.pc \in {"idle", "visit"} \cup RemovalPcs
  /\ t.pc = "erase" => t.then # "mark"
  /\ t.pc \in LinePcs => t.copy.ip # NoIP
  /\ w \in Sandbox /\ t.pc \in MakingPcs \cup {"save"} => n # 0
  /\ w \in Sandbox /\ t.pc \in RemovalPcs /\ t.then = "save" => n # 0

FilesOK ==
  /\ state \in [Sandbox -> State]
  /\ \A s \in Sandbox : state[s].phase = "none" => state[s] = NoState

PodsOK ==
  /\ pod \in [Sandbox -> Pod]
  /\ \A s, t \in Sandbox : s # t /\ pod[s].ip = pod[t].ip => pod[s].ip = NoIP

RulesOK ==
  /\ hooks \in Seq(IP \X Sandbox) /\ rules \in [Sandbox -> Seq(Rule)] /\ nat \in Seq(Dnat)
  /\ leaves \subseteq Sandbox

ForwardOK ==
  /\ forward \in Seq(IP \cup {Jump})
  /\ main = "up" => forward # <<>> /\ forward[1] = Jump

PassOK ==
  /\ pass \in [list : [Sandbox -> State], todo : SUBSET Sandbox]
  /\ overlooked \subseteq Sandbox /\ strayed \in BOOLEAN

CountsOK == creates \in Nat /\ creates <= MaxCreates /\ faults \in Nat /\ crashes \in Nat

TasksOK ==
  /\ task \in [Worker -> Task]
  /\ \A w \in Worker : TaskOK(w, task[w], creates)
  /\ main \in {"down", "ensuring", "up"}
  /\ main # "up" => \A w \in Worker : task[w].pc = "idle"

BaseInv ==
  FilesOK /\ PodsOK /\ RulesOK /\ ForwardOK /\ PassOK /\ CountsOK /\ TasksOK

LEMMA BaseType == BaseInv => TypeOK
BY DEF BaseInv, FilesOK, PodsOK, RulesOK, ForwardOK, TasksOK, TaskOK, TypeOK, Worker

LEMMA Constants ==
  /\ MaxCreates \in Nat /\ 0 \in PodName /\ Reconciler \notin Sandbox
  /\ NoState \in State /\ NoState.phase = "none" /\ NoState.ip = NoIP
  /\ NoPod \in Pod /\ NoPod.name = 0 /\ NoPod.ip = NoIP /\ ~ NoPod.well
  /\ NoIP \notin IP /\ Jump \notin IP
  /\ PortOf \in [Sandbox -> Port]
BY NamesAssumption DEF PodName, NoState, State, Phases, NoPod, Pod, Jump

LEMMA TaskForms ==
  ASSUME NEW w \in Worker, NEW x \in State
  PROVE  /\ \A pc \in Pcs : /\ At(pc, w, x) \in Task /\ At(pc, w, x).pc = pc
                            /\ At(pc, w, x).sb = w /\ At(pc, w, x).copy = x
                            /\ At(pc, w, x).then = "idle"
         /\ \A then \in Pcs : /\ Removal(w, x, then) \in Task /\ Removal(w, x, then).pc = "stop"
                              /\ Removal(w, x, then).sb = w /\ Removal(w, x, then).copy = x
                              /\ Removal(w, x, then).then = then
BY DEF At, Removal, Task, Pcs

LEMMA IdleForm ==
  ASSUME NEW w \in Worker
  PROVE  Idle(w) \in Task /\ Idle(w).pc = "idle" /\ Idle(w).sb = w /\ Idle(w).copy = NoState
BY TaskForms, Constants DEF Idle, Pcs

LEMMA ToForm ==
  ASSUME NEW t \in Task, NEW pc \in Pcs
  PROVE  /\ [t EXCEPT !.pc = pc] \in Task /\ [t EXCEPT !.pc = pc].pc = pc
         /\ [t EXCEPT !.pc = pc].sb = t.sb /\ [t EXCEPT !.pc = pc].copy = t.copy
         /\ [t EXCEPT !.pc = pc].then = t.then
BY DEF Task

\* One goroutine turns to t, while main is up and creates grows at most.
LEMMA TasksTurn ==
  ASSUME TasksOK, CountsOK, NEW w \in Worker, NEW t \in Task, Become(w, t), TaskOK(w, t, creates'),
         UNCHANGED main, main = "up", creates' \in Nat, creates' >= creates
  PROVE  TasksOK'
<1>1. \A v \in Worker : task'[v] = IF v = w THEN t ELSE task[v]
  BY DEF TasksOK, Become
<1>2. task' \in [Worker -> Task]
  BY DEF TasksOK, Become
<1>3. ASSUME NEW v \in Worker PROVE TaskOK(v, task'[v], creates')
  <2>1. CASE v = w
    BY <1>1, <2>1
  <2>2. CASE v # w
    <3>1. task'[v] = task[v] /\ TaskOK(v, task[v], creates)
      BY <1>1, <2>2 DEF TasksOK
    <3> QED BY <3>1 DEF TaskOK, CountsOK
  <2> QED BY <2>1, <2>2
<1> QED BY <1>2, <1>3 DEF TasksOK

LEMMA Unchanged ==
  ASSUME BaseInv
  PROVE  /\ UNCHANGED state => FilesOK'
         /\ UNCHANGED pod => PodsOK'
         /\ UNCHANGED <<hooks, rules, nat, leaves>> => RulesOK'
         /\ UNCHANGED <<forward, main>> => ForwardOK'
         /\ UNCHANGED <<pass, past>> => PassOK'
         /\ UNCHANGED <<creates, crashes, faults>> => CountsOK'
         /\ UNCHANGED <<creates, crashes>> /\ (NoFault \/ \E kind : Fault(kind)) => CountsOK'
         /\ UNCHANGED <<task, main, creates>> => TasksOK'
BY DEF BaseInv, FilesOK, PodsOK, RulesOK, ForwardOK, PassOK, CountsOK, TasksOK, past, NoFault, Fault

\* Who works is up.
LEMMA Up ==
  ASSUME BaseInv, NEW w \in Worker, task[w].pc # "idle"
  PROVE  main = "up" /\ task[w] \in Task /\ task[w].copy \in State /\ TaskOK(w, task[w], creates)
         /\ creates \in Nat /\ creates <= MaxCreates
BY DEF BaseInv, TasksOK, CountsOK, Task

LEMMA FilesWrite ==
  ASSUME FilesOK, NEW s \in Sandbox, NEW x \in State, x.phase = "none" => x = NoState,
         state' = [state EXCEPT ![s] = x]
  PROVE  FilesOK' /\ \A r \in Sandbox : state'[r] = IF r = s THEN x ELSE state[r]
BY DEF FilesOK

LEMMA PodGone ==
  ASSUME PodsOK, NEW s \in Sandbox, pod' = [pod EXCEPT ![s] = NoPod]
  PROVE  PodsOK'
BY Constants DEF PodsOK

-----------------------------------------------------------------------------
(* Creation and provisioning.                                              *)

LEMMA CreateBeginTypes ==
  ASSUME BaseInv, NEW s \in Sandbox, NEW open \in BOOLEAN, CreateBegin(s, open)
  PROVE  BaseInv'
<1> DEFINE x == [NoState EXCEPT !.open = open]
<1>1. x \in State
  BY Constants DEF State
<1>2. s \in Worker /\ s # Reconciler /\ main = "up" /\ TasksOK /\ CountsOK /\ PodsOK
  BY Constants DEF Worker, CreateBegin, BaseInv
<1>3. creates \in Nat /\ creates' = creates + 1 /\ creates' # 0 /\ CountsOK'
  <2>1. creates \in Nat /\ MaxCreates \in Nat /\ creates < MaxCreates /\ creates' = creates + 1
    BY <1>2, Constants DEF CreateBegin, CountsOK
  <2>2. creates' \in Nat /\ creates' <= MaxCreates /\ creates' # 0
    BY <2>1
  <2>3. UNCHANGED <<crashes, faults>>
    BY DEF CreateBegin
  <2> QED BY <1>2, <2>1, <2>2, <2>3 DEF CountsOK
<1> DEFINE Next1(t) == /\ t \in Task /\ t.sb = s /\ Become(s, t)
                       /\ t.pc = "save" \/ (t.pc = "stop" /\ t.then = "save")
<1>4. \E t : Next1(t)
  <2>1. CASE Become(s, At("save", s, x))
    <3> HIDE DEF x
    <3> DEFINE t == At("save", s, x)
    <3>1. t \in Task /\ t.sb = s /\ t.pc = "save"
      BY <1>1, <1>2, TaskForms DEF Pcs
    <3>2. Become(s, t)
      BY <2>1
    <3> HIDE DEF t
    <3>3. Next1(t)
      BY <3>1, <3>2
    <3> QED BY <3>3
  <2>2. CASE \E ip \in OrphanAddress(s) :
               Become(s, Removal(s, [x EXCEPT !.pod = pod[s].name, !.ip = ip], "save"))
    <3>1. PICK ip \in OrphanAddress(s) :
                 Become(s, Removal(s, [x EXCEPT !.pod = pod[s].name, !.ip = ip], "save"))
      BY <2>2
    <3> DEFINE y == [x EXCEPT !.pod = pod[s].name, !.ip = ip]
    <3>2. y \in State
      BY <1>1, <1>2 DEF OrphanAddress, PodsOK, Pod, State
    <3> HIDE DEF y, x
    <3>3. Next1(Removal(s, y, "save"))
      BY <1>2, <3>1, <3>2, TaskForms DEF Pcs, y
    <3> QED BY <3>3
  <2> QED BY <2>1, <2>2 DEF CreateBegin
<1> HIDE DEF x
<1>5. PICK t : Next1(t)
  BY <1>4
<1>6. TaskOK(s, t, creates')
  BY <1>2, <1>3, <1>5 DEF TaskOK, MakingPcs, LinePcs, RemovalPcs, CountsOK
<1>7. TasksOK'
  <2>1. UNCHANGED main
    BY DEF CreateBegin
  <2>2. creates' \in Nat /\ creates' >= creates
    BY <1>3
  <2> QED BY <1>2, <1>5, <1>6, <2>1, <2>2, TasksTurn
<1> QED BY <1>3, <1>7, Unchanged DEF CreateBegin, BaseInv, store, filter, past

LEMMA CreateSaveTypes ==
  ASSUME BaseInv, NEW s \in Sandbox, CreateSave(s)
  PROVE  BaseInv'
<1> DEFINE x == [NoState EXCEPT !.phase = "creating", !.open = task[s].copy.open]
<1>0. s \in Worker /\ s # Reconciler /\ task[s].pc = "save"
  BY Constants DEF Worker, CreateSave
<1>1. main = "up" /\ task[s].copy \in State /\ TaskOK(s, task[s], creates) /\ creates \in Nat
  BY <1>0, Up
<1>2. x \in State /\ x.phase = "creating"
  BY <1>1, Constants DEF State, Phases
<1> HIDE DEF x
<1>3. PICK t : /\ t \in Task /\ t.sb = s /\ Become(s, t) /\ t.pc \in {"idle", "sweep"}
  BY <1>0, <1>2, TaskForms, IdleForm DEF CreateSave, Pcs, x
<1>4. TaskOK(s, t, creates')
  <2>1. creates' = creates /\ creates # 0
    BY <1>0, <1>1 DEF TaskOK, CreateSave, bounds
  <2> QED BY <1>0, <1>3, <2>1 DEF TaskOK, MakingPcs, LinePcs, RemovalPcs
<1>5. TasksOK' /\ CountsOK'
  <2>1. UNCHANGED <<main, creates, crashes, faults>>
    BY DEF CreateSave, bounds
  <2> QED BY <1>0, <1>1, <1>3, <1>4, <2>1, TasksTurn DEF BaseInv, CountsOK
<1>6. FilesOK'
  <2>1. UNCHANGED state \/ state' = [state EXCEPT ![s] = x]
    BY DEF CreateSave, x
  <2> QED BY <1>2, <2>1, FilesWrite, Unchanged DEF BaseInv
<1>7. PassOK'
  BY DEF CreateSave, BaseInv, PassOK
<1> QED BY <1>5, <1>6, <1>7, Unchanged DEF CreateSave, BaseInv, filter

\* A step of a goroutine that only goes on.
LEMMA GoesOn ==
  ASSUME BaseInv, NEW w \in Worker, NEW pc \in Pcs, To(w, pc), task[w].pc # "idle",
         UNCHANGED <<main, creates, crashes>>, TaskOK(w, [task[w] EXCEPT !.pc = pc], creates)
  PROVE  TasksOK'
<1>1. main = "up" /\ task[w] \in Task /\ creates \in Nat
  BY Up
<1> DEFINE t == [task[w] EXCEPT !.pc = pc]
<1>2. t \in Task /\ Become(w, t)
  BY <1>1, ToForm DEF To
<1> HIDE DEF t
<1>3. TaskOK(w, t, creates')
  BY DEF t
<1> QED BY <1>1, <1>2, <1>3, TasksTurn DEF BaseInv

\* ... within a provisioning.
LEMMA MakesOn ==
  ASSUME BaseInv, NEW s \in Sandbox, NEW pc \in MakingPcs, To(s, pc), task[s].pc \in MakingPcs,
         UNCHANGED <<main, creates, crashes>>, pc \in LinePcs => task[s].copy.ip # NoIP
  PROVE  TasksOK'
<1>1. s \in Worker /\ s # Reconciler /\ pc \in Pcs /\ task[s].pc # "idle"
  BY Constants DEF Worker, MakingPcs, LinePcs, Pcs
<1>2. task[s] \in Task /\ TaskOK(s, task[s], creates)
  BY <1>1, Up
<1> DEFINE t == [task[s] EXCEPT !.pc = pc]
<1>3. t.pc = pc /\ t.sb = task[s].sb /\ t.copy = task[s].copy
  BY <1>1, <1>2, ToForm
<1> HIDE DEF t
<1>4. TaskOK(s, t, creates)
  <2>1. creates # 0 /\ t.sb = s
    BY <1>1, <1>2, <1>3 DEF TaskOK
  <2>2. t.pc \notin RemovalPcs \cup {"visit"}
    BY <1>3 DEF MakingPcs, LinePcs, RemovalPcs
  <2> QED BY <1>1, <1>3, <2>1, <2>2 DEF TaskOK, RemovalPcs
<1> QED BY <1>1, <1>4, GoesOn DEF t

LEMMA ProvisionTypes ==
  ASSUME BaseInv, NEW s \in Sandbox,
         \/ ProvisionSweep(s) \/ ProvisionRun(s) \/ ProvisionStart(s)
         \/ ProvisionHook(s) \/ ProvisionPolicy(s) \/ ProvisionPublish(s)
  PROVE  BaseInv'
<1>0. s \in Worker /\ s # Reconciler /\ task[s].pc \in MakingPcs
  BY Constants DEF Worker, ProvisionSweep, ProvisionRun, ProvisionStart, ProvisionHook,
                   ProvisionPolicy, ProvisionPublish, MakingPcs, LinePcs
<1>1. /\ main = "up" /\ task[s] \in Task /\ task[s].copy \in State
      /\ TaskOK(s, task[s], creates) /\ creates \in Nat /\ creates \in PodName
  BY <1>0, Up, Constants DEF MakingPcs, LinePcs, PodName
<1>2. task[s].pc \in LinePcs => task[s].copy.ip \in IP
  BY <1>1 DEF TaskOK, State
<1>3. CASE ProvisionSweep(s)
  <2>1. TasksOK'
    BY <1>3, <1>0, MakesOn DEF ProvisionSweep, bounds, MakingPcs, LinePcs
  <2>2. PodsOK'
    BY <1>3, PodGone, Unchanged DEF ProvisionSweep, BaseInv
  <2>3. CountsOK' /\ RulesOK'
    BY <1>3, Unchanged DEF ProvisionSweep, bounds, filter, BaseInv, RulesOK
  <2> QED BY <1>3, <2>1, <2>2, <2>3, Unchanged DEF ProvisionSweep, bounds, filter, BaseInv
<1>4. CASE ProvisionRun(s)
  <2>1. To(s, "limits") \/ To(s, "fail")
    BY <1>4 DEF ProvisionRun
  <2>2. TasksOK'
    BY <1>4, <1>0, <2>1, MakesOn DEF ProvisionRun, bounds, MakingPcs, LinePcs
  <2>3. PodsOK'
    <3>1. CASE UNCHANGED pod
      BY <3>1, Unchanged
    <3>2. CASE \E ip \in FreeIP \cup {NoIP} :
                 pod' = [pod EXCEPT ![s] = [name |-> creates, ip |-> ip, well |-> TRUE]]
      <4>1. PICK ip \in FreeIP \cup {NoIP} :
              pod' = [pod EXCEPT ![s] = [name |-> creates, ip |-> ip, well |-> TRUE]]
        BY <3>2
      <4> DEFINE q == [name |-> creates, ip |-> ip, well |-> TRUE]
      <4>2. q \in Pod /\ q.ip = ip
        BY <1>1 DEF Pod, PodName, FreeIP
      <4>3. ip # NoIP => \A r \in Sandbox : pod[r].ip # ip
        BY DEF FreeIP
      <4> HIDE DEF q
      <4> QED BY <4>1, <4>2, <4>3 DEF BaseInv, PodsOK, q
    <3> QED BY <1>4, <3>1, <3>2 DEF ProvisionRun
  <2>4. CountsOK'
    BY <1>4, Unchanged DEF ProvisionRun, bounds
  <2> QED BY <1>4, <2>2, <2>3, <2>4, Unchanged DEF ProvisionRun, bounds, store, filter, BaseInv
<1>5. CASE ProvisionStart(s)
  <2>1. (To(s, "hook") /\ task[s].copy.ip # NoIP) \/ To(s, "fail")
    BY <1>5 DEF ProvisionStart
  <2>2. TasksOK'
    BY <1>5, <1>0, <2>1, MakesOn DEF ProvisionStart, bounds, MakingPcs, LinePcs
  <2>3. CountsOK'
    BY <1>5, Unchanged DEF ProvisionStart, bounds
  <2> QED BY <1>5, <2>2, <2>3, Unchanged DEF ProvisionStart, bounds, store, filter, BaseInv
<1>6. CASE ProvisionHook(s)
  <2>1. /\ To(s, "policy") \/ To(s, "fail")
        /\ task[s].copy.ip \in IP /\ task[s].copy.ip # NoIP
    BY <1>1, <1>2, <1>6 DEF ProvisionHook, LinePcs, TaskOK
  <2>2. TasksOK'
    BY <1>6, <1>0, <2>1, MakesOn DEF ProvisionHook, bounds, MakingPcs, LinePcs
  <2>3. RulesOK'
    <3>1. hooks \in Seq(IP \X Sandbox) /\ <<task[s].copy.ip, s>> \in IP \X Sandbox
      BY <2>1 DEF BaseInv, RulesOK
    <3>2. AppendUnique(hooks, <<task[s].copy.ip, s>>) \in Seq(IP \X Sandbox)
      BY <3>1, AppendUniqueIs
    <3> QED BY <1>6, <3>2 DEF ProvisionHook, BaseInv, RulesOK, store
  <2>4. CountsOK'
    BY <1>6, Unchanged DEF ProvisionHook, bounds
  <2> QED BY <1>6, <2>2, <2>3, <2>4, Unchanged DEF ProvisionHook, bounds, store, BaseInv
<1>7. CASE ProvisionPolicy(s)
  <2>1. task[s].copy.ip \in IP /\ task[s].copy.ip # NoIP
    BY <1>1, <1>2, <1>7 DEF ProvisionPolicy, LinePcs, TaskOK
  <2>2. TasksOK'
    BY <1>7, <1>0, <2>1, MakesOn DEF ProvisionPolicy, bounds, MakingPcs, LinePcs
  <2>3. ForwardOK'
    <3>1. /\ forward \in Seq(IP \cup {Jump}) /\ forward # <<>> /\ forward[1] = Jump
          /\ task[s].copy.ip \in IP \cup {Jump} /\ Jump # task[s].copy.ip
      BY <1>1, <2>1, Constants DEF BaseInv, ForwardOK
    <3> QED BY <1>7, <3>1, InsertSecondIs DEF ProvisionPolicy, ForwardOK
  <2>4. RulesOK'
    <3> DEFINE r == AppendUnique(AppendUnique(rules[s], "private"), Decision(task[s].copy.open))
    <3>1. rules[s] \in Seq(Rule) /\ "private" \in Rule /\ Decision(task[s].copy.open) \in Rule
      BY DEF BaseInv, RulesOK, Rule, Decision
    <3>2. r \in Seq(Rule)
      BY <3>1, AppendUniqueIs
    <3>3. rules' = [rules EXCEPT ![s] = r]
      BY <1>7 DEF ProvisionPolicy
    <3> HIDE DEF r
    <3> QED BY <1>7, <3>2, <3>3 DEF ProvisionPolicy, BaseInv, RulesOK, store
  <2> QED BY <1>7, <2>2, <2>3, <2>4, Unchanged DEF ProvisionPolicy, bounds, store, BaseInv
<1>8. CASE ProvisionPublish(s)
  <2>1. /\ To(s, "finish") \/ To(s, "fail")
        /\ task[s].copy.ip \in IP /\ task[s].copy.ip # NoIP
    BY <1>1, <1>2, <1>8 DEF ProvisionPublish, LinePcs, TaskOK
  <2>2. TasksOK'
    BY <1>8, <1>0, <2>1, MakesOn DEF ProvisionPublish, bounds, MakingPcs, LinePcs
  <2>3. RulesOK'
    <3> DEFINE d == [to |-> s, ip |-> task[s].copy.ip]
    <3>1. nat \in Seq(Dnat) /\ d \in Dnat
      BY <2>1 DEF BaseInv, RulesOK, Dnat
    <3> HIDE DEF d
    <3>2. AppendUnique(nat, d) \in Seq(Dnat)
      BY <3>1, AppendUniqueIs
    <3> QED BY <1>8, <3>2 DEF ProvisionPublish, BaseInv, RulesOK, store, filter, d
  <2>4. CountsOK'
    BY <1>8, Unchanged DEF ProvisionPublish, bounds
  <2> QED BY <1>8, <2>2, <2>3, <2>4, Unchanged DEF ProvisionPublish, bounds, store, filter, BaseInv
<1> QED BY <1>3, <1>4, <1>5, <1>6, <1>7, <1>8

LEMMA ProvisionEndTypes ==
  ASSUME BaseInv, NEW s \in Sandbox,
         ProvisionLimits(s) \/ ProvisionFinish(s) \/ ProvisionFail(s) \/ MarkError(s)
  PROVE  BaseInv'
<1>0. s \in Worker /\ s # Reconciler /\ task[s].pc \in MakingPcs \cup {"mark"}
  BY Constants DEF Worker, ProvisionLimits, ProvisionFinish, ProvisionFail, MarkError, MakingPcs,
                   LinePcs
<1>1. /\ main = "up" /\ task[s] \in Task /\ task[s].copy \in State
      /\ TaskOK(s, task[s], creates) /\ creates \in Nat /\ CountsOK /\ TasksOK
      /\ UNCHANGED <<main, creates, crashes>>
  BY <1>0, Up DEF MakingPcs, LinePcs, BaseInv, ProvisionLimits, ProvisionFinish, ProvisionFail,
                  MarkError, bounds
<1>2. CASE ProvisionLimits(s)
  <2>1. CASE To(s, "fail")
    <3>1. TasksOK'
      BY <1>0, <1>1, <1>2, <2>1, MakesOn DEF ProvisionLimits, MakingPcs, LinePcs
    <3>2. CountsOK'
      BY <1>2, Unchanged DEF ProvisionLimits, bounds
    <3> QED BY <1>2, <3>1, <3>2, Unchanged DEF ProvisionLimits, bounds, store, filter, BaseInv
  <2>2. CASE ~ To(s, "fail")
    <3> DEFINE t == [task[s] EXCEPT !.pc = "start", !.copy.pod = pod[s].name, !.copy.ip = pod[s].ip]
    <3>1. pod[s].name \in PodName /\ pod[s].ip \in IP \cup {NoIP}
      BY DEF BaseInv, PodsOK, Pod
    <3>2. t \in Task /\ t.pc = "start" /\ t.sb = task[s].sb
      BY <1>1, <3>1 DEF Task, State, Pcs
    <3>3. Become(s, t) /\ NoFault
      BY <1>2, <2>2 DEF ProvisionLimits
    <3>4. task[s].pc = "limits"
      BY <1>2 DEF ProvisionLimits
    <3> HIDE DEF t
    <3>5. TaskOK(s, t, creates)
      BY <1>0, <1>1, <3>2, <3>4 DEF TaskOK, MakingPcs, LinePcs, RemovalPcs
    <3>6. TasksOK' /\ CountsOK'
      BY <1>0, <1>1, <3>2, <3>3, <3>5, TasksTurn, Unchanged
    <3> QED BY <1>2, <3>6, Unchanged DEF ProvisionLimits, bounds, store, filter, BaseInv
  <2> QED BY <2>1, <2>2
<1>3. CASE ProvisionFinish(s)
  <2> DEFINE x == [task[s].copy EXCEPT !.phase = "running"]
  <2>1. x \in State /\ x.phase # "none"
    BY <1>1 DEF State, Phases
  <2>2. FilesOK'
    <3>1. state' = [state EXCEPT ![s] = x]
      BY <1>3 DEF ProvisionFinish
    <3> HIDE DEF x
    <3> QED BY <2>1, <3>1, FilesWrite DEF BaseInv
  <2>3. TaskOK(s, Idle(s), creates)
    BY <1>0, IdleForm DEF TaskOK, MakingPcs, LinePcs, RemovalPcs
  <2>4. TasksOK'
    BY <1>0, <1>1, <1>3, <2>3, IdleForm, TasksTurn DEF ProvisionFinish
  <2> QED BY <1>3, <2>2, <2>4, Unchanged DEF ProvisionFinish, bounds, store, filter, BaseInv
<1>4. CASE ProvisionFail(s)
  <2> DEFINE x == [task[s].copy EXCEPT !.phase = "error"]
             t == Removal(s, x, "mark")
  <2>1. x \in State /\ x.phase # "none"
    BY <1>1 DEF State, Phases
  <2>2. state' = [state EXCEPT ![s] = x] /\ Become(s, t)
    BY <1>4 DEF ProvisionFail
  <2> HIDE DEF x
  <2>3. FilesOK'
    BY <2>1, <2>2, FilesWrite DEF BaseInv
  <2>4. t \in Task /\ t.pc = "stop" /\ t.sb = s /\ t.then = "mark"
    BY <1>0, <2>1, TaskForms DEF Pcs
  <2> HIDE DEF t
  <2>5. TaskOK(s, t, creates)
    BY <1>0, <2>4 DEF TaskOK, MakingPcs, LinePcs, RemovalPcs
  <2>6. TasksOK'
    BY <1>0, <1>1, <2>2, <2>4, <2>5, TasksTurn
  <2> QED BY <1>4, <2>3, <2>6, Unchanged DEF ProvisionFail, bounds, store, filter, BaseInv
<1>5. CASE MarkError(s)
  <2>1. FilesOK'
    <3> DEFINE x == [state[s] EXCEPT !.phase = "error"]
    <3>1. x \in State /\ x.phase # "none"
      BY DEF BaseInv, FilesOK, State, Phases
    <3>2. UNCHANGED state \/ state' = [state EXCEPT ![s] = x]
      BY <1>5 DEF MarkError
    <3> HIDE DEF x
    <3> QED BY <3>1, <3>2, FilesWrite, Unchanged DEF BaseInv
  <2>3. TaskOK(s, Idle(s), creates)
    BY <1>0, IdleForm DEF TaskOK, MakingPcs, LinePcs, RemovalPcs
  <2>4. TasksOK'
    BY <1>0, <1>1, <1>5, <2>3, IdleForm, TasksTurn DEF MarkError
  <2> QED BY <1>5, <2>1, <2>4, Unchanged DEF MarkError, bounds, store, filter, BaseInv
<1> QED BY <1>2, <1>3, <1>4, <1>5

-----------------------------------------------------------------------------
(* Removal.                                                                *)

LEMMA DeleteBeginTypes ==
  ASSUME BaseInv, NEW s \in Sandbox, DeleteBegin(s)
  PROVE  BaseInv'
<1> DEFINE x == [state[s] EXCEPT !.phase = "deleting"]
           t == Removal(s, x, "erase")
<1>0. s \in Worker /\ s # Reconciler /\ main = "up" /\ UNCHANGED main
  BY Constants DEF Worker, DeleteBegin
<1>1. x \in State /\ x.phase # "none"
  BY DEF BaseInv, FilesOK, State, Phases
<1>2. state' = [state EXCEPT ![s] = x] /\ Become(s, t)
  <2>1. state' = [state EXCEPT ![s] = x]
    BY DEF DeleteBegin
  <2>2. state'[s] = x
    BY <2>1 DEF BaseInv, FilesOK
  <2> QED BY <2>1, <2>2 DEF DeleteBegin
<1> HIDE DEF x
<1>3. FilesOK'
  BY <1>1, <1>2, FilesWrite DEF BaseInv
<1>4. t \in Task /\ t.pc = "stop" /\ t.sb = s /\ t.then = "erase"
  BY <1>0, <1>1, TaskForms DEF Pcs
<1> HIDE DEF t
<1>5. TaskOK(s, t, creates)
  BY <1>0, <1>4 DEF TaskOK, MakingPcs, LinePcs, RemovalPcs
<1>6. TasksOK'
  BY <1>0, <1>2, <1>4, <1>5, TasksTurn DEF DeleteBegin, BaseInv, bounds, CountsOK
<1> QED BY <1>3, <1>6, Unchanged DEF DeleteBegin, bounds, store, filter, BaseInv

\* A removal goes on, or a failed provisioning is marked after it.
LEMMA RemovesOn ==
  ASSUME BaseInv, NEW w \in Worker, NEW pc \in RemovalPcs \cup {"mark"}, To(w, pc),
         task[w].pc \in RemovalPcs, UNCHANGED <<main, creates, crashes>>,
         pc = "erase" => task[w].then # "mark", pc = "mark" => w \in Sandbox
  PROVE  TasksOK'
<1>1. pc \in Pcs /\ task[w].pc # "idle"
  BY DEF RemovalPcs, Pcs
<1>2. task[w] \in Task /\ TaskOK(w, task[w], creates)
  BY <1>1, Up
<1> DEFINE t == [task[w] EXCEPT !.pc = pc]
<1>3. t.pc = pc /\ t.sb = task[w].sb /\ t.copy = task[w].copy /\ t.then = task[w].then
  BY <1>1, <1>2, ToForm
<1> HIDE DEF t
<1>4. TaskOK(w, t, creates)
  BY <1>2, <1>3, Constants DEF TaskOK, MakingPcs, LinePcs, RemovalPcs
<1> QED BY <1>1, <1>4, GoesOn DEF t

LEMMA TakeDownTypes ==
  ASSUME BaseInv, NEW w \in Worker, TakeDown(w)
  PROVE  BaseInv'
<1> DEFINE s == task[w].sb
<1>0. task[w].pc \in RemovalPcs /\ task[w].pc # "idle"
  BY DEF TakeDown, StopPod, Unpublish, Unhook, EraseState, RemovalPcs
<1>1. /\ main = "up" /\ task[w] \in Task /\ task[w].copy \in State
      /\ TaskOK(w, task[w], creates) /\ creates \in Nat /\ s \in Sandbox
      /\ UNCHANGED <<main, creates, crashes>>
  BY <1>0, Up DEF TaskOK, TakeDown, StopPod, Unpublish, Unhook, EraseState, bounds
<1>2. CASE StopPod(w)
  <2>1. TasksOK'
    BY <1>0, <1>1, <1>2, RemovesOn DEF StopPod, RemovalPcs
  <2>2. PodsOK'
    BY <1>1, <1>2, PodGone, Unchanged DEF StopPod, BaseInv
  <2>3. CountsOK'
    BY <1>2, Unchanged DEF StopPod, bounds
  <2> QED BY <1>2, <2>1, <2>2, <2>3, Unchanged DEF StopPod, bounds, store, filter, BaseInv
<1>3. CASE Unpublish(w)
  <2>1. TasksOK'
    BY <1>0, <1>1, <1>3, RemovesOn DEF Unpublish, RemovalPcs
  <2>2. RulesOK'
    <3>1. nat' \in Seq(Dnat)
      BY <1>3, WithoutIs DEF Unpublish, BaseInv, RulesOK
    <3> QED BY <1>3, <3>1 DEF Unpublish, BaseInv, RulesOK, store, filter
  <2> QED BY <1>3, <2>1, <2>2, Unchanged DEF Unpublish, bounds, store, filter, BaseInv
<1>4. CASE Unhook(w)
  <2> DEFINE ip == task[w].copy.ip
  <2>1. TasksOK'
    <3>1. task[w].then = "mark" => w \in Sandbox
      BY <1>0, <1>1 DEF TaskOK, Worker
    <3> QED BY <1>0, <1>1, <1>4, <3>1, RemovesOn DEF Unhook, RemovalPcs
  <2>2. ip # NoIP => ip \in IP
    BY <1>1 DEF State
  <2>3. CASE UNCHANGED filter
    <3>1. RulesOK'
      BY <1>1, <1>4, <2>3 DEF Unhook, RemoveCgroup, BaseInv, RulesOK, filter
    <3> QED BY <1>4, <2>1, <2>3, <3>1, Unchanged DEF Unhook, bounds, filter, BaseInv
  <2>4. CASE DeleteRules(s, ip, task[w].then # "save") /\ ip # NoIP
    <3>1. ForwardOK'
      <4>1. CASE UNCHANGED forward
        BY <1>1, <4>1, Unchanged
      <4>2. CASE forward' = Without(forward, {ip})
        <5>1. /\ forward \in Seq(IP \cup {Jump}) /\ forward # <<>> /\ forward[1] = Jump
              /\ Jump \notin {ip}
          BY <1>1, <2>2, <2>4, Constants DEF BaseInv, ForwardOK
        <5>2. forward' \in Seq(IP \cup {Jump}) /\ forward' # <<>> /\ forward'[1] = Jump
          BY <4>2, <5>1, WithoutIs
        <5> QED BY <5>2 DEF ForwardOK
      <4> QED BY <2>4, <4>1, <4>2 DEF DeleteRules
    <3>2. RulesOK'
      <4>1. hooks' \in Seq(IP \X Sandbox)
        <5>1. hooks \in Seq(IP \X Sandbox)
          BY DEF BaseInv, RulesOK
        <5> QED BY <2>4, <5>1, WithoutIs DEF DeleteRules
      <4>2. rules' \in [Sandbox -> Seq(Rule)]
        <5>1. <<>> \in Seq(Rule)
          OBVIOUS
        <5> QED BY <1>1, <2>4, <5>1 DEF DeleteRules, BaseInv, RulesOK
      <4>3. leaves' \subseteq Sandbox /\ nat' \in Seq(Dnat)
        BY <1>1, <1>4 DEF Unhook, RemoveCgroup, BaseInv, RulesOK
      <4> QED BY <4>1, <4>2, <4>3 DEF RulesOK
    <3> QED BY <1>4, <2>1, <3>1, <3>2, Unchanged DEF Unhook, bounds, BaseInv
  <2> QED BY <1>4, <2>3, <2>4 DEF Unhook
<1>5. CASE EraseState(w)
  <2>1. FilesOK'
    BY <1>1, <1>5, Constants, FilesWrite DEF EraseState, BaseInv
  <2>2. PassOK'
    BY <1>5 DEF EraseState, BaseInv, PassOK
  <2>3. task[w].then \in (IF w = Reconciler THEN {"visit"} ELSE {"save", "erase"}) /\ task[w].pc = "erase"
    BY <1>1, <1>5 DEF TaskOK, EraseState, RemovalPcs
  <2>4. Idle(w) \in Task /\ Idle(w).pc = "idle" /\ Idle(w).sb = w
    BY IdleForm
  <2>5. CASE task[w].then = "save"
    <3> DEFINE t == [task[w] EXCEPT !.pc = "save"]
    <3>1. /\ t \in Task /\ t.pc = "save" /\ t.sb = task[w].sb /\ Become(w, t)
      BY <1>1, <1>5, <2>5, ToForm DEF EraseState, Pcs
    <3> HIDE DEF t
    <3>2. w # Reconciler /\ w \in Sandbox
      BY <2>3, <2>5 DEF Worker
    <3>3. TaskOK(w, t, creates)
      BY <1>1, <2>3, <2>5, <3>1, <3>2 DEF TaskOK, RemovalPcs, LinePcs
    <3>4. TasksOK'
      BY <1>1, <3>1, <3>3, TasksTurn DEF BaseInv
    <3> QED BY <1>5, <2>1, <2>2, <3>4, Unchanged DEF EraseState, bounds, store, filter, BaseInv
  <2>6. CASE task[w].then = "erase"
    <3>1. Become(w, Idle(w))
      BY <1>5, <2>6 DEF EraseState
    <3>2. TaskOK(w, Idle(w), creates)
      BY <2>4 DEF TaskOK, RemovalPcs, LinePcs, MakingPcs
    <3>4. TasksOK'
      BY <1>1, <2>4, <3>1, <3>2, TasksTurn DEF BaseInv
    <3> QED BY <1>5, <2>1, <2>2, <3>4, Unchanged DEF EraseState, bounds, store, filter, BaseInv
  <2>7. CASE task[w].then = "visit"
    <3> DEFINE t == [Idle(w) EXCEPT !.pc = "visit"]
    <3>1. t \in Task /\ t.pc = "visit" /\ Become(w, t)
      BY <1>5, <2>4, <2>7, ToForm DEF EraseState, Pcs
    <3> HIDE DEF t
    <3>2. w = Reconciler
      BY <2>3, <2>7
    <3>3. TaskOK(w, t, creates)
      BY <3>1, <3>2, Constants DEF TaskOK, RemovalPcs, LinePcs, MakingPcs
    <3>4. TasksOK'
      BY <1>1, <3>1, <3>3, TasksTurn DEF BaseInv
    <3> QED BY <1>5, <2>1, <2>2, <3>4, Unchanged DEF EraseState, bounds, store, filter, BaseInv
  <2> QED BY <2>3, <2>5, <2>6, <2>7
<1> QED BY <1>2, <1>3, <1>4, <1>5 DEF TakeDown

-----------------------------------------------------------------------------
(* Passes, the runtime, stops and starts.                                  *)

LEMMA PassTypes ==
  ASSUME BaseInv,
         PassList \/ PassSweep \/ \E s \in Sandbox : PassSkip(s) \/ PassExpire(s) \/ PassFinalize(s)
  PROVE  BaseInv'
<1> DEFINE w == Reconciler
<1>0. w \in Worker /\ w \notin Sandbox
  BY Constants DEF Worker
<1>1. CASE PassList
  <2>1. main = "up" /\ task[w] \in Task /\ creates \in Nat /\ UNCHANGED <<main, creates>>
    BY <1>0, <1>1 DEF PassList, BaseInv, TasksOK, CountsOK, bounds
  <2> DEFINE t == [task[w] EXCEPT !.pc = "visit"]
  <2>2. t \in Task /\ t.pc = "visit" /\ Become(w, t)
    BY <1>1, <2>1, ToForm DEF PassList, To, Pcs
  <2> HIDE DEF t
  <2>3. TaskOK(w, t, creates)
    BY <1>0, <2>2 DEF TaskOK, RemovalPcs, LinePcs
  <2>4. TasksOK'
    BY <1>0, <2>1, <2>2, <2>3, TasksTurn DEF BaseInv
  <2>5. PassOK'
    <3>1. PICK missed \in SUBSET {s \in Sandbox : task[s].pc \in SavePcs /\ state[s].phase # "none"} :
            LET list == [s \in Sandbox |-> IF s \in missed THEN NoState ELSE state[s]]
            IN  /\ pass' = [list |-> list, todo |-> Listed(list)]
                /\ overlooked' = overlooked \cup missed
      BY <1>1 DEF PassList
    <3> DEFINE list == [s \in Sandbox |-> IF s \in missed THEN NoState ELSE state[s]]
    <3>2. list \in [Sandbox -> State]
      BY Constants DEF BaseInv, FilesOK
    <3>3. pass' = [list |-> list, todo |-> Listed(list)]
      BY <3>1
    <3> HIDE DEF list
    <3> QED BY <1>1, <3>1, <3>2, <3>3 DEF PassList, Listed, BaseInv, PassOK
  <2> QED BY <1>1, <2>4, <2>5, Unchanged DEF PassList, bounds, store, filter, BaseInv
<1>2. CASE PassSweep
  <2>1. main = "up" /\ creates \in Nat /\ UNCHANGED <<main, creates>>
    BY <1>0, <1>2, Up DEF PassSweep, bounds
  <2>2. TaskOK(w, Idle(w), creates)
    BY <1>0, IdleForm DEF TaskOK, RemovalPcs, LinePcs
  <2>3. TasksOK'
    BY <1>0, <1>2, <2>1, <2>2, IdleForm, TasksTurn DEF PassSweep, BaseInv
  <2>4. RulesOK'
    <3>1. nat' \in Seq(Dnat)
      BY <1>2, WithoutIs DEF PassSweep, BaseInv, RulesOK
    <3> QED BY <1>2, <3>1 DEF PassSweep, BaseInv, RulesOK, store, filter
  <2>5. PassOK'
    BY <1>2, Constants DEF PassSweep, NoPass, BaseInv, PassOK, past
  <2> QED BY <1>2, <2>3, <2>4, <2>5, Unchanged DEF PassSweep, bounds, store, filter, BaseInv
<1>3. ASSUME NEW s \in Sandbox, PassNext(s)
      PROVE  /\ PassOK' /\ PodsOK' /\ RulesOK' /\ ForwardOK' /\ CountsOK'
             /\ UNCHANGED <<main, creates>> /\ creates \in Nat
             /\ main = "up" /\ pass.list[s] \in State
  <2>1. PassOK'
    BY <1>3 DEF PassNext, BaseInv, PassOK, past
  <2>2. /\ UNCHANGED <<hooks, rules, nat, leaves>> /\ UNCHANGED <<forward, main>> /\ UNCHANGED pod
        /\ UNCHANGED <<creates, crashes, faults>>
    BY <1>3 DEF PassNext, filter, bounds
  <2>3. main = "up" /\ creates \in Nat
    BY <1>0, <1>3, Up DEF PassNext
  <2>4. pass.list[s] \in State
    BY <1>3 DEF BaseInv, PassOK
  <2> QED BY <2>1, <2>2, <2>3, <2>4, Unchanged
<1>4. ASSUME NEW s \in Sandbox, PassSkip(s) PROVE BaseInv'
  <2>1. UNCHANGED state /\ UNCHANGED <<task, main, creates>>
    BY <1>3, <1>4 DEF PassSkip
  <2> QED BY <1>3, <1>4, <2>1, Unchanged DEF PassSkip, BaseInv
<1>5. ASSUME NEW s \in Sandbox, PassExpire(s) PROVE BaseInv'
  <2>1. UNCHANGED <<task, main, creates>>
    BY <1>3, <1>5 DEF PassExpire
  <2> DEFINE x == [state[s] EXCEPT !.phase = "error"]
  <2>2. x \in State /\ x.phase # "none"
    BY DEF BaseInv, FilesOK, State, Phases
  <2>3. state' = [state EXCEPT ![s] = x]
    BY <1>5 DEF PassExpire
  <2> HIDE DEF x
  <2>4. FilesOK'
    BY <2>2, <2>3, FilesWrite DEF BaseInv
  <2> QED BY <1>3, <1>5, <2>1, <2>4, Unchanged DEF PassExpire, BaseInv
<1>6. ASSUME NEW s \in Sandbox, PassFinalize(s) PROVE BaseInv'
  <2> DEFINE x == pass.list[s]
  <2>1. PassNext(s) /\ Become(w, Removal(s, x, "visit")) /\ UNCHANGED state
    BY <1>6 DEF PassFinalize
  <2> DEFINE t == Removal(s, x, "visit")
  <2>2. t \in Task /\ t.pc = "stop" /\ t.sb = s /\ t.then = "visit"
    <3>1. s \in Worker /\ x \in State /\ "visit" \in Pcs
      BY <1>3, <2>1 DEF Worker, Pcs
    <3> HIDE DEF x
    <3> QED BY <3>1, TaskForms
  <2>3. Become(w, t)
    BY <2>1
  <2> HIDE DEF t
  <2>4. TaskOK(w, t, creates)
    BY <1>0, <2>2 DEF TaskOK, RemovalPcs, LinePcs
  <2>5. TasksOK'
    BY <1>0, <1>3, <2>1, <2>2, <2>3, <2>4, TasksTurn DEF BaseInv
  <2> QED BY <1>3, <2>1, <2>5, Unchanged DEF BaseInv
<1> QED BY <1>1, <1>2, <1>4, <1>5, <1>6

LEMMA WorldTypes ==
  ASSUME BaseInv, Restart \/ Crash \/ \E s \in Sandbox : ContainerExits(s)
  PROVE  BaseInv'
<1>1. ASSUME NEW s \in Sandbox, ContainerExits(s) PROVE BaseInv'
  <2> DEFINE q == [pod[s] EXCEPT !.well = FALSE]
  <2>1. q \in Pod /\ q.ip = pod[s].ip
    BY DEF BaseInv, PodsOK, Pod
  <2>2. pod' = [pod EXCEPT ![s] = q]
    BY <1>1 DEF ContainerExits
  <2> HIDE DEF q
  <2>3. PodsOK'
    BY <2>1, <2>2 DEF BaseInv, PodsOK
  <2>4. CountsOK'
    BY <1>1, Unchanged DEF ContainerExits, bounds
  <2> QED BY <1>1, <2>3, <2>4, Unchanged DEF ContainerExits, bounds, store, filter, BaseInv
<1>2. CASE Crash
  <2>1. \A w \in Worker : task'[w] = Idle(w) /\ TaskOK(w, task'[w], creates')
    <3>1. ASSUME NEW w \in Worker PROVE task'[w] = Idle(w) /\ TaskOK(w, Idle(w), creates')
      BY <1>2, <3>1, IdleForm DEF Crash, TaskOK, RemovalPcs, LinePcs, MakingPcs
    <3> QED BY <3>1
  <2>2. TasksOK'
    <3>1. task' \in [Worker -> Task] /\ \A w \in Worker : task'[w].pc = "idle"
      BY <1>2, IdleForm DEF Crash
    <3> QED BY <1>2, <2>1, <3>1 DEF Crash, TasksOK
  <2>3. PassOK'
    BY <1>2, Constants DEF Crash, NoPass, BaseInv, PassOK, past
  <2>4. ForwardOK' /\ CountsOK'
    BY <1>2 DEF Crash, filter, BaseInv, ForwardOK, CountsOK
  <2> QED BY <1>2, <2>2, <2>3, <2>4, Unchanged DEF Crash, store, filter, BaseInv
<1>3. CASE Restart
  <2>1. /\ forward \in Seq(IP \cup {Jump}) /\ Jump \in IP \cup {Jump} /\ main # "up"
        /\ main' \in {"down", "ensuring", "up"} /\ UNCHANGED <<task, creates>>
    BY <1>3 DEF Restart, EnsureBegin, EnsureGlobalChains, BaseInv, ForwardOK, bounds
  <2>2. ForwardOK'
    <3>1. CASE EnsureBegin
      <4>1. forward' \in Seq(IP \cup {Jump})
        BY <2>1, <3>1, WithoutIs DEF EnsureBegin
      <4> QED BY <3>1, <4>1 DEF EnsureBegin, ForwardOK
    <3>2. CASE EnsureGlobalChains
      <4> DEFINE new == InsertFirst(forward, Jump)
      <4>1. new \in Seq(IP \cup {Jump}) /\ new # <<>> /\ new[1] = Jump
        BY <2>1, InsertFirstIs
      <4>2. forward' = new
        BY <3>2 DEF EnsureGlobalChains
      <4> HIDE DEF new
      <4> QED BY <4>1, <4>2 DEF ForwardOK
    <3> QED BY <1>3, <3>1, <3>2 DEF Restart
  <2>3. TasksOK'
    BY <2>1 DEF BaseInv, TasksOK
  <2> QED BY <1>3, <2>2, <2>3, Unchanged
          DEF Restart, EnsureBegin, EnsureGlobalChains, bounds, store, BaseInv
<1> QED BY <1>1, <1>2, <1>3

LEMMA NextTypes == BaseInv /\ [Next]_vars => BaseInv'
<1> SUFFICES ASSUME BaseInv, [Next]_vars PROVE BaseInv'
  OBVIOUS
<1>1. CASE UNCHANGED vars
  BY <1>1, Unchanged DEF vars, store, filter, bounds, BaseInv
<1>2. \A s \in Sandbox : s \in Worker
  BY DEF Worker
<1>3. Reconciler \in Worker
  BY DEF Worker
<1>4. ASSUME NEW s \in Sandbox, Work(s) PROVE BaseInv'
  BY <1>2, <1>4, CreateSaveTypes, ProvisionTypes, ProvisionEndTypes, TakeDownTypes DEF Work
<1> QED
  BY <1>1, <1>3, <1>4, CreateBeginTypes, DeleteBeginTypes, TakeDownTypes, PassTypes, WorldTypes
     DEF Next, Pass

LEMMA InitTypes == Init => BaseInv
<1> SUFFICES ASSUME Init PROVE BaseInv
  OBVIOUS
<1>1. FilesOK /\ PodsOK /\ PassOK
  BY Constants DEF Init, FilesOK, PodsOK, PassOK, NoPass
<1>2. RulesOK /\ ForwardOK
  BY DEF Init, RulesOK, ForwardOK
<1>3. CountsOK
  BY Constants DEF Init, CountsOK
<1>4. \A w \in Worker : /\ task[w] \in Task /\ task[w].pc = "idle" /\ TaskOK(w, task[w], creates)
  BY IdleForm DEF Init, TaskOK, RemovalPcs, LinePcs, MakingPcs
<1>5. TasksOK
  BY <1>4 DEF Init, TasksOK
<1> QED BY <1>1, <1>2, <1>3, <1>5 DEF BaseInv

\* Files, pods, rules and goroutines are of their types, for every number of sandboxes,
\* addresses, creations, faults and stops: no rule is ever made for an address that is
\* not one (provisionSandboxSync, ApplySandboxRules, ApplyHostPortDNAT).
THEOREM NetworkTypeCorrect == Spec => []TypeOK
BY InitTypes, NextTypes, BaseType, PTL DEF Spec

\* While sbxlet serves, the first rule of FORWARD is the jump to the policies, for every
\* number of early accepts put in and taken out, and after stops at any moment
\* (EnsureGlobalChains, insertForwardAcceptEarly, DeleteSandboxRules).
THEOREM PolicyAlwaysComesFirst == Spec => []PolicyComesFirst
<1>1. BaseInv => PolicyComesFirst
  BY DEF BaseInv, ForwardOK, PolicyComesFirst
<1> QED BY <1>1, InitTypes, NextTypes, PTL DEF Spec

-----------------------------------------------------------------------------
(***************************************************************************)
(* First matches.                                                          *)
(***************************************************************************)
LEMMA TargetIs ==
  ASSUME NEW R, nat \in Seq(R), NEW p, NEW ip,
         \E d \in ToSet(nat) : PortOf[d.to] = p,
         \A d \in ToSet(nat) : PortOf[d.to] = p => d.ip = ip
  PROVE  Target(p) = ip
<1> DEFINE I == {i \in 1..Len(nat) : PortOf[nat[i].to] = p}
<1>1. I \subseteq Nat /\ I # {}
  BY DEF ToSet
<1>2. Min(I) \in I
  BY <1>1, LeastIsMin
<1>3. SelectInSeq(nat, LAMBDA d : PortOf[d.to] = p) = Min(I)
  BY <1>1 DEF SelectInSeq
<1>4. Min(I) # 0 /\ nat[Min(I)] \in ToSet(nat) /\ PortOf[nat[Min(I)].to] = p
  <2> DEFINE m == Min(I)
  <2>1. m \in 1..Len(nat) /\ PortOf[nat[m].to] = p
    BY <1>2
  <2> HIDE DEF m, I
  <2>2. m # 0 /\ nat[m] \in ToSet(nat)
    BY <2>1 DEF ToSet
  <2> QED BY <2>1, <2>2 DEF m
<1> HIDE DEF I
<1> QED BY <1>3, <1>4 DEF Target

LEMMA VerdictIs ==
  ASSUME NEW R, hooks \in Seq(R), NEW ip, NEW s, NEW open, <<ip, s>> \in ToSet(hooks),
         rules[s] = <<"private", Decision(open)>>,
         \A h \in ToSet(hooks) : h[1] = ip /\ rules[h[2]] # <<>> => h[2] = s
  PROVE  Verdict(ip) = Decision(open)
<1> DEFINE I == {i \in 1..Len(hooks) : hooks[i][1] = ip /\ rules[hooks[i][2]] # <<>>}
           all == <<"private", Decision(open)>>
           J == {i \in 1..Len(all) : all[i] # "private"}
<1>1. I \subseteq Nat /\ I # {}
  <2>1. PICK i \in 1..Len(hooks) : hooks[i] = <<ip, s>>
    BY DEF ToSet
  <2>2. i \in I
    BY <2>1
  <2> QED BY <2>2
<1>2. Min(I) \in I
  BY <1>1, LeastIsMin
<1>3. SelectInSeq(hooks, LAMBDA h : h[1] = ip /\ rules[h[2]] # <<>>) = Min(I)
  BY <1>1 DEF SelectInSeq
<1>4. Min(I) # 0 /\ rules[hooks[Min(I)][2]] = all
  <2> DEFINE m == Min(I)
  <2>1. m \in 1..Len(hooks) /\ hooks[m][1] = ip /\ rules[hooks[m][2]] # <<>>
    BY <1>2
  <2> HIDE DEF m, I
  <2>2. m # 0 /\ hooks[m] \in ToSet(hooks)
    BY <2>1 DEF ToSet
  <2>3. hooks[m][2] = s
    BY <2>1, <2>2
  <2> QED BY <2>2, <2>3 DEF m
<1>5. J = {2}
  <2>1. Decision(open) # "private"
    BY DEF Decision
  <2>2. Len(all) = 2 /\ all[1] = "private" /\ all[2] = Decision(open)
    OBVIOUS
  <2> QED BY <2>1, <2>2
<1>6. J \subseteq Nat /\ J # {} /\ Min(J) = 2
  <2>1. J \subseteq Nat /\ J # {}
    BY <1>5
  <2>2. Min(J) \in J
    BY <2>1, LeastIsMin
  <2> QED BY <1>5, <2>1, <2>2
<1>7. SelectInSeq(all, LAMBDA r : r # "private") = 2
  BY <1>6 DEF SelectInSeq
<1> HIDE DEF I, J
<1>8. all[2] = Decision(open)
  OBVIOUS
<1> HIDE DEF all
<1> QED BY <1>3, <1>4, <1>7, <1>8 DEF Verdict

-----------------------------------------------------------------------------
(***************************************************************************)
(* Published ports.  Until a pass has erased the state of a sandbox it did *)
(* not see, the DNAT rules of a sandbox are there only with its state file, *)
(* no two files name one port, and who runs has the rule of its address.   *)
(* A pass finalizes on the strength of its listing: it is right as long as *)
(* the sandbox is the one that was listed.                                 *)
(***************************************************************************)
NatOf(s) == {d \in ToSet(nat) : d.to = s}

Published(s, x) == NatOf(s) = {[to |-> s, ip |-> x.ip]}

Finalizing(s) == task[Reconciler].pc \in RemovalPcs /\ task[Reconciler].sb = s

Known(s) == s \notin overlooked

\* Goroutines at these points have published nothing, or have taken it back.
BarePcs == {"unhook", "erase", "mark", "sweep", "run", "limits", "start", "hook", "policy", "publish"}

\* What the goroutine of s does, and the phase of its file.
PhaseFits(s) ==
  /\ task[s].pc \in MakingPcs => state[s].phase = "creating"
  /\ task[s].pc # "idle" => state[s].phase # "running"
  /\ task[s].pc = "save" => state[s].phase = "none"
  /\ task[s].pc \in RemovalPcs /\ task[s].then = "save" => state[s].phase = "none"

\* What the pass knows of s.
PassFits(s) ==
  /\ Finalizing(s) =>
       /\ task[s].pc \notin MakingPcs \cup {"mark"}
       /\ task[s].pc \in RemovalPcs => task[s].then # "mark"
       /\ state[s].phase = "running" => Unhealthy(s, state[s])
       /\ task[Reconciler].pc \in {"unhook", "erase"} => NatOf(s) = {}
  /\ Reconciling /\ state[s].phase # "none" => pass.list[s].phase # "none"
  /\ Reconciling /\ pass.list[s].phase \in {"running", "error"} =>
       /\ task[s].pc \notin MakingPcs
       /\ state[s].phase # "none" => /\ pass.list[s].ip = state[s].ip
                                     /\ pass.list[s].pod = state[s].pod

\* The DNAT rules of s.
NatFits(s) ==
  /\ NatOf(s) # {} => state[s].phase # "none"
  /\ task[s].pc \in BarePcs => NatOf(s) = {}
  /\ Known(s) /\ task[s].pc = "finish" => Published(s, task[s].copy)
  /\ Known(s) /\ state[s].phase = "running" /\ ~ Unhealthy(s, state[s]) => Published(s, state[s])

OwnInv(s) == PhaseFits(s) /\ NatFits(s) /\ (Known(s) => PassFits(s))

PortsApart ==
  \A s, t \in Sandbox :
    s # t /\ state[s].phase # "none" /\ state[t].phase # "none" => PortOf[s] # PortOf[t]

Owned == PortsApart /\ \A s \in Sandbox : OwnInv(s)

NatInv == BaseInv /\ (strayed \/ Owned)

\* What others do to a sandbox that they leave alone.
Left(s) ==
  /\ state'[s] = state[s] /\ pod'[s] = pod[s] /\ task'[s] = task[s]
  /\ NatOf(s)' = NatOf(s) /\ (s \in overlooked' <=> s \in overlooked)
  /\ Finalizing(s)' => task'[Reconciler] = task[Reconciler]
  /\ Reconciling' => Reconciling /\ pass'.list[s] = pass.list[s]

LEMMA LeftOwn ==
  ASSUME NEW s \in Sandbox, OwnInv(s), Left(s)
  PROVE  OwnInv(s)'
<1>1. PhaseFits(s)'
  BY DEF Left, OwnInv, PhaseFits
<1>2. NatFits(s)'
  BY DEF Left, OwnInv, NatFits, Published, Known, Unhealthy
<1>3. ASSUME Known(s)' PROVE PassFits(s)'
  BY <1>3 DEF Left, OwnInv, PassFits, Known, Unhealthy, Finalizing
<1> QED BY <1>1, <1>2, <1>3 DEF OwnInv

LEMMA StayApart ==
  ASSUME PortsApart, \A s \in Sandbox : state'[s].phase # "none" => state[s].phase # "none"
  PROVE  PortsApart'
BY DEF PortsApart

LEMMA NatKept ==
  ASSUME UNCHANGED nat
  PROVE  \A s \in Sandbox : NatOf(s)' = NatOf(s)
BY DEF NatOf

LEMMA NatWithout ==
  ASSUME RulesOK, NEW S, nat' = Without(nat, Tagged(S))
  PROVE  \A s \in Sandbox : NatOf(s)' = IF s \in S THEN {} ELSE NatOf(s)
<1>1. nat \in Seq(Dnat)
  BY DEF RulesOK
<1>2. ToSet(nat') = ToSet(nat) \ Tagged(S)
  BY <1>1, WithoutIs
<1>3. ToSet(nat) \subseteq Dnat
  BY <1>1 DEF ToSet
<1> QED BY <1>2, <1>3 DEF NatOf, Tagged

LEMMA NatMore ==
  ASSUME RulesOK, NEW d \in Dnat, nat' = AppendUnique(nat, d)
  PROVE  \A s \in Sandbox : NatOf(s)' = IF s = d.to THEN NatOf(s) \cup {d} ELSE NatOf(s)
<1>1. nat \in Seq(Dnat)
  BY DEF RulesOK
<1>2. ToSet(nat') = ToSet(nat) \cup {d}
  BY <1>1, AppendUniqueIs
<1> QED BY <1>2 DEF NatOf

\* The goroutine of s turns to t, and leaves the others alone.
LEMMA OwnTurn ==
  ASSUME BaseInv, Owned, NEW s \in Sandbox, NEW t, Become(s, t), UNCHANGED pass,
         \A r \in Sandbox \ {s} : /\ state'[r] = state[r] /\ pod'[r] = pod[r]
                                  /\ NatOf(r)' = NatOf(r)
                                  /\ r \in overlooked' <=> r \in overlooked,
         task'[s] = t /\ UNCHANGED task[Reconciler] => OwnInv(s)' /\ PortsApart'
  PROVE  Owned'
<1>1. \A v \in Worker : task'[v] = IF v = s THEN t ELSE task[v]
  BY DEF BaseInv, TasksOK, Become
<1>2. s \in Worker /\ Reconciler \in Worker /\ Reconciler # s /\ \A r \in Sandbox : r \in Worker
  BY Constants DEF Worker
<1>3. task'[s] = t /\ UNCHANGED task[Reconciler]
  BY <1>1, <1>2
<1>4. ASSUME NEW r \in Sandbox \ {s} PROVE OwnInv(r)'
  <2>1. Left(r)
    BY <1>1, <1>2, <1>3 DEF Left, Finalizing, Reconciling
  <2> QED BY <2>1, LeftOwn DEF Owned
<1> QED BY <1>3, <1>4 DEF Owned

LEMMA CreateBeginOwn ==
  ASSUME BaseInv, Owned, NEW s \in Sandbox, NEW open \in BOOLEAN, CreateBegin(s, open)
  PROVE  Owned'
<1> DEFINE x == [NoState EXCEPT !.open = open]
<1>0. /\ task[s].pc = "idle" /\ state[s].phase = "none" /\ OwnInv(s)
      /\ UNCHANGED <<state, pod, nat, pass, overlooked>>
  BY DEF CreateBegin, store, past, Owned
<1>1. \A r \in Sandbox : NatOf(r)' = NatOf(r)
  BY <1>0, NatKept
<1>2. PICK t : Become(s, t) /\ (t.pc = "save" \/ (t.pc = "stop" /\ t.then = "save"))
  <2>1. CASE Become(s, At("save", s, x))
    <3>1. At("save", s, x).pc = "save"
      BY DEF At
    <3> QED BY <2>1, <3>1
  <2>2. CASE \E ip \in OrphanAddress(s) :
               Become(s, Removal(s, [x EXCEPT !.pod = pod[s].name, !.ip = ip], "save"))
    <3>1. PICK ip : Become(s, Removal(s, [x EXCEPT !.pod = pod[s].name, !.ip = ip], "save"))
      BY <2>2
    <3> DEFINE t == Removal(s, [x EXCEPT !.pod = pod[s].name, !.ip = ip], "save")
    <3>2. t.pc = "stop" /\ t.then = "save"
      BY DEF Removal, At
    <3>3. Become(s, t)
      BY <3>1
    <3> HIDE DEF t
    <3> QED BY <3>2, <3>3
  <2> QED BY <2>1, <2>2 DEF CreateBegin
<1>3. ASSUME task'[s] = t, UNCHANGED task[Reconciler] PROVE OwnInv(s)' /\ PortsApart'
  <2>1. PhaseFits(s)'
    BY <1>0, <1>2, <1>3 DEF PhaseFits, MakingPcs, LinePcs
  <2>2. NatFits(s)'
    BY <1>0, <1>1, <1>2, <1>3 DEF OwnInv, NatFits, BarePcs
  <2>3. Known(s) => PassFits(s)'
    <3>1. t.pc \notin MakingPcs \cup {"mark"} /\ (t.pc \in RemovalPcs => t.then # "mark")
      BY <1>2 DEF MakingPcs, LinePcs, RemovalPcs
    <3>2. (Finalizing(s)' <=> Finalizing(s)) /\ (Reconciling' <=> Reconciling) /\ NatOf(s)' = NatOf(s)
      BY <1>1, <1>3 DEF Finalizing, Reconciling
    <3> QED BY <1>0, <1>3, <3>1, <3>2 DEF OwnInv, PassFits
  <2>4. PortsApart'
    BY <1>0, StayApart DEF Owned
  <2> QED BY <1>0, <2>1, <2>2, <2>3, <2>4 DEF OwnInv, Known
<1> QED BY <1>0, <1>1, <1>2, <1>3, OwnTurn

LEMMA CreateSaveOwn ==
  ASSUME BaseInv, Owned, NEW s \in Sandbox, CreateSave(s)
  PROVE  Owned'
<1> DEFINE x == [NoState EXCEPT !.phase = "creating", !.open = task[s].copy.open]
           busy == \E r \in Sandbox \ {s} : PortOf[r] = PortOf[s] /\ state[r].phase # "none"
<1>0. task[s].pc = "save" /\ OwnInv(s) /\ state[s].phase = "none" /\ NatOf(s) = {}
  BY DEF CreateSave, Owned, OwnInv, PhaseFits, NatFits
<1>1. \A r \in Sandbox : NatOf(r)' = NatOf(r)
  BY NatKept DEF CreateSave
<1>2. CASE busy
  <2>1. /\ Become(s, Idle(s)) /\ Idle(s).pc = "idle"
        /\ UNCHANGED <<state, pod, nat, pass, overlooked>>
    BY <1>2, IdleForm DEF CreateSave, Worker
  <2>2. ASSUME task'[s] = Idle(s), UNCHANGED task[Reconciler] PROVE OwnInv(s)' /\ PortsApart'
    <3>1. PhaseFits(s)' /\ NatFits(s)'
      BY <1>0, <1>1, <2>1, <2>2 DEF PhaseFits, NatFits, MakingPcs, LinePcs, RemovalPcs, BarePcs
    <3>2. Known(s) => PassFits(s)'
      <4>1. task[s].pc = "save" /\ task'[s].pc = "idle" /\ "idle" \notin RemovalPcs \cup MakingPcs
        BY <1>0, <2>1, <2>2 DEF MakingPcs, LinePcs, RemovalPcs
      <4>2. (Finalizing(s)' <=> Finalizing(s)) /\ (Reconciling' <=> Reconciling) /\ NatOf(s)' = NatOf(s)
        BY <1>1, <2>2 DEF Finalizing, Reconciling
      <4> QED BY <1>0, <2>1, <2>2, <4>1, <4>2 DEF OwnInv, PassFits
    <3>3. PortsApart'
      BY <2>1, StayApart DEF Owned
    <3> QED BY <2>1, <3>1, <3>2, <3>3 DEF OwnInv, Known
  <2> QED BY <1>1, <2>1, <2>2, OwnTurn
<1>3. CASE ~ busy
  <2> DEFINE t == At("sweep", s, x)
  <2>1. /\ Become(s, t) /\ state' = [state EXCEPT ![s] = x] /\ UNCHANGED <<pod, nat, pass>>
        /\ overlooked' = IF Reconciling THEN overlooked \cup {s} ELSE overlooked \ {s}
    BY <1>3 DEF CreateSave
  <2>2. t.pc = "sweep" /\ x.phase = "creating"
    BY DEF At, NoState
  <2> HIDE DEF t, x
  <2>3. \A r \in Sandbox : state'[r] = IF r = s THEN x ELSE state[r]
    BY <2>1 DEF BaseInv, FilesOK
  <2>4. ASSUME task'[s] = t, UNCHANGED task[Reconciler] PROVE OwnInv(s)' /\ PortsApart'
    <3>1. PhaseFits(s)' /\ NatFits(s)'
      BY <1>0, <1>1, <2>2, <2>3, <2>4 DEF PhaseFits, NatFits, RemovalPcs
    <3>2. Known(s)' => ~ Reconciling'
      BY <2>1, <2>4 DEF Known, Reconciling
    <3>3. Known(s)' => PassFits(s)'
      BY <3>2 DEF PassFits, Finalizing, Reconciling, RemovalPcs
    <3>4. PortsApart'
      BY <1>3, <2>3 DEF PortsApart, Owned
    <3> QED BY <3>1, <3>3, <3>4 DEF OwnInv
  <2>5. \A r \in Sandbox \ {s} : /\ state'[r] = state[r] /\ pod'[r] = pod[r] /\ NatOf(r)' = NatOf(r)
                                 /\ r \in overlooked' <=> r \in overlooked
    BY <1>1, <2>1, <2>3
  <2> QED BY <2>1, <2>4, <2>5, OwnTurn
<1> QED BY <1>2, <1>3

\* A provisioning that has published nothing yet goes on or fails.
LEMMA MakingOwn ==
  ASSUME BaseInv, Owned, NEW s \in Sandbox, task[s].pc \in MakingPcs \cap BarePcs,
         NEW t, Become(s, t), t.pc \in MakingPcs \ {"finish"},
         UNCHANGED <<state, nat, pass, overlooked>>, \A r \in Sandbox \ {s} : pod'[r] = pod[r]
  PROVE  Owned'
<1>0. OwnInv(s) /\ state[s].phase = "creating" /\ NatOf(s) = {}
  BY DEF Owned, OwnInv, PhaseFits, NatFits
<1>1. \A r \in Sandbox : NatOf(r)' = NatOf(r)
  BY NatKept
<1>2. ASSUME task'[s] = t, UNCHANGED task[Reconciler] PROVE OwnInv(s)' /\ PortsApart'
  <2>1. PhaseFits(s)' /\ NatFits(s)'
    BY <1>0, <1>1, <1>2 DEF PhaseFits, NatFits, MakingPcs, LinePcs, RemovalPcs
  <2>2. Known(s) => PassFits(s)'
    BY <1>0, <1>1, <1>2 DEF OwnInv, PassFits, Finalizing, Reconciling
  <2>3. PortsApart'
    BY StayApart DEF Owned
  <2> QED BY <2>1, <2>2, <2>3 DEF OwnInv, Known
<1> QED BY <1>1, <1>2, OwnTurn

LEMMA ToOwn ==
  ASSUME BaseInv, Owned, NEW s \in Sandbox, task[s].pc \in MakingPcs \cap BarePcs,
         NEW pc \in MakingPcs \ {"finish"}, To(s, pc),
         UNCHANGED <<state, nat, pass, overlooked>>, \A r \in Sandbox \ {s} : pod'[r] = pod[r]
  PROVE  Owned'
<1> DEFINE t == [task[s] EXCEPT !.pc = pc]
<1>1. t.pc = pc /\ Become(s, t)
  <2>1. s \in Worker /\ task[s] \in Task /\ pc \in Pcs
    BY DEF Worker, BaseInv, TasksOK, MakingPcs, LinePcs, Pcs
  <2> QED BY <2>1, ToForm DEF To
<1> HIDE DEF t
<1> QED BY <1>1, MakingOwn

LEMMA ProvisionOwn ==
  ASSUME BaseInv, Owned, NEW s \in Sandbox,
         \/ ProvisionSweep(s) \/ ProvisionRun(s) \/ ProvisionLimits(s) \/ ProvisionStart(s)
         \/ ProvisionHook(s) \/ ProvisionPolicy(s)
  PROVE  Owned'
<1>0. /\ task[s].pc \in MakingPcs \cap BarePcs
      /\ UNCHANGED <<state, nat, pass, overlooked>>
      /\ \A r \in Sandbox \ {s} : pod'[r] = pod[r]
  BY DEF ProvisionSweep, ProvisionRun, ProvisionLimits, ProvisionStart, ProvisionHook,
         ProvisionPolicy, MakingPcs, LinePcs, BarePcs, store, past, BaseInv, PodsOK
<1>1. CASE \E pc \in MakingPcs \ {"finish"} : To(s, pc)
  BY <1>0, <1>1, ToOwn
<1>2. CASE Become(s, [task[s] EXCEPT !.pc = "start", !.copy.pod = pod[s].name,
                                     !.copy.ip = pod[s].ip])
  <2> DEFINE t == [task[s] EXCEPT !.pc = "start", !.copy.pod = pod[s].name, !.copy.ip = pod[s].ip]
  <2>1. t.pc = "start"
    BY DEF BaseInv, TasksOK, Task, Worker
  <2>2. Become(s, t)
    BY <1>2
  <2> HIDE DEF t
  <2>3. t.pc \in MakingPcs \ {"finish"}
    BY <2>1 DEF MakingPcs
  <2> QED BY <1>0, <2>2, <2>3, MakingOwn
<1>3. \/ To(s, "run") \/ To(s, "limits") \/ To(s, "hook") \/ To(s, "policy") \/ To(s, "publish")
      \/ To(s, "fail")
      \/ Become(s, [task[s] EXCEPT !.pc = "start", !.copy.pod = pod[s].name, !.copy.ip = pod[s].ip])
  BY DEF ProvisionSweep, ProvisionRun, ProvisionLimits, ProvisionStart, ProvisionHook,
         ProvisionPolicy
<1>4. {"run", "limits", "hook", "policy", "publish", "fail"} \subseteq MakingPcs \ {"finish"}
  BY DEF MakingPcs, LinePcs
<1> QED BY <1>1, <1>2, <1>3, <1>4

LEMMA ProvisionPublishOwn ==
  ASSUME BaseInv, Owned, NEW s \in Sandbox, ProvisionPublish(s)
  PROVE  Owned'
<1> DEFINE d == [to |-> s, ip |-> task[s].copy.ip]
<1>0. /\ task[s].pc = "publish" /\ OwnInv(s) /\ state[s].phase = "creating" /\ NatOf(s) = {}
      /\ UNCHANGED <<state, pod, pass, overlooked>>
  BY DEF ProvisionPublish, Owned, OwnInv, PhaseFits, NatFits, BarePcs, MakingPcs, LinePcs, store, past
<1>1. s \in Worker /\ s # Reconciler /\ task[s] \in Task /\ task[s].copy \in State /\ d \in Dnat
  <2>1. s \in Worker /\ s # Reconciler
    BY Constants DEF Worker
  <2>2. task[s] \in Task /\ task[s].copy \in State /\ task[s].copy.ip # NoIP
    BY <1>0, <2>1, Up DEF TaskOK, LinePcs
  <2> QED BY <2>1, <2>2 DEF State, Dnat
<1>2. PICK pc \in {"finish", "fail"} : To(s, pc) /\ (pc = "finish" => nat' = AppendUnique(nat, d))
  BY DEF ProvisionPublish
<1>3. UNCHANGED nat \/ nat' = AppendUnique(nat, d)
  BY DEF ProvisionPublish
<1> DEFINE t == [task[s] EXCEPT !.pc = pc]
<1>4. Become(s, t) /\ t.pc = pc /\ t.copy = task[s].copy
  BY <1>1, <1>2, ToForm DEF To, Pcs
<1> HIDE DEF t
<1>5. d.to = s /\ d = [to |-> s, ip |-> t.copy.ip]
  BY <1>4
<1> HIDE DEF d
<1>6. /\ \A r \in Sandbox \ {s} : NatOf(r)' = NatOf(r)
      /\ pc = "finish" => NatOf(s)' = {d}
  <2>1. CASE UNCHANGED nat /\ pc # "finish"
    BY <2>1, NatKept
  <2>2. CASE nat' = AppendUnique(nat, d)
    BY <1>0, <1>1, <1>5, <2>2, NatMore DEF BaseInv
  <2> QED BY <1>2, <1>3, <2>1, <2>2
<1>7. ASSUME task'[s] = t, UNCHANGED task[Reconciler] PROVE OwnInv(s)' /\ PortsApart'
  <2>1. PhaseFits(s)' /\ task'[s].pc \in MakingPcs
    BY <1>0, <1>2, <1>4, <1>7 DEF PhaseFits, MakingPcs, LinePcs, RemovalPcs
  <2>2. pc = "finish" => Published(s, task[s].copy)'
    BY <1>4, <1>5, <1>6, <1>7 DEF Published
  <2>3. NatFits(s)'
    BY <1>0, <1>2, <1>4, <1>5, <1>6, <1>7 DEF NatFits, BarePcs, Published
  <2>4. Known(s) => PassFits(s)'
    BY <1>0, <1>7, <2>1 DEF OwnInv, PassFits, Finalizing, Reconciling, MakingPcs, LinePcs
  <2>5. PortsApart'
    BY <1>0, StayApart DEF Owned
  <2> QED BY <1>0, <2>1, <2>3, <2>4, <2>5 DEF OwnInv, Known
<1> QED BY <1>0, <1>4, <1>6, <1>7, OwnTurn

\* The goroutine of s writes its file.
LEMMA WriteOwn ==
  ASSUME BaseInv, Owned, NEW s \in Sandbox, NEW x, NEW t, Become(s, t),
         state' = [state EXCEPT ![s] = x], state[s].phase # "none",
         UNCHANGED <<pod, nat, pass, overlooked>>,
         task'[s] = t /\ UNCHANGED task[Reconciler] /\ state'[s] = x /\ NatOf(s)' = NatOf(s)
           => OwnInv(s)'
  PROVE  Owned'
<1>1. \A r \in Sandbox : NatOf(r)' = NatOf(r)
  BY NatKept
<1>2. \A r \in Sandbox : state'[r] = IF r = s THEN x ELSE state[r]
  BY DEF BaseInv, FilesOK
<1>3. PortsApart'
  BY <1>2, StayApart DEF Owned
<1> QED BY <1>1, <1>2, <1>3, OwnTurn

LEMMA ProvisionEndOwn ==
  ASSUME BaseInv, Owned, NEW s \in Sandbox,
         ProvisionFinish(s) \/ ProvisionFail(s) \/ MarkError(s) \/ DeleteBegin(s)
  PROVE  Owned'
<1>0. OwnInv(s) /\ s \in Worker /\ state[s] \in State /\ UNCHANGED <<pod, nat, pass, overlooked>>
  BY DEF ProvisionFinish, ProvisionFail, MarkError, DeleteBegin, past, Owned, Worker, BaseInv, FilesOK
<1>1. task[s].copy \in State
  BY <1>0 DEF BaseInv, TasksOK, Task
<1>2. Idle(s).pc = "idle" /\ "idle" \notin MakingPcs \cup RemovalPcs \cup BarePcs
  BY <1>0, IdleForm DEF MakingPcs, LinePcs, RemovalPcs, BarePcs
<1>3. CASE ProvisionFinish(s)
  <2> DEFINE x == [task[s].copy EXCEPT !.phase = "running"]
  <2>1. state' = [state EXCEPT ![s] = x] /\ Become(s, Idle(s)) /\ task[s].pc = "finish"
    BY <1>3 DEF ProvisionFinish
  <2>2. x.phase = "running" /\ x.ip = task[s].copy.ip
    BY <1>1 DEF State
  <2> HIDE DEF x
  <2>3. task[s].pc \in MakingPcs /\ state[s].phase = "creating"
    BY <1>0, <2>1 DEF MakingPcs, LinePcs, OwnInv, PhaseFits
  <2>4. ASSUME task'[s] = Idle(s), UNCHANGED task[Reconciler], state'[s] = x, NatOf(s)' = NatOf(s)
        PROVE  OwnInv(s)'
    <3>1. PhaseFits(s)'
      BY <1>2, <2>4 DEF PhaseFits
    <3>2. NatFits(s)'
      BY <1>0, <1>2, <2>1, <2>2, <2>4 DEF OwnInv, NatFits, Known, Published
    <3>3. Known(s) => PassFits(s)'
      BY <1>0, <2>3, <2>4 DEF OwnInv, PassFits, Finalizing, Reconciling
    <3> QED BY <1>0, <3>1, <3>2, <3>3 DEF OwnInv, Known
  <2> QED BY <1>0, <2>1, <2>3, <2>4, WriteOwn
<1>4. CASE ProvisionFail(s)
  <2> DEFINE x == [task[s].copy EXCEPT !.phase = "error"]
             t == Removal(s, x, "mark")
  <2>1. state' = [state EXCEPT ![s] = x] /\ Become(s, t) /\ task[s].pc = "fail"
    BY <1>4 DEF ProvisionFail
  <2>2. x \in State /\ x.phase = "error"
    BY <1>1 DEF State, Phases
  <2>3. t.pc = "stop" /\ t.then = "mark"
    BY DEF Removal, At
  <2> HIDE DEF x, t
  <2>4. task[s].pc \in MakingPcs /\ state[s].phase = "creating"
    BY <1>0, <2>1 DEF MakingPcs, LinePcs, OwnInv, PhaseFits
  <2>5. ASSUME task'[s] = t, UNCHANGED task[Reconciler], state'[s] = x, NatOf(s)' = NatOf(s)
        PROVE  OwnInv(s)'
    <3>1. PhaseFits(s)'
      BY <2>2, <2>3, <2>5 DEF PhaseFits, MakingPcs, LinePcs
    <3>2. NatFits(s)'
      BY <2>2, <2>3, <2>5 DEF NatFits, BarePcs
    <3>3. Known(s) => PassFits(s)'
      BY <1>0, <2>4, <2>5 DEF OwnInv, PassFits, Finalizing, Reconciling
    <3> QED BY <1>0, <3>1, <3>2, <3>3 DEF OwnInv, Known
  <2> QED BY <1>0, <2>1, <2>4, <2>5, WriteOwn
<1>5. CASE MarkError(s)
  <2>0. task[s].pc = "mark" /\ NatOf(s) = {} /\ Become(s, Idle(s))
    BY <1>0, <1>5 DEF MarkError, OwnInv, NatFits, BarePcs
  <2>1. CASE state[s].phase = "none"
    <3>1. UNCHANGED state
      BY <1>5, <2>1 DEF MarkError
    <3>2. ASSUME task'[s] = Idle(s), UNCHANGED task[Reconciler] PROVE OwnInv(s)' /\ PortsApart'
      <4>1. PhaseFits(s)' /\ NatFits(s)'
        BY <1>0, <1>2, <2>0, <2>1, <3>1, <3>2, NatKept DEF PhaseFits, NatFits
      <4>2. Known(s) => PassFits(s)'
        BY <1>0, <1>2, <2>0, <2>1, <3>1, <3>2 DEF OwnInv, PassFits, Finalizing, Reconciling
      <4> QED BY <1>0, <3>1, <4>1, <4>2, StayApart DEF Owned, OwnInv, Known
    <3> QED BY <1>0, <2>0, <3>1, <3>2, NatKept, OwnTurn
  <2>2. CASE state[s].phase # "none"
    <3> DEFINE x == [state[s] EXCEPT !.phase = "error"]
    <3>1. state' = [state EXCEPT ![s] = x]
      BY <1>5, <2>2 DEF MarkError
    <3>2. x.phase = "error" /\ x.ip = state[s].ip /\ x.pod = state[s].pod
      BY <1>0 DEF State
    <3> HIDE DEF x
    <3>3. ASSUME task'[s] = Idle(s), UNCHANGED task[Reconciler], state'[s] = x, NatOf(s)' = NatOf(s)
          PROVE  OwnInv(s)'
      <4>1. PhaseFits(s)' /\ NatFits(s)'
        BY <1>2, <2>0, <3>2, <3>3 DEF PhaseFits, NatFits
      <4>2. "mark" \notin MakingPcs
        BY DEF MakingPcs, LinePcs
      <4>3. Known(s) => PassFits(s)'
        BY <1>0, <1>2, <2>0, <2>2, <3>2, <3>3, <4>2 DEF OwnInv, PassFits, Finalizing, Reconciling
      <4> QED BY <1>0, <4>1, <4>3 DEF OwnInv, Known
    <3> QED BY <1>0, <2>0, <2>2, <3>1, <3>3, WriteOwn
  <2> QED BY <2>1, <2>2
<1>6. CASE DeleteBegin(s)
  <2> DEFINE x == [state[s] EXCEPT !.phase = "deleting"]
             t == Removal(s, state'[s], "erase")
  <2>1. /\ state' = [state EXCEPT ![s] = x] /\ Become(s, t) /\ task[s].pc = "idle"
        /\ state[s].phase # "none"
    BY <1>6, NamesAssumption DEF DeleteBegin
  <2>2. x.phase = "deleting" /\ x.ip = state[s].ip /\ x.pod = state[s].pod
    BY <1>0 DEF State
  <2>3. t.pc = "stop" /\ t.then = "erase" /\ "stop" \in RemovalPcs
        /\ "stop" \notin MakingPcs \cup BarePcs \cup {"idle", "save", "mark", "finish"}
    BY DEF Removal, At, MakingPcs, LinePcs, BarePcs, RemovalPcs
  <2> HIDE DEF x, t
  <2>4. ASSUME task'[s] = t, UNCHANGED task[Reconciler], state'[s] = x, NatOf(s)' = NatOf(s)
        PROVE  OwnInv(s)'
    <3>1. PhaseFits(s)' /\ NatFits(s)'
      BY <2>2, <2>3, <2>4 DEF PhaseFits, NatFits
    <3>2. Known(s) => PassFits(s)'
      BY <1>0, <1>2, <2>1, <2>2, <2>3, <2>4 DEF OwnInv, PassFits, Finalizing, Reconciling
    <3> QED BY <1>0, <3>1, <3>2 DEF OwnInv, Known
  <2> QED BY <1>0, <2>1, <2>4, WriteOwn
<1> QED BY <1>3, <1>4, <1>5, <1>6

\* What the removal of s by w does at each of its points, on which it turns to t.
RemovalStep(w, s, t) ==
  /\ Become(w, t) /\ (t.pc \in RemovalPcs => t.then = task[w].then /\ t.copy = task[w].copy)
  /\ \/ /\ task[w].pc = "stop" /\ t.pc = "unpublish" /\ t.sb = s
        /\ UNCHANGED <<state, strayed>> /\ NatOf(s)' = NatOf(s) /\ pod'[s] \in {pod[s], NoPod}
     \/ /\ task[w].pc = "unpublish" /\ t.pc = "unhook" /\ t.sb = s
        /\ UNCHANGED <<state, pod, strayed>> /\ NatOf(s)' = {}
     \/ /\ task[w].pc = "unhook" /\ t.pc = (IF task[w].then = "mark" THEN "mark" ELSE "erase")
        /\ t.sb = s /\ UNCHANGED <<state, pod, strayed>> /\ NatOf(s)' = NatOf(s)
     \/ /\ task[w].pc = "erase" /\ task[w].then # "mark"
        /\ t.pc = (CASE task[w].then = "save"  -> "save"
                     [] task[w].then = "erase" -> "idle"
                     [] task[w].then = "visit" -> "visit")
        /\ state' = [state EXCEPT ![s] = NoState] /\ UNCHANGED pod /\ NatOf(s)' = NatOf(s)
        /\ strayed' = (strayed \/ (w = Reconciler /\ s \in overlooked))

LEMMA TakeDownDoes ==
  ASSUME BaseInv, NEW w \in Worker, TakeDown(w), NEW s, s = task[w].sb
  PROVE  /\ s \in Sandbox /\ task[w].pc \in RemovalPcs /\ UNCHANGED <<pass, overlooked>>
         /\ \A r \in Sandbox \ {s} : /\ state'[r] = state[r] /\ pod'[r] = pod[r]
                                     /\ NatOf(r)' = NatOf(r)
         /\ \E t : RemovalStep(w, s, t)
<1>0. task[w].pc \in RemovalPcs
  BY DEF TakeDown, StopPod, Unpublish, Unhook, EraseState, RemovalPcs
<1>1. /\ task[w] \in Task /\ TaskOK(w, task[w], creates) /\ s \in Sandbox
      /\ UNCHANGED <<pass, overlooked>>
  BY <1>0, Up DEF TaskOK, RemovalPcs, TakeDown, StopPod, Unpublish, Unhook, EraseState, past
<1>2. \A pc \in Pcs : LET t == [task[w] EXCEPT !.pc = pc]
                      IN  t.pc = pc /\ t.then = task[w].then /\ t.copy = task[w].copy /\ t.sb = s
  BY <1>1, ToForm
<1>3. CASE StopPod(w)
  <2> DEFINE t == [task[w] EXCEPT !.pc = "unpublish"]
  <2>1. Become(w, t) /\ t.pc = "unpublish" /\ t.then = task[w].then /\ t.copy = task[w].copy /\ t.sb = s
    BY <1>2, <1>3 DEF StopPod, To, Pcs
  <2> HIDE DEF t
  <2>2. /\ pod'[s] \in {pod[s], NoPod} /\ \A r \in Sandbox \ {s} : pod'[r] = pod[r]
        /\ UNCHANGED <<state, nat, strayed>> /\ task[w].pc = "stop"
    BY <1>1, <1>3 DEF StopPod, store, past, BaseInv, PodsOK
  <2>3. \A r \in Sandbox : NatOf(r)' = NatOf(r)
    BY <2>2, NatKept
  <2> QED BY <1>0, <1>1, <2>1, <2>2, <2>3 DEF RemovalStep
<1>4. CASE Unpublish(w)
  <2> DEFINE t == [task[w] EXCEPT !.pc = "unhook"]
  <2>1. Become(w, t) /\ t.pc = "unhook" /\ t.then = task[w].then /\ t.copy = task[w].copy /\ t.sb = s
    BY <1>2, <1>4 DEF Unpublish, To, Pcs
  <2> HIDE DEF t
  <2>2. \A r \in Sandbox : NatOf(r)' = IF r \in {s} THEN {} ELSE NatOf(r)
    BY <1>4, NatWithout DEF Unpublish, BaseInv
  <2>3. UNCHANGED <<state, pod, strayed>> /\ task[w].pc = "unpublish"
    BY <1>4 DEF Unpublish, store, past
  <2> QED BY <1>0, <1>1, <2>1, <2>2, <2>3 DEF RemovalStep
<1>5. CASE Unhook(w)
  <2> DEFINE pc == IF task[w].then = "mark" THEN "mark" ELSE "erase"
             t == [task[w] EXCEPT !.pc = pc]
  <2>1. Become(w, t) /\ t.pc = pc /\ t.then = task[w].then /\ t.copy = task[w].copy /\ t.sb = s
    BY <1>2, <1>5 DEF Unhook, To, Pcs
  <2> HIDE DEF t
  <2>2. \A r \in Sandbox : NatOf(r)' = NatOf(r)
    BY <1>5, NatKept DEF Unhook
  <2>3. UNCHANGED <<state, pod, strayed>> /\ task[w].pc = "unhook"
    BY <1>5 DEF Unhook, past
  <2> QED BY <1>0, <1>1, <2>1, <2>2, <2>3 DEF RemovalStep
<1>6. CASE EraseState(w)
  <2>1. /\ state' = [state EXCEPT ![s] = NoState] /\ task[w].pc = "erase"
        /\ \A r \in Sandbox \ {s} : state'[r] = state[r]
        /\ UNCHANGED <<pod, nat>> /\ strayed' = (strayed \/ (w = Reconciler /\ s \in overlooked))
    BY <1>1, <1>6 DEF EraseState, BaseInv, FilesOK
  <2>2. \A r \in Sandbox : NatOf(r)' = NatOf(r)
    BY <2>1, NatKept
  <2>3. task[w].then \in {"save", "erase", "visit"} /\ Idle(w).pc = "idle" /\ Idle(w) \in Task
    BY <1>0, <1>1, <2>1, IdleForm DEF TaskOK
  <2> DEFINE pc == CASE task[w].then = "save"  -> "save"
                     [] task[w].then = "erase" -> "idle"
                     [] task[w].then = "visit" -> "visit"
  <2>4. \E t : Become(w, t) /\ t.pc = pc
    <3>1. CASE task[w].then = "save"
      <4> DEFINE t == [task[w] EXCEPT !.pc = "save"]
      <4>1. Become(w, t) /\ t.pc = "save"
        BY <1>2, <1>6, <3>1 DEF EraseState, Pcs
      <4> HIDE DEF t
      <4> QED BY <3>1, <4>1
    <3>2. CASE task[w].then = "erase"
      BY <1>6, <2>3, <3>2 DEF EraseState
    <3>3. CASE task[w].then = "visit"
      <4> DEFINE t == [Idle(w) EXCEPT !.pc = "visit"]
      <4>1. t.pc = "visit"
        BY <2>3, ToForm DEF Pcs
      <4>2. Become(w, t)
        BY <1>6, <3>3 DEF EraseState
      <4> HIDE DEF t
      <4> QED BY <3>3, <4>1, <4>2
    <3> QED BY <2>3, <3>1, <3>2, <3>3
  <2>5. pc \notin RemovalPcs
    BY <2>3 DEF RemovalPcs
  <2> QED BY <1>0, <1>1, <2>1, <2>2, <2>3, <2>4, <2>5 DEF RemovalStep
<1> QED BY <1>0, <1>1, <1>3, <1>4, <1>5, <1>6 DEF TakeDown

LEMMA RemovalOwn ==
  ASSUME BaseInv, Owned, NEW s \in Sandbox, TakeDown(s)
  PROVE  Owned'
<1>0. s \in Worker /\ s # Reconciler /\ OwnInv(s) /\ task[s].pc \in RemovalPcs /\ task[s].sb = s
  <2>1. s \in Worker /\ s # Reconciler
    BY Constants DEF Worker
  <2> QED BY <2>1 DEF Owned, BaseInv, TasksOK, TaskOK, TakeDown, StopPod, Unpublish, Unhook, EraseState,
                      RemovalPcs
<1>1. task[s].then \in {"save", "erase", "mark"} /\ state[s].phase # "running"
  BY <1>0 DEF RemovalPcs, OwnInv, PhaseFits, BaseInv, TasksOK, TaskOK
<1>2. PICK t : RemovalStep(s, s, t)
  BY <1>0, TakeDownDoes
<1>3. /\ UNCHANGED <<pass, overlooked>>
      /\ \A r \in Sandbox \ {s} : state'[r] = state[r] /\ pod'[r] = pod[r] /\ NatOf(r)' = NatOf(r)
  BY <1>0, TakeDownDoes
<1>4. state'[s] = state[s] \/ (state'[s] = NoState /\ t.pc \in {"save", "idle"})
  BY <1>0, <1>1, <1>2 DEF RemovalStep, BaseInv, FilesOK
<1>5. /\ t.pc \in {"unpublish", "unhook", "mark", "erase", "save", "idle"}
      /\ t.pc \notin MakingPcs /\ t.pc # "finish"
  BY <1>1, <1>2 DEF RemovalStep, MakingPcs, LinePcs
<1>6. NatOf(s)' # {} => NatOf(s) # {} /\ t.pc = "unpublish"
  BY <1>0, <1>1, <1>2 DEF RemovalStep, OwnInv, NatFits, BarePcs
<1>7. ASSUME task'[s] = t, UNCHANGED task[Reconciler] PROVE OwnInv(s)' /\ PortsApart'
  <2>1. state'[s].phase # "none" => state'[s] = state[s]
    BY <1>4, Constants
  <2>2. PhaseFits(s)'
    <3>1. t.pc = "save" => state'[s].phase = "none"
      BY <1>0, <1>1, <1>2, Constants DEF RemovalStep, BaseInv, FilesOK
    <3>2. t.pc \in RemovalPcs => t.then = task[s].then
      BY <1>2 DEF RemovalStep
    <3>3. state[s].phase = "none" => state'[s].phase = "none"
      BY <2>1
    <3>4. state'[s].phase # "running"
      BY <1>1, <1>4, Constants
    <3> QED BY <1>0, <1>5, <1>7, <3>1, <3>2, <3>3, <3>4 DEF OwnInv, PhaseFits
  <2>3. NatFits(s)'
    <3>1. state'[s].phase # "running"
      BY <1>1, <1>4, Constants
    <3>2. t.pc = "unpublish" => state'[s] = state[s]
      BY <1>4
    <3>3. "unpublish" \notin BarePcs
      BY DEF BarePcs
    <3> QED BY <1>0, <1>5, <1>6, <1>7, <3>1, <3>2, <3>3 DEF OwnInv, NatFits
  <2>4. ASSUME Known(s) PROVE PassFits(s)'
    <3>1. (Finalizing(s)' <=> Finalizing(s)) /\ (Reconciling' <=> Reconciling)
      BY <1>7 DEF Finalizing, Reconciling
    <3>2. Finalizing(s) => t.pc # "mark" /\ (t.pc \in RemovalPcs => t.then # "mark")
      <4>1. Finalizing(s) => task[s].then # "mark"
        BY <1>0, <2>4 DEF OwnInv, PassFits
      <4> QED BY <1>1, <1>2, <4>1 DEF RemovalStep
    <3>3. state'[s].phase # "running"
      BY <1>1, <1>4, Constants
    <3>4. NatOf(s) = {} => NatOf(s)' = {}
      BY <1>6
    <3>5. task[s].pc \notin MakingPcs
      BY <1>0 DEF MakingPcs, LinePcs, RemovalPcs
    <3> QED BY <1>0, <1>3, <1>5, <1>7, <2>1, <2>4, <3>1, <3>2, <3>3, <3>4, <3>5 DEF OwnInv, PassFits
  <2>5. PortsApart'
    <3>1. \A r \in Sandbox : state'[r].phase # "none" => state[r].phase # "none"
      BY <1>3, <2>1
    <3> QED BY <3>1, StayApart DEF Owned
  <2> QED BY <1>3, <2>2, <2>3, <2>4, <2>5 DEF OwnInv, Known
<1> QED BY <1>2, <1>3, <1>7, OwnTurn DEF RemovalStep

\* The reconcile loop turns to t, which is about s when it is a removal at all.
LEMMA LoopTurn ==
  ASSUME BaseInv, Owned, NEW s \in Sandbox, NEW t, Become(Reconciler, t),
         t.pc \in RemovalPcs => t.sb = s, Reconciling, UNCHANGED <<overlooked, pass.list>>,
         \A r \in Sandbox \ {s} : state'[r] = state[r] /\ pod'[r] = pod[r] /\ NatOf(r)' = NatOf(r),
         task'[Reconciler] = t /\ UNCHANGED task[s] => OwnInv(s)' /\ PortsApart'
  PROVE  Owned'
<1>1. \A v \in Worker : task'[v] = IF v = Reconciler THEN t ELSE task[v]
  BY DEF BaseInv, TasksOK, Become
<1>2. Reconciler \in Worker /\ \A r \in Sandbox : r \in Worker /\ r # Reconciler
  BY Constants DEF Worker
<1>3. ASSUME NEW r \in Sandbox \ {s} PROVE OwnInv(r)'
  <2>1. ~ Finalizing(r)'
    BY <1>1, <1>2 DEF Finalizing
  <2>2. Left(r)
    BY <1>1, <1>2, <2>1 DEF Left
  <2> QED BY <2>2, LeftOwn DEF Owned
<1> QED BY <1>1, <1>2, <1>3 DEF Owned

LEMMA LoopRemovalOwn ==
  ASSUME BaseInv, Owned, TakeDown(Reconciler)
  PROVE  strayed' \/ Owned'
<1> DEFINE R == task[Reconciler]
<1> SUFFICES ASSUME NEW s, s = R.sb PROVE strayed' \/ Owned'
  OBVIOUS
<1>0. /\ Reconciler \in Worker /\ s \in Sandbox /\ R.pc \in RemovalPcs /\ R.then = "visit"
      /\ UNCHANGED <<pass, overlooked>>
      /\ \A r \in Sandbox \ {s} : state'[r] = state[r] /\ pod'[r] = pod[r] /\ NatOf(r)' = NatOf(r)
  <2>1. Reconciler \in Worker
    BY DEF Worker
  <2> QED BY <2>1, TakeDownDoes DEF BaseInv, TasksOK, TaskOK
<1>1. PICK t : RemovalStep(Reconciler, s, t)
  BY <1>0, TakeDownDoes
<1>2. OwnInv(s) /\ Finalizing(s) /\ Reconciling
  BY <1>0 DEF Owned, Finalizing, Reconciling, RemovalPcs
<1>3. t.pc \in {"unpublish", "unhook", "erase", "visit"} /\ (t.pc \in RemovalPcs => t.sb = s)
  BY <1>0, <1>1 DEF RemovalStep, RemovalPcs
<1>4. CASE R.pc = "erase" /\ s \in overlooked
  BY <1>1, <1>4 DEF RemovalStep
<1>5. CASE ~ (R.pc = "erase" /\ s \in overlooked)
  <2>1. state'[s] = state[s] \/ (R.pc = "erase" /\ state'[s] = NoState /\ Known(s))
    BY <1>0, <1>1, <1>5 DEF RemovalStep, BaseInv, FilesOK, Known
  <2>2. state'[s].phase # "none" => state'[s] = state[s]
    BY <2>1, Constants
  <2>3. /\ R.pc # "erase" => t.pc \in {"unpublish", "unhook", "erase"}
        /\ R.pc = "erase" => t.pc = "visit" /\ NatOf(s)' = NatOf(s)
        /\ NatOf(s)' # {} => NatOf(s)' = NatOf(s) /\ t.pc # "unhook"
        /\ t.pc = "erase" => R.pc = "unhook" /\ NatOf(s)' = NatOf(s)
    <3>1. R.pc = "unhook" => t.pc = "erase" /\ NatOf(s)' = NatOf(s)
      BY <1>0, <1>1 DEF RemovalStep
    <3>2. R.pc = "erase" => t.pc = "visit" /\ NatOf(s)' = NatOf(s)
      BY <1>0, <1>1 DEF RemovalStep
    <3>3. R.pc = "stop" => t.pc = "unpublish" /\ NatOf(s)' = NatOf(s)
      BY <1>1 DEF RemovalStep
    <3>4. R.pc = "unpublish" => t.pc = "unhook" /\ NatOf(s)' = {}
      BY <1>1 DEF RemovalStep
    <3> QED BY <1>0, <3>1, <3>2, <3>3, <3>4 DEF RemovalPcs
  <2>4. pod'[s] \in {pod[s], NoPod}
    BY <1>1 DEF RemovalStep
  <2>5. state'[s] = state[s] /\ Unhealthy(s, state[s]) => Unhealthy(s, state[s])'
    <3>1. NoPod.name = 0 /\ ~ NoPod.well
      BY Constants
    <3>2. CASE pod'[s] = pod[s]
      BY <3>2 DEF Unhealthy
    <3>3. CASE pod'[s] = NoPod
      BY <3>1, <3>3 DEF Unhealthy
    <3> QED BY <2>4, <3>2, <3>3
  <2>6. ASSUME task'[Reconciler] = t, UNCHANGED task[s] PROVE OwnInv(s)' /\ PortsApart'
    <3>1. Known(s) => /\ task[s].pc \notin MakingPcs \cup {"mark"}
                      /\ task[s].pc \in RemovalPcs => task[s].then # "mark"
                      /\ state[s].phase = "running" => Unhealthy(s, state[s])
                      /\ R.pc \in {"unhook", "erase"} => NatOf(s) = {}
      BY <1>2 DEF OwnInv, PassFits
    <3>2. PhaseFits(s)'
      <4>1. CASE state'[s] = state[s]
        BY <1>2, <2>6, <4>1 DEF OwnInv, PhaseFits
      <4>2. CASE state'[s] = NoState /\ Known(s)
        BY <2>6, <3>1, <4>2, Constants DEF PhaseFits
      <4> QED BY <2>1, <4>1, <4>2
    <3>3. NatFits(s)'
      <4>1. NatOf(s)' # {} => state'[s].phase # "none"
        <5>1. NatOf(s)' # {} => NatOf(s) # {}
          BY <2>3
        <5>2. NatOf(s) # {} => state[s].phase # "none"
          BY <1>2 DEF OwnInv, NatFits
        <5>3. NatOf(s)' # {} => state'[s] = state[s]
          BY <2>1, <2>3, <3>1
        <5> QED BY <5>1, <5>2, <5>3
      <4>2. task[s].pc \in BarePcs => NatOf(s)' = {}
        BY <1>2, <2>3 DEF OwnInv, NatFits
      <4>3. Known(s) => task[s].pc # "finish"
        BY <3>1 DEF MakingPcs, LinePcs
      <4>4. Known(s) /\ state'[s].phase = "running" => Unhealthy(s, state[s])'
        <5>1. state'[s].phase = "running" => state'[s] = state[s]
          BY <2>1, Constants
        <5> QED BY <2>5, <3>1, <5>1
      <4> QED BY <1>0, <2>6, <4>1, <4>2, <4>3, <4>4 DEF NatFits, Known
    <3>4. ASSUME Known(s) PROVE PassFits(s)'
      <4>1. Finalizing(s)' =>
               /\ task'[s].pc \notin MakingPcs \cup {"mark"}
               /\ task'[s].pc \in RemovalPcs => task'[s].then # "mark"
               /\ state'[s].phase = "running" => Unhealthy(s, state[s])'
               /\ task'[Reconciler].pc \in {"unhook", "erase"} => NatOf(s)' = {}
        <5>1. state'[s].phase = "running" => Unhealthy(s, state[s])'
          <6>1. state'[s].phase = "running" => state'[s] = state[s]
            BY <2>1, Constants
          <6> QED BY <2>5, <3>1, <3>4, <6>1
        <5>2. t.pc \in {"unhook", "erase"} => NatOf(s)' = {}
          BY <2>3, <3>1, <3>4
        <5> QED BY <2>6, <3>1, <3>4, <5>1, <5>2
      <4>2. state'[s].phase # "none" => pass'.list[s].phase # "none"
        BY <1>0, <1>2, <2>2, <3>4 DEF OwnInv, PassFits
      <4>3. pass'.list[s].phase \in {"running", "error"} =>
              /\ task'[s].pc \notin MakingPcs
              /\ state'[s].phase # "none" => /\ pass'.list[s].ip = state'[s].ip
                                             /\ pass'.list[s].pod = state'[s].pod
        BY <1>0, <1>2, <2>2, <2>6, <3>4 DEF OwnInv, PassFits
      <4> QED BY <4>1, <4>2, <4>3 DEF PassFits
    <3>5. PortsApart'
      <4>1. \A r \in Sandbox : state'[r].phase # "none" => state[r].phase # "none"
        BY <1>0, <2>2
      <4> QED BY <4>1, StayApart DEF Owned
    <3> QED BY <1>0, <3>2, <3>3, <3>4, <3>5 DEF OwnInv, Known
  <2>7. /\ Become(Reconciler, t) /\ UNCHANGED <<overlooked, pass.list>>
        /\ \A r \in Sandbox \ {s} : state'[r] = state[r] /\ pod'[r] = pod[r] /\ NatOf(r)' = NatOf(r)
    BY <1>0, <1>1 DEF RemovalStep
  <2> QED BY <1>0, <1>2, <1>3, <2>6, <2>7, LoopTurn
<1> QED BY <1>4, <1>5

LEMMA PassOwn ==
  ASSUME BaseInv, Owned,
         PassList \/ PassSweep \/ \E s \in Sandbox : PassSkip(s) \/ PassExpire(s) \/ PassFinalize(s)
  PROVE  Owned'
<1>0. /\ Reconciler \in Worker /\ (\A r \in Sandbox : r \in Worker /\ r # Reconciler)
      /\ task \in [Worker -> Task] /\ pass \in [list : [Sandbox -> State], todo : SUBSET Sandbox]
      /\ "visit" \notin RemovalPcs
  BY Constants DEF Worker, BaseInv, TasksOK, PassOK, RemovalPcs
<1>1. CASE PassList
  <2>1. /\ UNCHANGED <<state, pod>> /\ task'[Reconciler].pc = "visit" /\ PortsApart'
        /\ \A r \in Sandbox : task'[r] = task[r] /\ NatOf(r)' = NatOf(r)
    <3>1. \A r \in Sandbox : NatOf(r)' = NatOf(r)
      BY <1>1, NatKept DEF PassList
    <3> QED BY <1>0, <1>1, <3>1, StayApart DEF PassList, To, Become, store, Owned, Task
  <2>2. ASSUME NEW s \in Sandbox PROVE OwnInv(s)'
    <3>1. OwnInv(s) /\ PhaseFits(s)' /\ (Known(s)' => Known(s))
      BY <1>1, <2>1 DEF PassList, Owned, OwnInv, PhaseFits, Known
    <3>2. NatFits(s)'
      BY <2>1, <3>1 DEF OwnInv, NatFits, Published, Unhealthy
    <3>3. Known(s)' => pass'.list[s] = state[s]
      BY <1>1 DEF PassList, Known
    <3>4. Known(s)' => PassFits(s)'
      BY <1>0, <2>1, <3>1, <3>3 DEF OwnInv, PhaseFits, PassFits, Finalizing
    <3> QED BY <3>1, <3>2, <3>4 DEF OwnInv
  <2> QED BY <2>1, <2>2 DEF Owned
<1>2. CASE PassSweep
  <2>1. /\ UNCHANGED <<state, pod, overlooked>> /\ ~ Reconciling' /\ PortsApart' /\ Reconciling
        /\ \A r \in Sandbox : ~ Finalizing(r)' /\ task'[r] = task[r]
    BY <1>0, <1>2, IdleForm, StayApart
       DEF PassSweep, Become, store, past, Owned, Reconciling, Finalizing, RemovalPcs
  <2>2. \A r \in Sandbox : NatOf(r)' = IF r \in Sandbox \ Keep(pass.list) THEN {} ELSE NatOf(r)
    <3> DEFINE S == Sandbox \ Keep(pass.list)
    <3>1. RulesOK /\ nat' = Without(nat, Tagged(S))
      BY <1>2 DEF PassSweep, BaseInv
    <3> HIDE DEF S
    <3>2. \A r \in Sandbox : NatOf(r)' = IF r \in S THEN {} ELSE NatOf(r)
      BY <3>1, NatWithout
    <3> QED BY <3>2 DEF S
  <2>3. ASSUME NEW s \in Sandbox PROVE OwnInv(s)'
    <3>1. OwnInv(s) /\ PhaseFits(s)' /\ (Known(s)' <=> Known(s))
      BY <2>1 DEF Owned, OwnInv, PhaseFits, Known
    <3>2. NatOf(s)' = NatOf(s) \/ (NatOf(s)' = {} /\ pass.list[s].phase = "none")
      BY <2>2 DEF Keep, Listed
    <3>3. Known(s) /\ state[s].phase # "none" => NatOf(s)' = NatOf(s)
      BY <2>1, <3>1, <3>2 DEF OwnInv, PassFits
    <3>4. task[s].pc = "finish" => state[s].phase # "none"
      BY <3>1 DEF OwnInv, PhaseFits, MakingPcs, LinePcs
    <3>5. NatFits(s)'
      BY <2>1, <3>1, <3>2, <3>3, <3>4 DEF OwnInv, NatFits, Published, Unhealthy
    <3>6. PassFits(s)'
      BY <2>1 DEF PassFits
    <3> QED BY <3>1, <3>5, <3>6 DEF OwnInv
  <2> QED BY <2>1, <2>3 DEF Owned
<1>3. ASSUME NEW s \in Sandbox, PassNext(s)
      PROVE  /\ UNCHANGED <<pod, nat, overlooked>> /\ pass'.list = pass.list
             /\ task[Reconciler].pc = "visit" /\ Reconciling /\ OwnInv(s) /\ state[s] \in State
             /\ \A r \in Sandbox : NatOf(r)' = NatOf(r)
  <2>1. \A r \in Sandbox : NatOf(r)' = NatOf(r)
    BY <1>3, NatKept DEF PassNext
  <2> QED BY <1>0, <1>3, <2>1 DEF PassNext, past, Reconciling, Owned, BaseInv, FilesOK
<1>4. ASSUME NEW s \in Sandbox, PassSkip(s) PROVE Owned'
  <2>1. UNCHANGED <<task, state>> /\ PassNext(s)
    BY <1>4 DEF PassSkip
  <2>2. \A r \in Sandbox : Left(r)
    BY <1>3, <2>1 DEF Left, Reconciling
  <2> QED BY <2>1, <2>2, LeftOwn, StayApart DEF Owned
<1>5. ASSUME NEW s \in Sandbox, PassExpire(s) PROVE Owned'
  <2>1. /\ UNCHANGED task /\ PassNext(s) /\ task[s].pc = "idle" /\ state[s].phase = "creating"
        /\ pass.list[s].phase = "creating" /\ state' = [state EXCEPT ![s].phase = "error"]
    BY <1>5 DEF PassExpire, Abandoned
  <2>2. /\ state'[s].phase = "error"
        /\ \A r \in Sandbox \ {s} : state'[r] = state[r]
    BY <1>3, <2>1 DEF BaseInv, FilesOK, State
  <2>3. \A r \in Sandbox \ {s} : Left(r)
    BY <1>3, <2>1, <2>2 DEF Left, Reconciling
  <2>4. PhaseFits(s)' /\ NatFits(s)'
    BY <1>3, <2>1, <2>2 DEF PhaseFits, NatFits, MakingPcs, LinePcs, RemovalPcs, BarePcs
  <2>5. PassFits(s)'
    BY <1>0, <1>3, <2>1, <2>2 DEF PassFits, Finalizing
  <2>6. PortsApart'
    <3>1. \A r \in Sandbox : state'[r].phase # "none" => state[r].phase # "none"
      BY <2>1, <2>2
    <3> QED BY <3>1, StayApart DEF Owned
  <2> QED BY <2>3, <2>4, <2>5, <2>6, LeftOwn DEF Owned, OwnInv
<1>6. ASSUME NEW s \in Sandbox, PassFinalize(s) PROVE Owned'
  <2> DEFINE x == pass.list[s]
             t == Removal(s, pass.list[s], "visit")
  <2>1. /\ UNCHANGED state /\ PassNext(s) /\ task[s].pc = "idle" /\ x.phase \in {"running", "error"}
        /\ Unhealthy(s, x) /\ Become(Reconciler, t)
    BY <1>6 DEF PassFinalize
  <2>2. t.pc = "stop" /\ t.sb = s
    BY DEF Removal, At
  <2> HIDE DEF t
  <2>3. ASSUME task'[Reconciler] = t, UNCHANGED task[s] PROVE OwnInv(s)' /\ PortsApart'
    <3>1. PhaseFits(s)' /\ NatFits(s)'
      BY <1>3, <2>1, <2>3 DEF OwnInv, PhaseFits, NatFits, Known, Unhealthy, Published
    <3>2. Known(s) /\ state[s].phase = "running" => Unhealthy(s, state[s])
      BY <1>3, <2>1 DEF OwnInv, PassFits, Unhealthy
    <3>3. Known(s) => PassFits(s)'
      <4>1. "idle" \notin MakingPcs \cup {"mark"} \cup RemovalPcs
        BY DEF MakingPcs, LinePcs, RemovalPcs
      <4>2. Unhealthy(s, state[s])' <=> Unhealthy(s, state[s])
        BY <1>3, <2>1 DEF Unhealthy
      <4> QED BY <1>3, <2>1, <2>2, <2>3, <3>2, <4>1, <4>2 DEF OwnInv, PassFits
    <3> QED BY <1>3, <2>1, <3>1, <3>3, StayApart DEF OwnInv, Owned, Known
  <2> QED BY <1>3, <2>1, <2>2, <2>3, LoopTurn
<1> QED BY <1>1, <1>2, <1>4, <1>5, <1>6

LEMMA WorldOwn ==
  ASSUME BaseInv, Owned, Restart \/ Crash \/ \E s \in Sandbox : ContainerExits(s)
  PROVE  Owned'
<1>0. UNCHANGED <<state, nat, overlooked>>
  BY DEF Restart, EnsureBegin, EnsureGlobalChains, Crash, ContainerExits, store, past
<1>1. PortsApart' /\ \A r \in Sandbox : OwnInv(r) /\ NatOf(r)' = NatOf(r)
  BY <1>0, StayApart, NatKept DEF Owned
<1>2. CASE Restart
  <2>1. \A r \in Sandbox : Left(r)
    BY <1>0, <1>1, <1>2 DEF Restart, EnsureBegin, EnsureGlobalChains, Left, Reconciling
  <2> QED BY <1>1, <2>1, LeftOwn DEF Owned
<1>3. CASE Crash
  <2>1. ~ Reconciling' /\ UNCHANGED pod /\ \A r \in Sandbox : task'[r].pc = "idle" /\ ~ Finalizing(r)'
    BY <1>3, IdleForm DEF Crash, Reconciling, Finalizing, Worker, RemovalPcs
  <2>2. ASSUME NEW r \in Sandbox PROVE OwnInv(r)'
    <3>1. PhaseFits(r)' /\ PassFits(r)'
      BY <2>1 DEF PhaseFits, PassFits, MakingPcs, LinePcs, RemovalPcs
    <3>2. NatFits(r)'
      BY <1>0, <1>1, <2>1 DEF OwnInv, NatFits, BarePcs, Known, Unhealthy, Published
    <3> QED BY <3>1, <3>2 DEF OwnInv
  <2> QED BY <1>1, <2>2 DEF Owned
<1>4. ASSUME NEW s \in Sandbox, ContainerExits(s) PROVE Owned'
  <2>1. /\ UNCHANGED <<task, pass>> /\ ~ pod'[s].well /\ \A r \in Sandbox \ {s} : pod'[r] = pod[r]
    BY <1>4 DEF ContainerExits, BaseInv, PodsOK, Pod
  <2>2. \A r \in Sandbox \ {s} : Left(r)
    BY <1>0, <1>1, <2>1 DEF Left, Reconciling
  <2>3. Unhealthy(s, state[s])'
    BY <2>1 DEF Unhealthy
  <2>4. PhaseFits(s)' /\ NatFits(s)'
    BY <1>0, <1>1, <2>1, <2>3 DEF OwnInv, PhaseFits, NatFits, Known, Published
  <2>5. Known(s) => PassFits(s)'
    BY <1>0, <1>1, <2>1, <2>3 DEF OwnInv, PassFits, Finalizing, Reconciling
  <2> QED BY <1>0, <1>1, <2>2, <2>4, <2>5, LeftOwn DEF Owned, OwnInv, Known
<1> QED BY <1>2, <1>3, <1>4

LEMMA NextOwn == NatInv /\ [Next]_vars => NatInv'
<1> SUFFICES ASSUME NatInv, [Next]_vars PROVE NatInv'
  OBVIOUS
<1>1. BaseInv /\ BaseInv'
  BY NextTypes DEF NatInv
<1>2. CASE UNCHANGED vars
  <2>1. UNCHANGED <<state, pod, nat, task, pass, overlooked, strayed>>
    BY <1>2 DEF vars, store, past
  <2>2. Owned => \A r \in Sandbox : Left(r)
    BY <2>1, NatKept DEF Left, Reconciling
  <2>3. Owned => Owned'
    BY <2>1, <2>2, LeftOwn, StayApart DEF Owned
  <2> QED BY <1>1, <2>1, <2>3 DEF NatInv
<1>3. CASE Next /\ strayed
  <2>1. strayed'
    <3>1. \A w : TakeDown(w) => strayed'
      BY <1>3 DEF TakeDown, StopPod, Unpublish, Unhook, EraseState, past
    <3>2. \A s : Work(s) => strayed'
      BY <1>3, <3>1 DEF Work, CreateSave, ProvisionSweep, ProvisionRun, ProvisionLimits,
           ProvisionStart, ProvisionHook, ProvisionPolicy, ProvisionPublish, ProvisionFinish,
           ProvisionFail, MarkError, past
    <3>3. \A s : DeleteBegin(s) \/ ContainerExits(s) \/ (\E open \in BOOLEAN : CreateBegin(s, open))
                 => strayed'
      BY <1>3 DEF DeleteBegin, ContainerExits, CreateBegin, past
    <3>4. Pass => strayed'
      BY <1>3, <3>1 DEF Pass, PassList, PassSweep, PassSkip, PassExpire, PassFinalize, PassNext, past
    <3>5. Restart \/ Crash => strayed'
      BY <1>3 DEF Restart, EnsureBegin, EnsureGlobalChains, Crash, past
    <3> QED BY <1>3, <3>2, <3>3, <3>4, <3>5 DEF Next
  <2> QED BY <1>1, <2>1 DEF NatInv
<1>4. CASE Next /\ ~ strayed
  <2>1. Owned
    BY <1>4 DEF NatInv
  <2>2. ASSUME NEW s \in Sandbox, Work(s) PROVE Owned'
    BY <1>1, <2>1, <2>2, CreateSaveOwn, ProvisionOwn, ProvisionPublishOwn, ProvisionEndOwn, RemovalOwn
       DEF Work
  <2>3. strayed' \/ Owned'
    BY <1>1, <1>4, <2>1, <2>2, CreateBeginOwn, ProvisionEndOwn, LoopRemovalOwn, PassOwn, WorldOwn
       DEF Next, Pass
  <2> QED BY <1>1, <2>3 DEF NatInv
<1> QED BY <1>2, <1>3, <1>4

LEMMA InitOwn == Init => NatInv
<1> SUFFICES ASSUME Init PROVE NatInv
  OBVIOUS
<1>1. BaseInv
  BY InitTypes
<1>2. /\ ~ Reconciling
      /\ \A s \in Sandbox : /\ task[s].pc = "idle" /\ state[s].phase = "none" /\ NatOf(s) = {}
                            /\ ~ Finalizing(s)
  BY Constants, IdleForm DEF Init, NatOf, ToSet, Finalizing, RemovalPcs, Worker, Reconciling
<1>3. PortsApart
  BY <1>2 DEF PortsApart
<1>4. \A s \in Sandbox : OwnInv(s)
  BY <1>2 DEF OwnInv, PhaseFits, PassFits, NatFits, MakingPcs, LinePcs, RemovalPcs, BarePcs
<1> QED BY <1>1, <1>3, <1>4 DEF NatInv, Owned

\* The host port of a running sandbox leads to it, for every number of sandboxes that
\* share ports, creations, deletions, passes, faults and stops of sbxlet
\* (ApplyHostPortDNAT, DeleteHostPortDNATBySandbox, DeleteOrphanHostPortDNAT).
THEOREM PublishedAlwaysReachesOwner == Spec => []PublishedReachesOwner
<1>1. NatInv => PublishedReachesOwner
  <2> SUFFICES ASSUME NatInv, NEW s \in Sandbox, Serving(s)
               PROVE  Target(PortOf[s]) = state[s].ip
    BY DEF PublishedReachesOwner
  <2>1. /\ Owned /\ OwnInv(s) /\ state[s].phase = "running" /\ Known(s) /\ ~ Unhealthy(s, state[s])
    BY DEF NatInv, Owned, Serving, Known
  <2>2. NatOf(s) = {[to |-> s, ip |-> state[s].ip]}
    BY <2>1 DEF OwnInv, NatFits, Published
  <2>3. nat \in Seq(Dnat)
    BY DEF NatInv, BaseInv, RulesOK
  <2>4. \E d \in ToSet(nat) : PortOf[d.to] = PortOf[s]
    BY <2>2 DEF NatOf
  <2>5. ASSUME NEW d \in ToSet(nat), PortOf[d.to] = PortOf[s] PROVE d.ip = state[s].ip
    <3>1. d.to \in Sandbox
      <4>1. d \in Dnat
        BY <2>3 DEF ToSet
      <4> QED BY <4>1 DEF Dnat
    <3>2. state[d.to].phase # "none"
      BY <2>1, <3>1 DEF Owned, OwnInv, NatFits, NatOf
    <3>3. d.to = s
      BY <2>1, <2>5, <3>1, <3>2 DEF Owned, PortsApart
    <3>4. d \in NatOf(s)
      BY <3>3 DEF NatOf
    <3> QED BY <2>2, <3>4
  <2> QED BY <2>3, <2>4, <2>5, TargetIs
<1> QED BY <1>1, InitOwn, NextOwn, PTL DEF Spec

-----------------------------------------------------------------------------
(***************************************************************************)
(* Hooks, chains, early accepts and cgroups.  As long as sbxlet has not    *)
(* stopped, they are those of the address its sandbox goes by: the one in  *)
(* its file, or the one its goroutine has at hand.  A removal knows the    *)
(* same address, so that it takes everything.  What a pass removes         *)
(* although it did not see it created is given up: its state is erased in  *)
(* the end.                                                                *)
(***************************************************************************)
HooksOf(s) == {h \in ToSet(hooks) : h[2] = s}

Clean(s) == HooksOf(s) = {} /\ rules[s] = <<>>

Full(s, x) == HooksOf(s) = {<<x.ip, s>>} /\ rules[s] = <<"private", Decision(x.open)>>

\* The address s goes by.
Address(s) ==
  IF task[s].pc = "idle" THEN state[s].ip
  ELSE IF \/ task[s].pc \in {"policy", "publish", "finish", "fail"}
          \/ task[s].pc \in {"stop", "unpublish", "unhook"} /\ task[s].then # "save"
       THEN task[s].copy.ip ELSE NoIP

Erasing(s) == Finalizing(s) /\ task[Reconciler].pc = "erase"

Doomed(s) == Finalizing(s) /\ ~ Known(s)

AddressFits(s) ==
  /\ HooksOf(s) \subseteq {<<Address(s), s>>}
  /\ Address(s) = NoIP => rules[s] = <<>>
  /\ Finalizing(s) => Address(s) \in {NoIP, task[Reconciler].copy.ip}
  /\ Erasing(s) => Clean(s)

PolicyFits(s) ==
  /\ task[s].pc = "policy" => HooksOf(s) = {<<task[s].copy.ip, s>>} /\ rules[s] = <<>>
  /\ task[s].pc \in {"publish", "finish"} => Full(s, task[s].copy)
  /\ task[s].pc = "idle" /\ state[s].phase = "running" /\ ~ Finalizing(s) => Full(s, state[s])
  /\ task[s].pc \notin RemovalPcs /\ ~ Finalizing(s) => \A h \in HooksOf(s) : pod[s].ip = h[1]

PodFits(s) ==
  /\ task[s].pc \in {"start", "hook"} => pod[s].ip = task[s].copy.ip
  /\ task[s].pc \in MakingPcs \ {"sweep", "run", "fail"} => pod[s].name # 0
  /\ s \in leaves /\ pod[s].name = 0 =>
       \/ task[s].pc \in {"run", "fail", "stop", "unpublish", "unhook"}
       \/ Finalizing(s) /\ ~ Erasing(s)

LineInv(s) == AddressFits(s) /\ PolicyFits(s) /\ PodFits(s)

\* The early accept for f is there on account of s.
Holds(s, f) == Address(s) = f /\ ~ (Erasing(s) /\ Known(s))

Lines ==
  /\ \A s \in Sandbox : Doomed(s) \/ LineInv(s)
  /\ \A f \in ToSet(forward) \ {Jump} : \E s \in Sandbox : Holds(s, f)

RuleInv == NatInv /\ (crashes = 0 /\ ~ strayed => Lines)

\* What others do to a sandbox that they leave alone.
Untouched(s) ==
  /\ state'[s] = state[s] /\ pod'[s] = pod[s] /\ task'[s] = task[s]
  /\ HooksOf(s)' = HooksOf(s) /\ rules'[s] = rules[s] /\ (s \in leaves' <=> s \in leaves)
  /\ Finalizing(s)' <=> Finalizing(s)
  /\ Finalizing(s) => task'[Reconciler] = task[Reconciler] /\ (s \in overlooked' <=> s \in overlooked)

LEMMA UntouchedLine ==
  ASSUME NEW s \in Sandbox, Doomed(s) \/ LineInv(s), Untouched(s)
  PROVE  /\ Doomed(s)' \/ LineInv(s)'
         /\ \A f : Holds(s, f) => Address(s)' = f /\ ~ (Erasing(s) /\ Known(s))'
<1>1. Address(s)' = Address(s) /\ (Erasing(s)' <=> Erasing(s)) /\ (Clean(s)' <=> Clean(s))
  BY DEF Untouched, Address, Erasing, Clean
<1>2. Doomed(s) => Doomed(s)'
  BY DEF Untouched, Doomed, Known
<1>3. AddressFits(s) => AddressFits(s)'
  BY <1>1 DEF Untouched, AddressFits
<1>4. PolicyFits(s) => PolicyFits(s)'
  BY DEF Untouched, PolicyFits, Full
<1>5. PodFits(s) => PodFits(s)'
  BY <1>1 DEF Untouched, PodFits
<1>6. (Erasing(s) /\ Known(s))' => Erasing(s) /\ Known(s)
  BY <1>1 DEF Untouched, Erasing, Known
<1> QED BY <1>1, <1>2, <1>3, <1>4, <1>5, <1>6 DEF LineInv, Holds

\* A step that is about s alone.
LEMMA LineStep ==
  ASSUME Lines, NEW s \in Sandbox, \A r \in Sandbox \ {s} : Untouched(r),
         Doomed(s)' \/ LineInv(s)',
         \A f \in ToSet(forward') \ {Jump} :
           \/ Address(s)' = f /\ ~ (Erasing(s) /\ Known(s))'
           \/ f \in ToSet(forward) /\ ~ Holds(s, f)
  PROVE  Lines'
<1>1. \A r \in Sandbox \ {s} : /\ Doomed(r)' \/ LineInv(r)'
                               /\ \A f : Holds(r, f) => Address(r)' = f /\ ~ (Erasing(r) /\ Known(r))'
  BY UntouchedLine DEF Lines
<1>2. ASSUME NEW f \in ToSet(forward') \ {Jump}
      PROVE  \E r \in Sandbox : Address(r)' = f /\ ~ (Erasing(r) /\ Known(r))'
  BY <1>1 DEF Lines
<1>3. \A f \in ToSet(forward') \ {Jump} : \E r \in Sandbox : Holds(r, f)'
  BY <1>2 DEF Holds
<1> QED BY <1>1, <1>3 DEF Lines, ToSet

LEMMA HooksKept ==
  ASSUME UNCHANGED hooks
  PROVE  \A s \in Sandbox : HooksOf(s)' = HooksOf(s)
BY DEF HooksOf

LEMMA HooksWithout ==
  ASSUME RulesOK, NEW s \in Sandbox, NEW ip, hooks' = Without(hooks, {<<ip, s>>})
  PROVE  \A r \in Sandbox : HooksOf(r)' = IF r = s THEN HooksOf(r) \ {<<ip, s>>} ELSE HooksOf(r)
<1> DEFINE h0 == <<ip, s>>
<1>1. hooks \in Seq(IP \X Sandbox) /\ h0[2] = s /\ hooks' = Without(hooks, {h0})
  BY DEF RulesOK
<1> HIDE DEF h0
<1>2. ToSet(hooks') = ToSet(hooks) \ {h0}
  BY <1>1, WithoutIs
<1>3. \A r \in Sandbox : HooksOf(r)' = IF r = s THEN HooksOf(r) \ {h0} ELSE HooksOf(r)
  BY <1>1, <1>2 DEF HooksOf
<1> QED BY <1>3 DEF h0

LEMMA HooksMore ==
  ASSUME RulesOK, NEW s \in Sandbox, NEW ip \in IP, hooks' = AppendUnique(hooks, <<ip, s>>)
  PROVE  \A r \in Sandbox : HooksOf(r)' = IF r = s THEN HooksOf(r) \cup {<<ip, s>>} ELSE HooksOf(r)
<1> DEFINE h0 == <<ip, s>>
<1>1. /\ hooks \in Seq(IP \X Sandbox) /\ h0 \in IP \X Sandbox /\ h0[2] = s
      /\ hooks' = AppendUnique(hooks, h0)
  BY DEF RulesOK
<1> HIDE DEF h0
<1>2. ToSet(hooks') = ToSet(hooks) \cup {h0}
  BY <1>1, AppendUniqueIs
<1>3. \A r \in Sandbox : HooksOf(r)' = IF r = s THEN HooksOf(r) \cup {h0} ELSE HooksOf(r)
  BY <1>1, <1>2 DEF HooksOf
<1> QED BY <1>3 DEF h0

\* Without an address there is neither hook nor rule.
LEMMA NoAddress ==
  ASSUME BaseInv, NEW s \in Sandbox, AddressFits(s), Address(s) = NoIP
  PROVE  Clean(s)
<1>1. ToSet(hooks) \subseteq IP \X Sandbox
  BY DEF BaseInv, RulesOK, ToSet
<1>2. ASSUME NEW h \in HooksOf(s) PROVE FALSE
  <2>1. h \in IP \X Sandbox /\ h = <<NoIP, s>>
    BY <1>1 DEF HooksOf, AddressFits
  <2>2. h[1] \in IP /\ h[1] = NoIP
    BY <2>1
  <2> QED BY <2>2, Constants
<1> QED BY <1>2 DEF AddressFits, Clean

LEMMA AcceptsAddresses ==
  ASSUME BaseInv
  PROVE  \A f \in ToSet(forward) \ {Jump} : f \in IP /\ f # NoIP
BY Constants DEF BaseInv, ForwardOK, ToSet

\* The goroutine of s turns to t, and leaves the others alone.
LEMMA LineTurn ==
  ASSUME BaseInv, Lines, NEW s \in Sandbox, NEW t, Become(s, t),
         \A r \in Sandbox \ {s} : /\ state'[r] = state[r] /\ pod'[r] = pod[r]
                                  /\ HooksOf(r)' = HooksOf(r) /\ rules'[r] = rules[r]
                                  /\ r \in leaves' <=> r \in leaves
                                  /\ r \in overlooked' <=> r \in overlooked,
         (/\ task'[s] = t /\ UNCHANGED task[Reconciler]
          /\ (Finalizing(s)' <=> Finalizing(s)) /\ (Erasing(s)' <=> Erasing(s)))
           => /\ Doomed(s)' \/ LineInv(s)'
              /\ \A f \in ToSet(forward') \ {Jump} :
                   \/ Address(s)' = f /\ ~ (Erasing(s) /\ Known(s))'
                   \/ f \in ToSet(forward) /\ ~ Holds(s, f)
  PROVE  Lines'
<1>1. \A v \in Worker : task'[v] = IF v = s THEN t ELSE task[v]
  BY DEF BaseInv, TasksOK, Become
<1>2. s \in Worker /\ Reconciler \in Worker /\ Reconciler # s /\ \A r \in Sandbox : r \in Worker
  BY Constants DEF Worker
<1>3. /\ task'[s] = t /\ UNCHANGED task[Reconciler]
      /\ (Finalizing(s)' <=> Finalizing(s)) /\ (Erasing(s)' <=> Erasing(s))
  BY <1>1, <1>2 DEF Finalizing, Erasing
<1>4. ASSUME NEW r \in Sandbox \ {s} PROVE Untouched(r)
  BY <1>1, <1>2, <1>3 DEF Untouched, Finalizing
<1> QED BY <1>3, <1>4, LineStep

\* ... nor the rules of s.
LEMMA QuietLine ==
  ASSUME BaseInv, Lines, NEW s \in Sandbox, NEW t, Become(s, t), UNCHANGED <<filter, overlooked>>,
         \A r \in Sandbox \ {s} : /\ state'[r] = state[r] /\ pod'[r] = pod[r]
                                  /\ r \in leaves' <=> r \in leaves,
         (/\ task'[s] = t /\ UNCHANGED task[Reconciler]
          /\ (Finalizing(s)' <=> Finalizing(s)) /\ (Erasing(s)' <=> Erasing(s))
          /\ HooksOf(s)' = HooksOf(s) /\ UNCHANGED rules)
           => /\ LineInv(s) /\ ~ Doomed(s) => LineInv(s)'
              /\ Address(s) \in {NoIP, Address(s)'}
  PROVE  Lines'
<1>1. UNCHANGED <<forward, rules>> /\ \A r \in Sandbox : HooksOf(r)' = HooksOf(r)
  BY HooksKept DEF filter
<1>2. ASSUME task'[s] = t, UNCHANGED task[Reconciler],
             (Finalizing(s)' <=> Finalizing(s)), (Erasing(s)' <=> Erasing(s))
      PROVE  /\ Doomed(s)' \/ LineInv(s)'
             /\ \A f \in ToSet(forward') \ {Jump} :
                  \/ Address(s)' = f /\ ~ (Erasing(s) /\ Known(s))'
                  \/ f \in ToSet(forward) /\ ~ Holds(s, f)
  <2>1. (LineInv(s) /\ ~ Doomed(s) => LineInv(s)') /\ Address(s) \in {NoIP, Address(s)'}
    BY <1>1, <1>2
  <2>2. Doomed(s) => Doomed(s)'
    BY <1>2 DEF Doomed, Known
  <2>3. Doomed(s) \/ LineInv(s)
    BY DEF Lines
  <2>4. ASSUME NEW f \in ToSet(forward) \ {Jump}, Holds(s, f)
        PROVE  Address(s)' = f /\ ~ (Erasing(s) /\ Known(s))'
    <3>1. f # NoIP /\ Address(s) = f
      BY <2>4, AcceptsAddresses DEF Holds
    <3>2. ~ (Erasing(s) /\ Known(s))'
      BY <1>2, <2>4 DEF Holds, Known
    <3> QED BY <2>1, <3>1, <3>2
  <2>5. forward' = forward
    BY <1>1
  <2> QED BY <2>1, <2>2, <2>3, <2>4, <2>5
<1> QED BY <1>1, <1>2, LineTurn

\* Where there is neither hook nor rule, little can be wrong.
LEMMA CleanLine ==
  ASSUME NEW s \in Sandbox, Clean(s)', PodFits(s)',
         Finalizing(s)' => Address(s)' \in {NoIP, task'[Reconciler].copy.ip},
         task'[s].pc \notin {"policy", "publish", "finish"},
         task'[s].pc = "idle" /\ ~ Finalizing(s)' => state'[s].phase # "running"
  PROVE  LineInv(s)'
BY DEF LineInv, Clean, AddressFits, PolicyFits, Erasing

LEMMA NotFinalizing ==
  ASSUME Owned, NEW s \in Sandbox, ~ Doomed(s), task[s].pc \in MakingPcs \cup {"mark"}
  PROVE  ~ Finalizing(s)
BY DEF Owned, OwnInv, PassFits, Doomed

LEMMA CreateBeginLine ==
  ASSUME BaseInv, Lines, NEW s \in Sandbox, NEW open \in BOOLEAN, CreateBegin(s, open)
  PROVE  Lines'
<1> DEFINE x == [NoState EXCEPT !.open = open]
<1>0. /\ task[s].pc = "idle" /\ state[s] = NoState
      /\ UNCHANGED <<state, pod, leaves, filter, overlooked>>
  BY DEF CreateBegin, store, past, BaseInv, FilesOK
<1>1. PICK t : Become(s, t) /\ (t.pc = "save" \/ (t.pc = "stop" /\ t.then = "save"))
  <2>1. CASE Become(s, At("save", s, x))
    <3>1. At("save", s, x).pc = "save"
      BY DEF At
    <3> QED BY <2>1, <3>1
  <2>2. CASE \E ip \in OrphanAddress(s) :
               Become(s, Removal(s, [x EXCEPT !.pod = pod[s].name, !.ip = ip], "save"))
    <3>1. PICK ip : Become(s, Removal(s, [x EXCEPT !.pod = pod[s].name, !.ip = ip], "save"))
      BY <2>2
    <3> DEFINE t == Removal(s, [x EXCEPT !.pod = pod[s].name, !.ip = ip], "save")
    <3>2. t.pc = "stop" /\ t.then = "save" /\ Become(s, t)
      BY <3>1 DEF Removal, At
    <3> HIDE DEF t
    <3> QED BY <3>2
  <2> QED BY <2>1, <2>2 DEF CreateBegin
<1>2. Address(s) = NoIP
  BY <1>0, Constants DEF Address
<1>3. ASSUME task'[s] = t, Finalizing(s)' <=> Finalizing(s), Erasing(s)' <=> Erasing(s),
             HooksOf(s)' = HooksOf(s), UNCHANGED rules, LineInv(s)
      PROVE  LineInv(s)'
  <2>1. Clean(s)'
    BY <1>2, <1>3, NoAddress DEF Clean, LineInv
  <2>2. Address(s)' = NoIP /\ task'[s].pc \notin {"idle", "policy", "publish", "finish"}
    BY <1>1, <1>3 DEF Address
  <2>3. PodFits(s)'
    BY <1>0, <1>1, <1>3 DEF LineInv, PodFits, MakingPcs, LinePcs
  <2> QED BY <2>1, <2>2, <2>3, CleanLine
<1>4. \A r \in Sandbox \ {s} : /\ state'[r] = state[r] /\ pod'[r] = pod[r]
                                /\ r \in leaves' <=> r \in leaves
  BY <1>0
<1>5. Address(s) \in {NoIP, Address(s)'}
  BY <1>2
<1> QED BY <1>0, <1>1, <1>3, <1>4, <1>5, QuietLine

LEMMA CreateSaveLine ==
  ASSUME BaseInv, Owned, Lines, NEW s \in Sandbox, CreateSave(s)
  PROVE  Lines'
<1> DEFINE x == [NoState EXCEPT !.phase = "creating", !.open = task[s].copy.open]
           busy == \E r \in Sandbox \ {s} : PortOf[r] = PortOf[s] /\ state[r].phase # "none"
<1>0. /\ task[s].pc = "save" /\ state[s] = NoState /\ UNCHANGED <<pod, leaves, filter>>
      /\ s \in Worker
  BY DEF CreateSave, Owned, OwnInv, PhaseFits, BaseInv, FilesOK, Worker
<1>1. Address(s) = NoIP /\ (LineInv(s) => Clean(s))
  BY <1>0, NoAddress DEF Address, LineInv
<1>2. CASE busy
  <2>1. /\ Become(s, Idle(s)) /\ Idle(s).pc = "idle" /\ UNCHANGED <<state, overlooked>>
    BY <1>0, <1>2, IdleForm DEF CreateSave
  <2>2. ASSUME task'[s] = Idle(s), Finalizing(s)' <=> Finalizing(s), Erasing(s)' <=> Erasing(s),
               HooksOf(s)' = HooksOf(s), UNCHANGED rules, LineInv(s)
        PROVE  LineInv(s)'
    <3>1. Clean(s)'
      BY <1>1, <2>2 DEF Clean
    <3>2. Address(s)' = NoIP /\ state'[s].phase # "running"
      BY <1>0, <2>1, <2>2, Constants DEF Address
    <3>3. PodFits(s)'
      BY <1>0, <2>1, <2>2 DEF LineInv, PodFits, MakingPcs, LinePcs
    <3> QED BY <2>1, <2>2, <3>1, <3>2, <3>3, CleanLine
  <2> QED BY <1>0, <1>1, <2>1, <2>2, QuietLine
<1>3. CASE ~ busy
  <2> DEFINE t == At("sweep", s, x)
  <2>1. /\ Become(s, t) /\ state' = [state EXCEPT ![s] = x]
        /\ overlooked' = IF Reconciling THEN overlooked \cup {s} ELSE overlooked \ {s}
    BY <1>3 DEF CreateSave
  <2>2. t.pc = "sweep"
    BY DEF At
  <2> HIDE DEF t, x
  <2>3. \A r \in Sandbox : state'[r] = IF r = s THEN x ELSE state[r]
    BY <2>1 DEF BaseInv, FilesOK
  <2>4. UNCHANGED <<forward, rules>> /\ \A r \in Sandbox : HooksOf(r)' = HooksOf(r)
    BY <1>0, HooksKept DEF filter
  <2>5. ASSUME task'[s] = t, UNCHANGED task[Reconciler], Finalizing(s)' <=> Finalizing(s),
               Erasing(s)' <=> Erasing(s)
        PROVE  Doomed(s)' \/ LineInv(s)'
    <3>1. CASE Finalizing(s)
      <4>1. s \in overlooked'
        BY <2>1, <3>1 DEF Finalizing, Reconciling, RemovalPcs
      <4> QED BY <2>5, <3>1, <4>1 DEF Doomed, Known
    <3>2. CASE ~ Finalizing(s)
      <4>1. LineInv(s) /\ Clean(s)'
        BY <1>1, <2>4, <3>2 DEF Lines, Doomed, Clean
      <4>2. PodFits(s)'
        BY <1>0, <2>2, <2>5, <3>2, <4>1 DEF LineInv, PodFits, MakingPcs, LinePcs
      <4> QED BY <2>2, <2>5, <3>2, <4>1, <4>2, CleanLine
    <3> QED BY <3>1, <3>2
  <2>6. \A f \in ToSet(forward') \ {Jump} : f \in ToSet(forward) /\ ~ Holds(s, f)
    BY <1>1, <2>4, AcceptsAddresses DEF Holds
  <2>7. \A r \in Sandbox \ {s} : /\ state'[r] = state[r] /\ pod'[r] = pod[r]
                                 /\ HooksOf(r)' = HooksOf(r) /\ rules'[r] = rules[r]
                                 /\ r \in leaves' <=> r \in leaves
                                 /\ r \in overlooked' <=> r \in overlooked
    BY <1>0, <2>1, <2>3, <2>4
  <2> QED BY <2>1, <2>5, <2>6, <2>7, LineTurn
<1> QED BY <1>2, <1>3

\* A provisioning before its hooks are set.
LEMMA MakingLine ==
  ASSUME BaseInv, Owned, Lines, NEW s \in Sandbox, task[s].pc \in {"sweep", "run", "limits", "start"},
         NEW t, Become(s, t), t.pc \in {"run", "limits", "start", "hook", "fail"},
         UNCHANGED <<filter, overlooked, state>>,
         \A r \in Sandbox \ {s} : pod'[r] = pod[r] /\ (r \in leaves' <=> r \in leaves),
         PodFits(s) =>
           /\ t.pc \in {"limits", "start", "hook"} => pod'[s].name # 0
           /\ t.pc \in {"start", "hook"} => pod'[s].ip = t.copy.ip
  PROVE  Lines'
<1>1. Address(s) = NoIP
  BY DEF Address
<1>2. ASSUME task'[s] = t, Finalizing(s)' <=> Finalizing(s), HooksOf(s)' = HooksOf(s),
             UNCHANGED rules, LineInv(s), ~ Doomed(s)
      PROVE  LineInv(s)'
  <2>1. Clean(s)' /\ ~ Finalizing(s)'
    BY <1>1, <1>2, NoAddress, NotFinalizing DEF Clean, LineInv, MakingPcs
  <2>2. PodFits(s)'
    BY <1>2 DEF LineInv, PodFits, MakingPcs, LinePcs
  <2> QED BY <1>2, <2>1, <2>2, CleanLine
<1> QED BY <1>1, <1>2, QuietLine

LEMMA ProvisionStartLine ==
  ASSUME BaseInv, Owned, Lines, NEW s \in Sandbox,
         ProvisionSweep(s) \/ ProvisionRun(s) \/ ProvisionLimits(s) \/ ProvisionStart(s)
  PROVE  Lines'
<1>0. /\ s \in Worker /\ task[s].pc \in {"sweep", "run", "limits", "start"}
      /\ UNCHANGED <<filter, overlooked, state>>
      /\ \A r \in Sandbox \ {s} : pod'[r] = pod[r] /\ (r \in leaves' <=> r \in leaves)
  BY DEF ProvisionSweep, ProvisionRun, ProvisionLimits, ProvisionStart, store, past, BaseInv, PodsOK,
         Worker
<1>1. task[s] \in Task /\ creates # 0
  <2>1. task[s].pc \in MakingPcs /\ task[s].pc # "idle"
    BY <1>0 DEF MakingPcs
  <2> QED BY <1>0, <2>1, Up DEF TaskOK
<1>2. ASSUME NEW pc \in {"run", "limits", "hook", "fail"}, To(s, pc),
             pc \in {"limits", "hook"} /\ PodFits(s) => pod'[s].name # 0,
             pc = "hook" /\ PodFits(s) => pod'[s].ip = task[s].copy.ip
      PROVE  Lines'
  <2> DEFINE t == [task[s] EXCEPT !.pc = pc]
  <2>1. t.pc = pc /\ t.copy = task[s].copy /\ Become(s, t)
    BY <1>1, <1>2, ToForm DEF To, Pcs
  <2> HIDE DEF t
  <2> QED BY <1>0, <1>2, <2>1, MakingLine
<1>3. CASE ProvisionSweep(s)
  BY <1>2, <1>3 DEF ProvisionSweep
<1>4. CASE ProvisionRun(s)
  <2>1. CASE To(s, "fail")
    BY <1>2, <2>1
  <2>2. CASE To(s, "limits") /\ \E ip : pod' = [pod EXCEPT ![s] = [name |-> creates, ip |-> ip, well |-> TRUE]]
    <3>1. pod'[s].name = creates
      BY <2>2 DEF BaseInv, PodsOK
    <3> QED BY <1>1, <1>2, <2>2, <3>1
  <2> QED BY <1>4, <2>1, <2>2 DEF ProvisionRun
<1>5. CASE ProvisionLimits(s)
  <2>0. task[s].pc = "limits" /\ UNCHANGED pod
    BY <1>5 DEF ProvisionLimits
  <2>1. CASE To(s, "fail")
    BY <1>2, <2>1
  <2>2. CASE Become(s, [task[s] EXCEPT !.pc = "start", !.copy.pod = pod[s].name,
                                       !.copy.ip = pod[s].ip])
    <3> DEFINE t == [task[s] EXCEPT !.pc = "start", !.copy.pod = pod[s].name, !.copy.ip = pod[s].ip]
    <3>1. t.pc = "start" /\ t.copy.ip = pod[s].ip /\ Become(s, t)
      BY <1>1, <2>2 DEF Task, State
    <3> HIDE DEF t
    <3>2. PodFits(s) => pod[s].name # 0
      BY <2>0 DEF PodFits, MakingPcs
    <3> QED BY <1>0, <2>0, <3>1, <3>2, MakingLine
  <2> QED BY <1>5, <2>1, <2>2 DEF ProvisionLimits
<1>6. CASE ProvisionStart(s)
  <2>0. task[s].pc = "start" /\ UNCHANGED pod
    BY <1>6 DEF ProvisionStart
  <2>1. PodFits(s) => pod[s].name # 0 /\ pod[s].ip = task[s].copy.ip
    BY <2>0 DEF PodFits, MakingPcs
  <2>2. To(s, "fail") \/ To(s, "hook")
    BY <1>6 DEF ProvisionStart
  <2> QED BY <1>2, <2>0, <2>1, <2>2
<1> QED BY <1>3, <1>4, <1>5, <1>6

LEMMA ProvisionHookLine ==
  ASSUME BaseInv, Owned, Lines, NEW s \in Sandbox, ProvisionHook(s)
  PROVE  Lines'
<1>0. /\ task[s].pc = "hook" /\ task[s] \in Task /\ task[s].copy.ip \in IP
      /\ UNCHANGED <<state, leaves, pod, forward, rules, overlooked>>
  <2>1. task[s].pc = "hook" /\ UNCHANGED <<state, leaves, pod, forward, rules, overlooked>>
    BY DEF ProvisionHook, store, past
  <2>2. task[s] \in Task /\ task[s].copy \in State /\ task[s].copy.ip # NoIP
    BY <2>1, Up DEF TaskOK, LinePcs, Worker
  <2> QED BY <2>1, <2>2 DEF State
<1>1. PICK pc \in {"policy", "fail"} : To(s, pc)
  BY DEF ProvisionHook
<1> DEFINE t == [task[s] EXCEPT !.pc = pc]
           ip == task[s].copy.ip
<1>2. t.pc = pc /\ t.copy = task[s].copy /\ Become(s, t)
  BY <1>0, <1>1, ToForm DEF To, Pcs
<1> HIDE DEF t
<1>3. \A r \in Sandbox : HooksOf(r)' = IF r = s THEN HooksOf(r) \cup {<<ip, s>>} ELSE HooksOf(r)
  BY <1>0, HooksMore DEF ProvisionHook, BaseInv
<1>4. Address(s) = NoIP
  BY <1>0 DEF Address
<1>5. ASSUME task'[s] = t, Finalizing(s)' <=> Finalizing(s)
      PROVE  Doomed(s)' \/ LineInv(s)'
  <2>1. CASE Doomed(s)
    BY <1>0, <1>5, <2>1 DEF Doomed, Known
  <2>2. CASE ~ Doomed(s)
    <3>1. LineInv(s) /\ Clean(s) /\ ~ Finalizing(s)
      BY <1>0, <1>4, <2>2, NoAddress, NotFinalizing DEF Lines, LineInv, MakingPcs, LinePcs
    <3>2. HooksOf(s)' = {<<ip, s>>} /\ rules'[s] = <<>> /\ Address(s)' = ip
      BY <1>0, <1>2, <1>3, <1>5, <3>1 DEF Clean, Address
    <3>3. AddressFits(s)'
      BY <1>5, <3>1, <3>2 DEF AddressFits, Erasing
    <3>4. pod[s].ip = ip /\ pod[s].name # 0
      BY <1>0, <3>1 DEF LineInv, PodFits, MakingPcs, LinePcs
    <3>5. PolicyFits(s)'
      <4>1. \A h \in HooksOf(s)' : pod'[s].ip = h[1]
        BY <1>0, <3>2, <3>4
      <4> QED BY <1>2, <1>5, <3>2, <4>1 DEF PolicyFits
    <3>6. PodFits(s)'
      BY <1>0, <1>2, <1>5, <3>4 DEF PodFits
    <3> QED BY <3>3, <3>5, <3>6 DEF LineInv
  <2> QED BY <2>1, <2>2
<1>6. \A f \in ToSet(forward') \ {Jump} : f \in ToSet(forward) /\ ~ Holds(s, f)
  BY <1>0, <1>4, AcceptsAddresses DEF Holds
<1>7. \A r \in Sandbox \ {s} : /\ state'[r] = state[r] /\ pod'[r] = pod[r]
                               /\ HooksOf(r)' = HooksOf(r) /\ rules'[r] = rules[r]
                               /\ r \in leaves' <=> r \in leaves
                               /\ r \in overlooked' <=> r \in overlooked
  BY <1>0, <1>3
<1> QED BY <1>2, <1>5, <1>6, <1>7, LineTurn

\* An empty chain gets the two rules, in this order.
LEMMA TwoRules ==
  ASSUME NEW d \in Rule \ {"private"}
  PROVE  AppendUnique(AppendUnique(<<>>, "private"), d) = <<"private", d>>
<1>1. AppendUnique(<<>>, "private") = <<"private">>
  BY DEF AppendUnique, Contains
<1>2. ~ Contains(<<"private">>, d)
  BY DEF Contains
<1>3. AppendUnique(<<"private">>, d) = <<"private", d>>
  <2>1. AppendUnique(<<"private">>, d) = Append(<<"private">>, d)
    BY <1>2, Zenon DEF AppendUnique
  <2>2. Append(<<"private">>, d) = <<"private", d>>
    <3> DEFINE x == Append(<<"private">>, d)
               y == <<"private", d>>
    <3>1. x \in Seq({"private", d}) /\ y \in Seq({"private", d})
      OBVIOUS
    <3>2. /\ Len(x) = 2 /\ x[1] = "private" /\ x[2] = d
          /\ Len(y) = 2 /\ y[1] = "private" /\ y[2] = d
      OBVIOUS
    <3>3. x = [i \in 1..2 |-> x[i]] /\ y = [i \in 1..2 |-> y[i]]
      BY <3>1, <3>2
    <3> HIDE DEF x, y
    <3>4. \A i \in 1..2 : x[i] = y[i]
      BY <3>2
    <3>5. x = y
      BY <3>3, <3>4
    <3> QED BY <3>5 DEF x, y
  <2> QED BY <2>1, <2>2
<1> QED BY <1>1, <1>3

LEMMA ProvisionPolicyLine ==
  ASSUME BaseInv, Owned, Lines, NEW s \in Sandbox, ProvisionPolicy(s)
  PROVE  Lines'
<1> DEFINE ip == task[s].copy.ip
           new == Decision(task[s].copy.open)
<1>0. /\ task[s].pc = "policy" /\ UNCHANGED <<state, leaves, pod, hooks, overlooked>>
      /\ \A r \in Sandbox \ {s} : rules'[r] = rules[r]
      /\ rules'[s] = AppendUnique(AppendUnique(rules[s], "private"), new)
  BY DEF ProvisionPolicy, store, past, BaseInv, RulesOK
<1>1. task[s] \in Task /\ ip \in IP /\ main = "up" /\ new \in Rule \ {"private"}
  <2>1. task[s] \in Task /\ task[s].copy \in State /\ task[s].copy.ip # NoIP /\ main = "up"
    BY <1>0, Up DEF TaskOK, LinePcs, Worker
  <2> QED BY <2>1 DEF State, Decision, Rule
<1> DEFINE t == [task[s] EXCEPT !.pc = "publish"]
<1>2. t.pc = "publish" /\ t.copy = task[s].copy /\ Become(s, t)
  BY <1>1, ToForm DEF ProvisionPolicy, To, Pcs
<1> HIDE DEF t
<1>3. \A r \in Sandbox : HooksOf(r)' = HooksOf(r)
  BY <1>0, HooksKept
<1>4. ToSet(forward') = ToSet(forward) \cup {ip}
  <2>1. /\ forward \in Seq(IP \cup {Jump}) /\ forward # <<>> /\ forward[1] # ip
        /\ forward' = InsertSecond(forward, ip)
    BY <1>1, Constants DEF ProvisionPolicy, BaseInv, ForwardOK
  <2> HIDE DEF ip
  <2>2. ip \in IP \cup {Jump}
    BY <1>1
  <2> QED BY <2>1, <2>2, InsertSecondIs
<1>5. Address(s) = ip
  BY <1>0 DEF Address
<1>6. ASSUME task'[s] = t, Finalizing(s)' <=> Finalizing(s), Erasing(s)' <=> Erasing(s)
      PROVE  /\ Doomed(s)' \/ LineInv(s)'
             /\ Address(s)' = ip /\ ~ (Erasing(s) /\ Known(s))'
  <2>0. Address(s)' = ip
    BY <1>2, <1>6 DEF Address
  <2>1. CASE Doomed(s)
    BY <1>0, <1>6, <2>0, <2>1 DEF Doomed, Known
  <2>2. CASE ~ Doomed(s)
    <3>1. LineInv(s) /\ ~ Finalizing(s)
      BY <1>0, <2>2, NotFinalizing DEF Lines, MakingPcs, LinePcs
    <3>2. HooksOf(s)' = {<<ip, s>>} /\ rules[s] = <<>>
      BY <1>0, <1>3, <3>1 DEF LineInv, PolicyFits
    <3>3. rules'[s] = <<"private", new>>
      BY <1>0, <1>1, <3>2, TwoRules
    <3>4. AddressFits(s)'
      BY <1>1, <1>6, <2>0, <3>1, <3>2, Constants DEF AddressFits, Erasing
    <3>5. PolicyFits(s)'
      <4>1. Full(s, task[s].copy)'
        BY <1>2, <1>6, <3>2, <3>3 DEF Full
      <4>2. \A h \in HooksOf(s)' : pod'[s].ip = h[1]
        BY <1>0, <1>3, <3>1 DEF LineInv, PolicyFits, RemovalPcs
      <4> QED BY <1>2, <1>6, <4>1, <4>2 DEF PolicyFits
    <3>6. PodFits(s)'
      BY <1>0, <1>2, <1>6, <3>1 DEF LineInv, PodFits, MakingPcs, LinePcs
    <3> QED BY <1>6, <2>0, <3>1, <3>4, <3>5, <3>6 DEF LineInv, Erasing
  <2> QED BY <2>1, <2>2
<1>7. \A r \in Sandbox \ {s} : /\ state'[r] = state[r] /\ pod'[r] = pod[r]
                               /\ HooksOf(r)' = HooksOf(r) /\ rules'[r] = rules[r]
                               /\ r \in leaves' <=> r \in leaves
                               /\ r \in overlooked' <=> r \in overlooked
  BY <1>0, <1>3
<1>8. \A f \in ToSet(forward') \ {Jump} : f = ip \/ (f \in ToSet(forward) /\ ~ Holds(s, f))
  BY <1>4, <1>5 DEF Holds
<1> QED BY <1>2, <1>6, <1>7, <1>8, LineTurn

LEMMA ProvisionPublishLine ==
  ASSUME BaseInv, Owned, Lines, NEW s \in Sandbox, ProvisionPublish(s)
  PROVE  Lines'
<1>0. /\ task[s].pc = "publish" /\ task[s] \in Task
      /\ UNCHANGED <<filter, overlooked, state, pod, leaves>>
  BY DEF ProvisionPublish, store, past, BaseInv, TasksOK, Worker
<1>1. PICK pc \in {"finish", "fail"} : To(s, pc)
  BY DEF ProvisionPublish
<1> DEFINE t == [task[s] EXCEPT !.pc = pc]
<1>2. t.pc = pc /\ t.copy = task[s].copy /\ Become(s, t)
  BY <1>0, <1>1, ToForm DEF To, Pcs
<1> HIDE DEF t
<1>3. ASSUME task'[s] = t, Finalizing(s)' <=> Finalizing(s), HooksOf(s)' = HooksOf(s), UNCHANGED rules
      PROVE  /\ LineInv(s) /\ ~ Doomed(s) => LineInv(s)'
             /\ Address(s) = Address(s)'
  <2>1. Address(s)' = Address(s)
    BY <1>0, <1>2, <1>3 DEF Address
  <2> SUFFICES ASSUME LineInv(s), ~ Doomed(s) PROVE LineInv(s)'
    BY <2>1
  <2>2. ~ Finalizing(s)
    BY <1>0, NotFinalizing DEF MakingPcs, LinePcs
  <2>3. AddressFits(s)'
    BY <1>3, <2>1, <2>2 DEF LineInv, AddressFits, Erasing
  <2>4. PolicyFits(s)'
    <3>1. Full(s, task[s].copy)'
      BY <1>0, <1>2, <1>3 DEF LineInv, PolicyFits, Full
    <3>2. \A h \in HooksOf(s)' : pod'[s].ip = h[1]
      BY <1>0, <1>3, <2>2 DEF LineInv, PolicyFits, RemovalPcs
    <3> QED BY <1>2, <1>3, <3>1, <3>2 DEF PolicyFits
  <2>5. PodFits(s)'
    BY <1>0, <1>2, <1>3 DEF LineInv, PodFits, MakingPcs, LinePcs
  <2> QED BY <2>3, <2>4, <2>5 DEF LineInv
<1>4. \A r \in Sandbox \ {s} : /\ state'[r] = state[r] /\ pod'[r] = pod[r]
                               /\ r \in leaves' <=> r \in leaves
  BY <1>0
<1> QED BY <1>0, <1>2, <1>3, <1>4, QuietLine

LEMMA ProvisionEndLine ==
  ASSUME BaseInv, Owned, Lines, NEW s \in Sandbox,
         ProvisionFinish(s) \/ ProvisionFail(s) \/ MarkError(s) \/ DeleteBegin(s)
  PROVE  Lines'
<1>0. /\ s \in Worker /\ state[s] \in State /\ task[s].copy \in State
      /\ UNCHANGED <<filter, overlooked, pod, leaves>>
  BY DEF ProvisionFinish, ProvisionFail, MarkError, DeleteBegin, past, Worker, BaseInv, FilesOK,
         TasksOK, Task
<1>1. Idle(s).pc = "idle"
  BY <1>0, IdleForm
<1>2. ASSUME NEW x, state' = [state EXCEPT ![s] = x]
      PROVE  /\ state'[s] = x
             /\ \A r \in Sandbox \ {s} : /\ state'[r] = state[r] /\ pod'[r] = pod[r]
                                         /\ r \in leaves' <=> r \in leaves
  BY <1>0, <1>2 DEF BaseInv, FilesOK
<1>3. CASE ProvisionFinish(s)
  <2> DEFINE x == [task[s].copy EXCEPT !.phase = "running"]
  <2>1. state' = [state EXCEPT ![s] = x] /\ Become(s, Idle(s)) /\ task[s].pc = "finish"
    BY <1>3 DEF ProvisionFinish
  <2>2. x.ip = task[s].copy.ip /\ x.open = task[s].copy.open
    BY <1>0 DEF State
  <2> HIDE DEF x
  <2>3. ASSUME task'[s] = Idle(s), Finalizing(s)' <=> Finalizing(s), HooksOf(s)' = HooksOf(s),
               UNCHANGED rules
        PROVE  /\ LineInv(s) /\ ~ Doomed(s) => LineInv(s)'
               /\ Address(s) = Address(s)'
    <3>1. Address(s)' = Address(s) /\ state'[s] = x
      BY <1>1, <1>2, <2>1, <2>2, <2>3 DEF Address
    <3> SUFFICES ASSUME LineInv(s), ~ Doomed(s) PROVE LineInv(s)'
      BY <3>1
    <3>2. ~ Finalizing(s)
      BY <2>1, NotFinalizing DEF MakingPcs, LinePcs
    <3>3. AddressFits(s)'
      BY <2>3, <3>1, <3>2 DEF LineInv, AddressFits, Erasing
    <3>4. PolicyFits(s)'
      <4>1. Full(s, state[s])'
        BY <2>1, <2>2, <2>3, <3>1 DEF LineInv, PolicyFits, Full
      <4>2. \A h \in HooksOf(s)' : pod'[s].ip = h[1]
        BY <1>0, <2>1, <2>3, <3>2 DEF LineInv, PolicyFits, RemovalPcs
      <4> QED BY <1>1, <2>3, <4>1, <4>2 DEF PolicyFits
    <3>5. PodFits(s)'
      BY <1>0, <1>1, <2>1, <2>3 DEF LineInv, PodFits, MakingPcs, LinePcs
    <3> QED BY <3>3, <3>4, <3>5 DEF LineInv
  <2> QED BY <1>0, <1>2, <2>1, <2>3, QuietLine
<1>4. CASE ProvisionFail(s)
  <2> DEFINE x == [task[s].copy EXCEPT !.phase = "error"]
             t == Removal(s, x, "mark")
  <2>1. state' = [state EXCEPT ![s] = x] /\ Become(s, t) /\ task[s].pc = "fail"
    BY <1>4 DEF ProvisionFail
  <2>2. x.ip = task[s].copy.ip
    BY <1>0 DEF State
  <2>3. t.pc = "stop" /\ t.then = "mark" /\ t.copy = x
    BY DEF Removal, At
  <2> HIDE DEF x, t
  <2>4. ASSUME task'[s] = t, Finalizing(s)' <=> Finalizing(s), HooksOf(s)' = HooksOf(s),
               UNCHANGED rules
        PROVE  /\ LineInv(s) /\ ~ Doomed(s) => LineInv(s)'
               /\ Address(s) = Address(s)'
    <3>1. Address(s)' = Address(s)
      BY <2>1, <2>2, <2>3, <2>4 DEF Address
    <3> SUFFICES ASSUME LineInv(s), ~ Doomed(s) PROVE LineInv(s)'
      BY <3>1
    <3>2. ~ Finalizing(s)
      BY <2>1, NotFinalizing DEF MakingPcs
    <3>3. AddressFits(s)'
      BY <2>4, <3>1, <3>2 DEF LineInv, AddressFits, Erasing
    <3>4. PolicyFits(s)'
      BY <2>3, <2>4 DEF PolicyFits, RemovalPcs
    <3>5. PodFits(s)'
      BY <2>3, <2>4 DEF PodFits, MakingPcs, LinePcs
    <3> QED BY <3>3, <3>4, <3>5 DEF LineInv
  <2> QED BY <1>0, <1>2, <2>1, <2>4, QuietLine
<1>5. CASE MarkError(s)
  <2>1. /\ task[s].pc = "mark" /\ Become(s, Idle(s)) /\ Address(s) = NoIP
        /\ state'[s].phase # "running"
        /\ \A r \in Sandbox \ {s} : /\ state'[r] = state[r] /\ pod'[r] = pod[r]
                                    /\ r \in leaves' <=> r \in leaves
    <3>1. task[s].pc = "mark" /\ Become(s, Idle(s))
      BY <1>5 DEF MarkError
    <3>2. CASE UNCHANGED state /\ state[s].phase = "none"
      BY <1>0, <3>1, <3>2 DEF Address
    <3>3. CASE state' = [state EXCEPT ![s] = [state[s] EXCEPT !.phase = "error"]]
      <4> DEFINE x == [state[s] EXCEPT !.phase = "error"]
      <4>1. x.phase = "error" /\ state' = [state EXCEPT ![s] = x]
        BY <1>0, <3>3 DEF State
      <4> HIDE DEF x
      <4> QED BY <1>2, <3>1, <4>1 DEF Address
    <3> QED BY <1>5, <3>2, <3>3 DEF MarkError
  <2>2. ASSUME task'[s] = Idle(s), Finalizing(s)' <=> Finalizing(s), HooksOf(s)' = HooksOf(s),
               UNCHANGED rules, LineInv(s), ~ Doomed(s)
        PROVE  LineInv(s)'
    <3>1. Clean(s)' /\ ~ Finalizing(s)'
      BY <2>1, <2>2, NoAddress, NotFinalizing DEF Clean, LineInv
    <3>2. PodFits(s)'
      BY <1>0, <1>1, <2>1, <2>2, <3>1 DEF LineInv, PodFits, MakingPcs, LinePcs
    <3> QED BY <1>1, <2>1, <2>2, <3>1, <3>2, CleanLine
  <2> QED BY <1>0, <2>1, <2>2, QuietLine
<1>6. CASE DeleteBegin(s)
  <2> DEFINE x == [state[s] EXCEPT !.phase = "deleting"]
             t == Removal(s, state'[s], "erase")
  <2>1. state' = [state EXCEPT ![s] = x] /\ Become(s, t) /\ task[s].pc = "idle"
    BY <1>6 DEF DeleteBegin
  <2>2. x.ip = state[s].ip
    BY <1>0 DEF State
  <2>3. t.pc = "stop" /\ t.then = "erase" /\ t.copy = state'[s]
    BY DEF Removal, At
  <2> HIDE DEF x, t
  <2>4. ASSUME task'[s] = t, Finalizing(s)' <=> Finalizing(s), Erasing(s)' <=> Erasing(s),
               UNCHANGED task[Reconciler], HooksOf(s)' = HooksOf(s), UNCHANGED rules
        PROVE  /\ LineInv(s) /\ ~ Doomed(s) => LineInv(s)'
               /\ Address(s) = Address(s)'
    <3>1. Address(s)' = Address(s)
      BY <1>2, <2>1, <2>2, <2>3, <2>4 DEF Address
    <3> SUFFICES ASSUME LineInv(s), ~ Doomed(s) PROVE LineInv(s)'
      BY <3>1
    <3>2. AddressFits(s)'
      BY <2>4, <3>1 DEF LineInv, AddressFits, Clean
    <3>3. PolicyFits(s)'
      BY <2>3, <2>4 DEF PolicyFits, RemovalPcs
    <3>4. PodFits(s)'
      BY <1>0, <2>1, <2>3, <2>4 DEF LineInv, PodFits, MakingPcs, LinePcs
    <3> QED BY <3>2, <3>3, <3>4 DEF LineInv
  <2> QED BY <1>0, <1>2, <2>1, <2>4, QuietLine
<1> QED BY <1>3, <1>4, <1>5, <1>6

\* DeleteSandboxRules with the address s goes by takes all there is.
LEMMA UnhookDoes ==
  ASSUME BaseInv, NEW w \in Worker, Unhook(w), NEW s, s = task[w].sb, NEW ip, ip = task[w].copy.ip
  PROVE  /\ \A r \in Sandbox \ {s} : /\ HooksOf(r)' = HooksOf(r) /\ rules'[r] = rules[r]
                                     /\ r \in leaves' <=> r \in leaves
         /\ s \in leaves' => pod[s].name # 0
         /\ \A f \in ToSet(forward') : f \in ToSet(forward)
         /\ ip # NoIP /\ task[w].then # "save" => ip \notin ToSet(forward')
         /\ AddressFits(s) /\ Address(s) \in {NoIP, ip} => Clean(s)'
<1>0. s \in Sandbox
  <2>1. task[w].pc \in RemovalPcs
    BY DEF Unhook, RemovalPcs
  <2> QED BY <2>1 DEF BaseInv, TasksOK, TaskOK
<1>1. /\ \A r \in Sandbox \ {s} : r \in leaves' <=> r \in leaves
      /\ s \in leaves' => pod[s].name # 0
  BY DEF Unhook, RemoveCgroup
<1>2. CASE ip = NoIP
  <2>1. UNCHANGED filter
    BY <1>2 DEF Unhook
  <2>2. UNCHANGED <<forward, rules>> /\ \A r \in Sandbox : HooksOf(r)' = HooksOf(r)
    BY <2>1, HooksKept DEF filter
  <2>3. AddressFits(s) /\ Address(s) \in {NoIP, ip} => Clean(s)'
    BY <1>0, <1>2, <2>2, NoAddress DEF Clean
  <2> QED BY <1>0, <1>1, <1>2, <2>2, <2>3
<1>3. CASE ip # NoIP
  <2>1. DeleteRules(s, ip, task[w].then # "save")
    BY <1>3 DEF Unhook
  <2>2. \A r \in Sandbox : HooksOf(r)' = IF r = s THEN HooksOf(r) \ {<<ip, s>>} ELSE HooksOf(r)
    BY <1>0, <2>1, HooksWithout DEF DeleteRules, BaseInv
  <2>3. rules'[s] = <<>> /\ \A r \in Sandbox \ {s} : rules'[r] = rules[r]
    BY <1>0, <2>1 DEF DeleteRules, BaseInv, RulesOK
  <2>4. /\ \A f \in ToSet(forward') : f \in ToSet(forward)
        /\ task[w].then # "save" => ip \notin ToSet(forward')
    <3>1. CASE task[w].then = "save"
      BY <2>1, <3>1 DEF DeleteRules
    <3>2. CASE task[w].then # "save"
      <4>1. forward \in Seq(IP \cup {Jump}) /\ forward' = Without(forward, {ip})
        BY <2>1, <3>2 DEF DeleteRules, BaseInv, ForwardOK
      <4>2. ToSet(forward') = ToSet(forward) \ {ip}
        BY <4>1, WithoutIs
      <4> QED BY <4>2
    <3> QED BY <3>1, <3>2
  <2>5. AddressFits(s) /\ Address(s) \in {NoIP, ip} => Clean(s)'
    <3>1. CASE AddressFits(s) /\ Address(s) = NoIP
      BY <1>0, <2>2, <2>3, <3>1, NoAddress DEF Clean
    <3>2. CASE AddressFits(s) /\ Address(s) = ip
      BY <1>0, <2>2, <2>3, <3>2 DEF Clean, AddressFits
    <3> QED BY <3>1, <3>2
  <2> QED BY <1>0, <1>1, <2>2, <2>3, <2>4, <2>5
<1> QED BY <1>2, <1>3

LEMMA RemovalLine ==
  ASSUME BaseInv, Owned, Lines, NEW s \in Sandbox, TakeDown(s)
  PROVE  Lines'
<1>0. /\ s \in Worker /\ s # Reconciler /\ task[s].sb = s /\ task[s].pc \in RemovalPcs
      /\ UNCHANGED overlooked
      /\ \A r \in Sandbox \ {s} : state'[r] = state[r] /\ pod'[r] = pod[r]
  <2>1. s \in Worker /\ s # Reconciler
    BY Constants DEF Worker
  <2>2. task[s].sb = s
    BY <2>1 DEF BaseInv, TasksOK, TaskOK
  <2> QED BY <2>1, <2>2, TakeDownDoes
<1>1. PICK t : RemovalStep(s, s, t)
  BY <1>0, TakeDownDoes
<1>2. Become(s, t) /\ task[s].then \in {"save", "erase", "mark"}
  BY <1>0, <1>1 DEF RemovalStep, BaseInv, TasksOK, TaskOK
<1>3. CASE task[s].pc = "unhook"
  <2>1. /\ Unhook(s) /\ UNCHANGED <<state, pod>> /\ t.pc \in {"mark", "erase"}
    BY <1>1, <1>3 DEF TakeDown, StopPod, Unpublish, EraseState, RemovalStep
  <2> DEFINE ip == task[s].copy.ip
  <2>2. /\ \A r \in Sandbox \ {s} : /\ HooksOf(r)' = HooksOf(r) /\ rules'[r] = rules[r]
                                    /\ r \in leaves' <=> r \in leaves
        /\ s \in leaves' => pod[s].name # 0
        /\ \A f \in ToSet(forward') : f \in ToSet(forward)
        /\ ip # NoIP /\ task[s].then # "save" => ip \notin ToSet(forward')
        /\ AddressFits(s) /\ Address(s) \in {NoIP, ip} => Clean(s)'
    BY <1>0, <2>1, UnhookDoes
  <2>3. Address(s) = IF task[s].then # "save" THEN ip ELSE NoIP
    BY <1>3 DEF Address
  <2>4. ASSUME task'[s] = t, UNCHANGED task[Reconciler], Finalizing(s)' <=> Finalizing(s)
        PROVE  Doomed(s)' \/ LineInv(s)'
    <3>1. CASE Doomed(s)
      BY <1>0, <2>4, <3>1 DEF Doomed, Known
    <3>2. CASE ~ Doomed(s)
      <4>1. Clean(s)' /\ LineInv(s)
        BY <2>2, <2>3, <3>2 DEF Lines, LineInv
      <4>2. Address(s)' = NoIP
        BY <2>1, <2>4 DEF Address
      <4>3. PodFits(s)'
        BY <2>1, <2>2, <2>4 DEF PodFits, MakingPcs, LinePcs
      <4> QED BY <2>1, <2>4, <4>1, <4>2, <4>3, CleanLine
    <3> QED BY <3>1, <3>2
  <2>5. \A f \in ToSet(forward') \ {Jump} : f \in ToSet(forward) /\ ~ Holds(s, f)
    BY <2>2, <2>3, AcceptsAddresses DEF Holds
  <2> HIDE DEF ip
  <2>6. \A r \in Sandbox \ {s} : /\ state'[r] = state[r] /\ pod'[r] = pod[r]
                                 /\ HooksOf(r)' = HooksOf(r) /\ rules'[r] = rules[r]
                                 /\ r \in leaves' <=> r \in leaves
                                 /\ r \in overlooked' <=> r \in overlooked
    BY <1>0, <2>2
  <2> QED BY <1>2, <2>4, <2>5, <2>6, LineTurn
<1>4. CASE task[s].pc # "unhook"
  <2>1. UNCHANGED <<filter, leaves>>
    BY <1>4 DEF TakeDown, StopPod, Unpublish, Unhook, EraseState, store
  <2>2. \A r \in Sandbox \ {s} : /\ state'[r] = state[r] /\ pod'[r] = pod[r]
                                 /\ r \in leaves' <=> r \in leaves
    BY <1>0, <2>1
  <2>3. CASE task[s].pc \in {"stop", "unpublish"}
    <3>1. /\ t.pc \in {"unpublish", "unhook"} /\ t.then = task[s].then /\ t.copy = task[s].copy
          /\ UNCHANGED state
      BY <1>1, <2>3 DEF RemovalStep, RemovalPcs
    <3>2. ASSUME task'[s] = t, Finalizing(s)' <=> Finalizing(s), Erasing(s)' <=> Erasing(s),
                 UNCHANGED task[Reconciler], HooksOf(s)' = HooksOf(s), UNCHANGED rules
          PROVE  /\ LineInv(s) /\ ~ Doomed(s) => LineInv(s)'
                 /\ Address(s) = Address(s)'
      <4>1. Address(s)' = Address(s)
        BY <2>3, <3>1, <3>2 DEF Address
      <4> SUFFICES ASSUME LineInv(s) PROVE LineInv(s)'
        BY <4>1
      <4>2. AddressFits(s)'
        BY <3>2, <4>1 DEF LineInv, AddressFits, Clean
      <4>3. PolicyFits(s)'
        BY <3>1, <3>2 DEF PolicyFits, RemovalPcs
      <4>4. PodFits(s)'
        BY <3>1, <3>2 DEF PodFits, MakingPcs, LinePcs
      <4> QED BY <4>2, <4>3, <4>4 DEF LineInv
    <3> QED BY <1>0, <1>2, <2>1, <2>2, <3>2, QuietLine
  <2>4. CASE task[s].pc = "erase"
    <3>1. t.pc \in {"save", "idle"} /\ state'[s] = NoState /\ Address(s) = NoIP /\ UNCHANGED pod
      BY <1>0, <1>1, <1>2, <2>4 DEF RemovalStep, BaseInv, FilesOK, Address
    <3>2. ASSUME task'[s] = t, Finalizing(s)' <=> Finalizing(s), Erasing(s)' <=> Erasing(s),
                 HooksOf(s)' = HooksOf(s), UNCHANGED rules, LineInv(s)
          PROVE  LineInv(s)'
      <4>1. Clean(s)'
        BY <3>1, <3>2, NoAddress DEF Clean, LineInv
      <4>2. Address(s)' = NoIP /\ state'[s].phase # "running"
        BY <3>1, <3>2, Constants DEF Address
      <4>3. PodFits(s)'
        BY <2>1, <2>4, <3>1, <3>2 DEF LineInv, PodFits, MakingPcs, LinePcs
      <4> QED BY <3>1, <3>2, <4>1, <4>2, <4>3, CleanLine
    <3> QED BY <1>0, <1>2, <2>1, <2>2, <3>1, <3>2, QuietLine
  <2> QED BY <1>0, <1>4, <2>3, <2>4 DEF RemovalPcs
<1> QED BY <1>3, <1>4

LEMMA LoopRemovalLine ==
  ASSUME BaseInv, Owned, Lines, TakeDown(Reconciler), ~ strayed'
  PROVE  Lines'
<1> DEFINE R == task[Reconciler]
<1> SUFFICES ASSUME NEW s, s = R.sb PROVE Lines'
  OBVIOUS
<1>0. /\ Reconciler \in Worker /\ s \in Sandbox /\ R.pc \in RemovalPcs /\ R.then = "visit"
      /\ UNCHANGED overlooked
      /\ \A r \in Sandbox \ {s} : state'[r] = state[r] /\ pod'[r] = pod[r]
      /\ \A r \in Sandbox : r \in Worker /\ r # Reconciler
  <2>1. Reconciler \in Worker /\ \A r \in Sandbox : r \in Worker /\ r # Reconciler
    BY Constants DEF Worker
  <2> QED BY <2>1, TakeDownDoes DEF BaseInv, TasksOK, TaskOK
<1>1. PICK t : RemovalStep(Reconciler, s, t)
  BY <1>0, TakeDownDoes
<1>2. /\ \A v \in Worker : task'[v] = IF v = Reconciler THEN t ELSE task[v]
      /\ Finalizing(s)
  BY <1>0, <1>1 DEF RemovalStep, Become, BaseInv, TasksOK, Finalizing
<1>3. task'[s] = task[s] /\ task'[Reconciler] = t /\ (t.pc \in RemovalPcs => t.sb = s)
  BY <1>0, <1>1, <1>2 DEF RemovalStep, RemovalPcs
<1>4. \A r \in Sandbox \ {s} : task'[r] = task[r] /\ ~ Finalizing(r) /\ ~ Finalizing(r)'
  BY <1>0, <1>2, <1>3 DEF Finalizing
<1>5. ~ Doomed(s) =>
        /\ LineInv(s) /\ task[s].pc \notin MakingPcs
        /\ Known(s) /\ Address(s) \in {NoIP, R.copy.ip} /\ (R.pc = "erase" => Clean(s))
  <2> SUFFICES ASSUME ~ Doomed(s)
               PROVE  /\ LineInv(s) /\ task[s].pc \notin MakingPcs
                      /\ Known(s) /\ Address(s) \in {NoIP, R.copy.ip} /\ (R.pc = "erase" => Clean(s))
    OBVIOUS
  <2>1. LineInv(s) /\ Known(s)
    BY <1>0, <1>2 DEF Lines, Doomed
  <2>2. task[s].pc \notin MakingPcs
    BY <1>0, <1>2, <2>1 DEF Owned, OwnInv, PassFits
  <2>3. Address(s) \in {NoIP, R.copy.ip} /\ (R.pc = "erase" => Clean(s))
    BY <1>2, <2>1 DEF LineInv, AddressFits, Erasing
  <2> QED BY <2>1, <2>2, <2>3
<1>6. {"start", "hook", "policy", "publish", "finish"} \subseteq MakingPcs
  BY DEF MakingPcs, LinePcs
<1>7. CASE R.pc = "unhook"
  <2>1. Unhook(Reconciler) /\ UNCHANGED <<state, pod>> /\ t.pc = "erase" /\ t.copy = R.copy /\ t.sb = s
    BY <1>0, <1>1, <1>7 DEF TakeDown, StopPod, Unpublish, EraseState, RemovalStep, RemovalPcs
  <2>2. /\ \A r \in Sandbox \ {s} : /\ HooksOf(r)' = HooksOf(r) /\ rules'[r] = rules[r]
                                    /\ r \in leaves' <=> r \in leaves
        /\ s \in leaves' => pod[s].name # 0
        /\ \A f \in ToSet(forward') : f \in ToSet(forward)
        /\ R.copy.ip # NoIP => R.copy.ip \notin ToSet(forward')
        /\ AddressFits(s) /\ Address(s) \in {NoIP, R.copy.ip} => Clean(s)'
    BY <1>0, <2>1, UnhookDoes
  <2>3. Address(s)' = Address(s)
    BY <1>3, <2>1 DEF Address
  <2>4. Doomed(s)' \/ LineInv(s)'
    <3>1. CASE Doomed(s)
      <4>1. Finalizing(s)'
        BY <1>3, <2>1 DEF Finalizing, RemovalPcs
      <4> QED BY <1>0, <3>1, <4>1 DEF Doomed, Known
    <3>2. CASE ~ Doomed(s)
      <4>1. Clean(s)' /\ Address(s)' \in {NoIP, task'[Reconciler].copy.ip} /\ Finalizing(s)'
        BY <1>3, <1>5, <2>1, <2>2, <2>3, <3>2 DEF LineInv, Finalizing, RemovalPcs
      <4>2. PodFits(s)'
        BY <1>3, <1>5, <1>6, <2>1, <2>2, <3>2 DEF PodFits
      <4> QED BY <1>0, <1>3, <1>5, <1>6, <3>2, <4>1, <4>2, CleanLine
    <3> QED BY <3>1, <3>2
  <2>5. ASSUME NEW f \in ToSet(forward') \ {Jump}
        PROVE  \/ Address(s)' = f /\ ~ (Erasing(s) /\ Known(s))'
               \/ f \in ToSet(forward) /\ ~ Holds(s, f)
    <3>1. f \in ToSet(forward) /\ f # NoIP /\ f # R.copy.ip
      BY <2>2, AcceptsAddresses
    <3>2. CASE Doomed(s)
      <4>1. ~ Known(s)'
        BY <1>0, <3>2 DEF Doomed, Known
      <4> QED BY <2>3, <3>1, <4>1 DEF Holds
    <3>3. CASE ~ Doomed(s)
      BY <1>5, <3>1, <3>3 DEF Holds
    <3> QED BY <3>2, <3>3
  <2>6. \A r \in Sandbox \ {s} : Untouched(r)
    BY <1>0, <1>4, <2>2 DEF Untouched
  <2> QED BY <1>0, <2>4, <2>5, <2>6, LineStep
<1>8. CASE R.pc # "unhook"
  <2>1. UNCHANGED <<forward, rules, leaves>> /\ \A r \in Sandbox : HooksOf(r)' = HooksOf(r)
    <3>1. UNCHANGED <<filter, leaves>>
      BY <1>8 DEF TakeDown, StopPod, Unpublish, Unhook, EraseState, store
    <3> QED BY <3>1, HooksKept DEF filter
  <2>2. \A r \in Sandbox \ {s} : Untouched(r)
    BY <1>0, <1>4, <2>1 DEF Untouched
  <2>3. CASE R.pc \in {"stop", "unpublish"}
    <3>1. /\ t.pc \in {"unpublish", "unhook"} /\ t.copy = R.copy /\ t.sb = s /\ UNCHANGED state
      BY <1>1, <2>3 DEF RemovalStep, RemovalPcs
    <3>2. Address(s)' = Address(s) /\ Finalizing(s)' /\ ~ Erasing(s)'
      BY <1>3, <3>1 DEF Address, Finalizing, Erasing, RemovalPcs
    <3>3. Doomed(s)' \/ LineInv(s)'
      <4>1. CASE Doomed(s)
        BY <1>0, <3>2, <4>1 DEF Doomed, Known
      <4>2. CASE ~ Doomed(s)
        <5>1. AddressFits(s)'
          <6>1. AddressFits(s) /\ Address(s) \in {NoIP, task'[Reconciler].copy.ip}
            BY <1>3, <1>5, <3>1, <4>2 DEF LineInv
          <6>2. HooksOf(s)' = HooksOf(s) /\ rules'[s] = rules[s]
            BY <1>0, <2>1
          <6> QED BY <3>2, <6>1, <6>2 DEF AddressFits
        <5>2. PolicyFits(s)'
          BY <1>3, <1>5, <1>6, <3>2, <4>2 DEF PolicyFits
        <5>3. PodFits(s)'
          BY <1>3, <1>5, <1>6, <3>2, <4>2 DEF PodFits
        <5> QED BY <5>1, <5>2, <5>3 DEF LineInv
      <4> QED BY <4>1, <4>2
    <3>4. \A f \in ToSet(forward') \ {Jump} :
            \/ Address(s)' = f /\ ~ (Erasing(s) /\ Known(s))'
            \/ f \in ToSet(forward) /\ ~ Holds(s, f)
      BY <2>1, <3>2 DEF Holds
    <3> QED BY <1>0, <2>2, <3>3, <3>4, LineStep
  <2>4. CASE R.pc = "erase"
    <3>1. t.pc = "visit" /\ state'[s] = NoState /\ UNCHANGED pod /\ s \notin overlooked
      BY <1>0, <1>1, <2>4 DEF RemovalStep, BaseInv, FilesOK
    <3>2. ~ Doomed(s) /\ ~ Finalizing(s)' /\ Erasing(s) /\ Known(s)
      BY <1>2, <1>3, <2>4, <3>1 DEF Doomed, Known, Finalizing, Erasing, RemovalPcs
    <3>3. Clean(s)' /\ state'[s].phase = "none"
      <4>1. Clean(s)
        BY <1>5, <2>4, <3>2
      <4>2. HooksOf(s)' = HooksOf(s) /\ rules'[s] = rules[s]
        BY <1>0, <2>1
      <4>3. state'[s].phase = "none"
        BY <3>1, Constants
      <4> QED BY <4>1, <4>2, <4>3 DEF Clean
    <3>4. PodFits(s)'
      BY <1>3, <1>5, <1>6, <2>1, <3>1, <3>2 DEF LineInv, PodFits
    <3>5. LineInv(s)'
      BY <1>0, <1>3, <1>5, <1>6, <3>2, <3>3, <3>4, CleanLine
    <3>6. \A f \in ToSet(forward') \ {Jump} : f \in ToSet(forward) /\ ~ Holds(s, f)
      BY <2>1, <3>2 DEF Holds
    <3> QED BY <1>0, <2>2, <3>5, <3>6, LineStep
  <2> QED BY <1>0, <1>8, <2>3, <2>4 DEF RemovalPcs
<1> QED BY <1>7, <1>8

\* A step that leaves every sandbox alone, and no more than FORWARD had.
LEMMA AllUntouched ==
  ASSUME Lines, \A s \in Sandbox : Untouched(s), \A f \in ToSet(forward') \ {Jump} : f \in ToSet(forward)
  PROVE  Lines'
<1>1. \A r \in Sandbox : /\ Doomed(r)' \/ LineInv(r)'
                         /\ \A f : Holds(r, f) => Address(r)' = f /\ ~ (Erasing(r) /\ Known(r))'
  BY UntouchedLine DEF Lines
<1>2. \A f \in ToSet(forward') \ {Jump} :
        \E r \in Sandbox : Address(r)' = f /\ ~ (Erasing(r) /\ Known(r))'
  BY <1>1 DEF Lines
<1>3. \A f \in ToSet(forward') \ {Jump} : \E r \in Sandbox : Holds(r, f)'
  BY <1>2 DEF Holds
<1> QED BY <1>1, <1>3 DEF Lines, ToSet

LEMMA PassLine ==
  ASSUME BaseInv, Owned, Lines,
         PassList \/ PassSweep \/ \E s \in Sandbox : PassSkip(s) \/ PassExpire(s) \/ PassFinalize(s)
  PROVE  Lines'
<1>0. /\ Reconciler \in Worker /\ (\A r \in Sandbox : r \in Worker /\ r # Reconciler)
      /\ task \in [Worker -> Task] /\ "visit" \notin RemovalPcs /\ "idle" \notin RemovalPcs
  BY Constants DEF Worker, BaseInv, TasksOK, RemovalPcs
<1>1. CASE PassList \/ PassSweep
  <2>1. UNCHANGED <<state, pod, leaves, filter>>
    BY <1>1 DEF PassList, PassSweep, store
  <2>2. \A r \in Sandbox : task'[r] = task[r] /\ ~ Finalizing(r) /\ ~ Finalizing(r)'
    <3>1. CASE PassList
      <4>1. task[Reconciler].pc = "idle" /\ task'[Reconciler].pc = "visit"
        BY <1>0, <3>1 DEF PassList, Reconciling, To, Become, Task
      <4> QED BY <1>0, <3>1, <4>1 DEF PassList, To, Become, Finalizing
    <3>2. CASE PassSweep
      <4>1. task[Reconciler].pc = "visit" /\ task'[Reconciler].pc = "idle"
        BY <1>0, <3>2, IdleForm DEF PassSweep, Become
      <4> QED BY <1>0, <3>2, <4>1 DEF PassSweep, Become, Finalizing
    <3> QED BY <1>1, <3>1, <3>2
  <2>3. UNCHANGED <<forward, rules>> /\ \A r \in Sandbox : HooksOf(r)' = HooksOf(r)
    BY <2>1, HooksKept DEF filter
  <2>4. \A r \in Sandbox : Untouched(r)
    BY <2>1, <2>2, <2>3 DEF Untouched
  <2> QED BY <2>3, <2>4, AllUntouched
<1>2. ASSUME NEW s \in Sandbox, PassNext(s)
      PROVE  /\ UNCHANGED <<pod, leaves, overlooked, forward, rules>>
             /\ \A r \in Sandbox : HooksOf(r)' = HooksOf(r)
             /\ ~ Finalizing(s) /\ ~ Erasing(s) /\ ~ Doomed(s) /\ LineInv(s)
             /\ task[Reconciler].pc = "visit" /\ state[s] \in State
  <2>1. UNCHANGED <<forward, rules, hooks, pod, leaves, overlooked>> /\ task[Reconciler].pc = "visit"
    BY <1>2 DEF PassNext, filter, past
  <2>2. ~ Finalizing(s)
    BY <1>0, <2>1 DEF Finalizing
  <2> QED BY <2>1, <2>2, HooksKept DEF Erasing, Doomed, Lines, BaseInv, FilesOK
<1>3. ASSUME NEW s \in Sandbox, PassSkip(s) PROVE Lines'
  <2>1. UNCHANGED <<task, state>> /\ PassNext(s)
    BY <1>3 DEF PassSkip
  <2>2. \A r \in Sandbox : Untouched(r)
    BY <1>2, <2>1 DEF Untouched, Finalizing
  <2> QED BY <1>2, <2>1, <2>2, AllUntouched
<1>4. ASSUME NEW s \in Sandbox, PassExpire(s) PROVE Lines'
  <2>1. /\ UNCHANGED task /\ PassNext(s) /\ task[s].pc = "idle"
        /\ state' = [state EXCEPT ![s].phase = "error"]
    BY <1>4 DEF PassExpire
  <2>2. /\ state'[s].phase = "error" /\ state'[s].ip = state[s].ip
        /\ \A r \in Sandbox \ {s} : state'[r] = state[r]
    BY <1>2, <2>1 DEF BaseInv, FilesOK, State
  <2>3. \A r \in Sandbox \ {s} : Untouched(r)
    BY <1>2, <2>1, <2>2 DEF Untouched, Finalizing
  <2>4. Address(s)' = Address(s) /\ ~ Finalizing(s)' /\ ~ Erasing(s)'
    BY <1>0, <1>2, <2>1, <2>2 DEF Address, Finalizing, Erasing
  <2>5. AddressFits(s)'
    BY <1>2, <2>1, <2>4 DEF LineInv, AddressFits
  <2>6. PolicyFits(s)' /\ PodFits(s)'
    BY <1>2, <2>1, <2>2, <2>4 DEF LineInv, PolicyFits, PodFits
  <2>7. \A f \in ToSet(forward') \ {Jump} :
          \/ Address(s)' = f /\ ~ (Erasing(s) /\ Known(s))'
          \/ f \in ToSet(forward) /\ ~ Holds(s, f)
    BY <1>2, <2>1, <2>4 DEF Holds
  <2> QED BY <2>3, <2>5, <2>6, <2>7, LineStep DEF LineInv
<1>5. ASSUME NEW s \in Sandbox, PassFinalize(s) PROVE Lines'
  <2> DEFINE x == pass.list[s]
             t == Removal(s, pass.list[s], "visit")
  <2>1. /\ UNCHANGED state /\ PassNext(s) /\ task[s].pc = "idle" /\ x.phase \in {"running", "error"}
        /\ Become(Reconciler, t)
    BY <1>5 DEF PassFinalize
  <2>2. t.pc = "stop" /\ t.sb = s /\ t.copy = x
    BY DEF Removal, At
  <2> HIDE DEF t
  <2>3. /\ task'[Reconciler] = t /\ \A r \in Sandbox : task'[r] = task[r]
    BY <1>0, <2>1 DEF Become
  <2>4. Finalizing(s)' /\ ~ Erasing(s)' /\ Address(s)' = Address(s)
    BY <2>1, <2>2, <2>3 DEF Finalizing, Erasing, Address, RemovalPcs
  <2>5. \A r \in Sandbox \ {s} : Untouched(r)
    BY <1>0, <1>2, <2>1, <2>2, <2>3 DEF Untouched, Finalizing
  <2>6. Doomed(s)' \/ LineInv(s)'
    <3>1. CASE ~ Known(s)
      BY <1>2, <2>1, <2>4, <3>1 DEF Doomed, Known
    <3>2. CASE Known(s)
      <4>1. Address(s) \in {NoIP, x.ip}
        <5>1. Reconciling
          BY <1>2, <2>1 DEF Reconciling
        <5>2. state[s].phase # "none" => state[s].ip = x.ip
          BY <2>1, <3>2, <5>1 DEF Owned, OwnInv, PassFits
        <5>3. state[s].phase = "none" => state[s].ip = NoIP
          BY Constants DEF BaseInv, FilesOK
        <5> QED BY <2>1, <5>2, <5>3 DEF Address
      <4>2. AddressFits(s)'
        BY <1>2, <2>1, <2>2, <2>3, <2>4, <4>1 DEF LineInv, AddressFits
      <4>3. PolicyFits(s)' /\ PodFits(s)'
        BY <1>2, <2>1, <2>3, <2>4 DEF LineInv, PolicyFits, PodFits, MakingPcs, LinePcs
      <4> QED BY <4>2, <4>3 DEF LineInv
    <3> QED BY <3>1, <3>2
  <2>7. \A f \in ToSet(forward') \ {Jump} :
          \/ Address(s)' = f /\ ~ (Erasing(s) /\ Known(s))'
          \/ f \in ToSet(forward) /\ ~ Holds(s, f)
    BY <1>2, <2>1, <2>4 DEF Holds
  <2> QED BY <2>5, <2>6, <2>7, LineStep
<1> QED BY <1>1, <1>3, <1>4, <1>5

LEMMA WorldLine ==
  ASSUME BaseInv, Lines, Restart \/ \E s \in Sandbox : ContainerExits(s)
  PROVE  Lines'
<1>1. CASE Restart
  <2>1. UNCHANGED <<state, pod, leaves, hooks, rules, task, overlooked>>
    BY <1>1 DEF Restart, EnsureBegin, EnsureGlobalChains, store, past
  <2>2. \A r \in Sandbox : Untouched(r)
    BY <2>1, HooksKept DEF Untouched, Finalizing
  <2>3. \A f \in ToSet(forward') \ {Jump} : f \in ToSet(forward)
    <3>1. forward \in Seq(IP \cup {Jump}) /\ Jump \in IP \cup {Jump}
      BY DEF BaseInv, ForwardOK
    <3>2. CASE EnsureBegin
      <4>1. forward' = Without(forward, {Jump})
        BY <3>2 DEF EnsureBegin
      <4> QED BY <3>1, <4>1, WithoutIs
    <3>3. CASE EnsureGlobalChains
      <4> DEFINE new == InsertFirst(forward, Jump)
      <4>1. ToSet(new) = ToSet(forward) \cup {Jump}
        BY <3>1, InsertFirstIs
      <4>2. forward' = new
        BY <3>3 DEF EnsureGlobalChains
      <4>3. ToSet(forward)' = ToSet(new)
        BY <4>2
      <4> HIDE DEF new
      <4> QED BY <4>1, <4>3
    <3> QED BY <1>1, <3>2, <3>3 DEF Restart
  <2> QED BY <2>2, <2>3, AllUntouched
<1>2. ASSUME NEW s \in Sandbox, ContainerExits(s) PROVE Lines'
  <2>1. /\ UNCHANGED <<state, leaves, forward, hooks, rules, task, overlooked>>
        /\ pod'[s].ip = pod[s].ip /\ pod'[s].name = pod[s].name
        /\ \A r \in Sandbox \ {s} : pod'[r] = pod[r]
    BY <1>2 DEF ContainerExits, store, filter, past, BaseInv, PodsOK, Pod
  <2>2. \A r \in Sandbox : HooksOf(r)' = HooksOf(r)
    BY <2>1, HooksKept
  <2>3. \A r \in Sandbox \ {s} : Untouched(r)
    BY <2>1, <2>2 DEF Untouched, Finalizing
  <2>4. /\ Address(s)' = Address(s) /\ (Finalizing(s)' <=> Finalizing(s))
        /\ (Erasing(s)' <=> Erasing(s)) /\ (Doomed(s) => Doomed(s)') /\ (Known(s)' <=> Known(s))
    BY <2>1 DEF Address, Finalizing, Erasing, Doomed, Known
  <2>5. LineInv(s) => LineInv(s)'
    <3> SUFFICES ASSUME LineInv(s) PROVE LineInv(s)'
      OBVIOUS
    <3>1. AddressFits(s)'
      BY <2>1, <2>2, <2>4 DEF LineInv, AddressFits, Clean
    <3>2. PolicyFits(s)'
      BY <2>1, <2>2, <2>4 DEF LineInv, PolicyFits, Full
    <3>3. PodFits(s)'
      BY <2>1, <2>4 DEF LineInv, PodFits
    <3> QED BY <3>1, <3>2, <3>3 DEF LineInv
  <2>6. \A f \in ToSet(forward') \ {Jump} :
          \/ Address(s)' = f /\ ~ (Erasing(s) /\ Known(s))'
          \/ f \in ToSet(forward) /\ ~ Holds(s, f)
    BY <2>1, <2>4 DEF Holds
  <2>7. Doomed(s)' \/ LineInv(s)'
    BY <2>4, <2>5 DEF Lines
  <2> QED BY <2>3, <2>6, <2>7, LineStep
<1> QED BY <1>1, <1>2

\* Who has stopped or strayed has done so for good.
LEMMA HistoryGrows ==
  ASSUME BaseInv, [Next]_vars
  PROVE  (strayed => strayed') /\ (crashes' = 0 => crashes = 0 /\ ~ Crash)
<1>1. \A w : TakeDown(w) => (strayed => strayed') /\ UNCHANGED crashes
  <2>1. \A w : TakeDown(w) => (strayed => strayed')
    BY DEF TakeDown, StopPod, Unpublish, Unhook, EraseState, past
  <2>2. \A w : StopPod(w) => UNCHANGED crashes
    BY DEF StopPod, bounds
  <2>3. \A w : Unpublish(w) => UNCHANGED crashes
    BY DEF Unpublish, bounds
  <2>4. \A w : Unhook(w) => UNCHANGED crashes
    BY DEF Unhook, bounds
  <2>5. \A w : EraseState(w) => UNCHANGED crashes
    BY DEF EraseState, bounds
  <2> QED BY <2>1, <2>2, <2>3, <2>4, <2>5 DEF TakeDown
<1>2. \A s : Work(s) => (strayed => strayed') /\ UNCHANGED crashes
  BY <1>1 DEF Work, CreateSave, ProvisionSweep, ProvisionRun, ProvisionLimits,
       ProvisionStart, ProvisionHook, ProvisionPolicy, ProvisionPublish, ProvisionFinish,
       ProvisionFail, MarkError, past, bounds
<1>3. \A s : DeleteBegin(s) \/ ContainerExits(s) \/ (\E open \in BOOLEAN : CreateBegin(s, open)) =>
               (strayed => strayed') /\ UNCHANGED crashes
  <2>1. \A s : DeleteBegin(s) => (strayed => strayed') /\ UNCHANGED crashes
    BY DEF DeleteBegin, past, bounds
  <2>2. \A s : ContainerExits(s) => (strayed => strayed') /\ UNCHANGED crashes
    BY DEF ContainerExits, past, bounds
  <2>3. \A s : (\E open \in BOOLEAN : CreateBegin(s, open)) => (strayed => strayed')
    BY DEF CreateBegin, past
  <2>4. \A s : (\E open \in BOOLEAN : CreateBegin(s, open)) => UNCHANGED crashes
    BY DEF CreateBegin, bounds
  <2> QED BY <2>1, <2>2, <2>3, <2>4
<1>4. Pass => (strayed => strayed') /\ UNCHANGED crashes
  BY <1>1 DEF Pass, PassList, PassSweep, PassSkip, PassExpire, PassFinalize, PassNext, past, bounds
<1>5. Restart => (strayed => strayed') /\ UNCHANGED crashes
  BY DEF Restart, EnsureBegin, EnsureGlobalChains, past, bounds
<1>6. Crash => (strayed => strayed') /\ crashes' # 0
  BY DEF Crash, past, BaseInv, CountsOK
<1>7. UNCHANGED vars => (strayed => strayed') /\ UNCHANGED crashes
  BY DEF vars, past, bounds
<1>8. Crash \/ ((strayed => strayed') /\ UNCHANGED crashes)
  BY <1>2, <1>3, <1>4, <1>5, <1>7 DEF Next
<1>9. CASE Crash
  BY <1>6, <1>9
<1>10. CASE ~ Crash
  BY <1>8, <1>10
<1> QED BY <1>9, <1>10

LEMMA NextLine == RuleInv /\ [Next]_vars => RuleInv'
<1> SUFFICES ASSUME RuleInv, [Next]_vars PROVE RuleInv'
  OBVIOUS
<1>1. NatInv' /\ BaseInv
  BY NextOwn DEF RuleInv, NatInv
<1>2. ASSUME crashes' = 0, ~ strayed' PROVE Lines'
  <2>1. Owned /\ Lines /\ ~ Crash
    BY <1>1, <1>2, HistoryGrows DEF RuleInv, NatInv
  <2>2. CASE UNCHANGED vars
    <3>1. UNCHANGED <<state, pod, leaves, forward, hooks, rules, task, overlooked>>
      BY <2>2 DEF vars, store, filter, past
    <3>2. \A r \in Sandbox : Untouched(r)
      BY <3>1, HooksKept DEF Untouched, Finalizing
    <3> QED BY <2>1, <3>1, <3>2, AllUntouched
  <2>3. ASSUME NEW s \in Sandbox, Work(s) PROVE Lines'
    BY <1>1, <2>1, <2>3, CreateSaveLine, ProvisionStartLine, ProvisionHookLine, ProvisionPolicyLine,
       ProvisionPublishLine, ProvisionEndLine, RemovalLine DEF Work
  <2>4. CASE Next
    BY <1>1, <1>2, <2>1, <2>3, <2>4, CreateBeginLine, ProvisionEndLine, LoopRemovalLine, PassLine,
       WorldLine DEF Next, Pass
  <2> QED BY <2>2, <2>4
<1> QED BY <1>1, <1>2 DEF RuleInv

LEMMA InitLine == Init => RuleInv
<1> SUFFICES ASSUME Init PROVE RuleInv
  OBVIOUS
<1>1. NatInv
  BY InitOwn
<1>2. /\ leaves = {} /\ ToSet(forward) = {}
      /\ \A s \in Sandbox : /\ task[s].pc = "idle" /\ state[s] = NoState
                            /\ HooksOf(s) = {} /\ rules[s] = <<>> /\ ~ Finalizing(s)
  BY Constants, IdleForm DEF Init, HooksOf, ToSet, Finalizing, RemovalPcs, Worker
<1>3. ASSUME NEW s \in Sandbox PROVE LineInv(s)
  BY <1>2, Constants DEF LineInv, AddressFits, PolicyFits, PodFits, Erasing, MakingPcs, LinePcs
<1>4. Lines
  BY <1>2, <1>3 DEF Lines
<1> QED BY <1>1, <1>4 DEF RuleInv

\* What a running sandbox sends is decided by its own request, whatever addresses and
\* ids were used before, for every number of sandboxes, addresses, creations and faults,
\* and with passes at any moment (ApplySandboxRules, DeleteSandboxRules,
\* cleanupOrphanRuntimeSandbox).
THEOREM PolicyAlwaysFollowsSpec == Spec => []PolicyFollowsSpec
<1>1. RuleInv => PolicyFollowsSpec
  <2> SUFFICES ASSUME RuleInv, crashes = 0, \A w \in Worker : ~ Removing(w),
                      NEW s \in Sandbox, Serving(s)
               PROVE  Verdict(state[s].ip) = IF state[s].open THEN "ACCEPT" ELSE "REJECT"
    BY DEF PolicyFollowsSpec
  <2>1. BaseInv /\ Lines /\ state[s].phase = "running" /\ task[s].pc = "idle"
    BY DEF RuleInv, NatInv, Serving
  <2>2. ASSUME NEW r \in Sandbox
        PROVE  ~ Finalizing(r) /\ task[r].pc \notin RemovalPcs /\ LineInv(r)
    <3>1. ~ Finalizing(r) /\ task[r].pc \notin RemovalPcs
      BY DEF Removing, Finalizing, RemovalPcs, Worker
    <3> QED BY <2>1, <3>1 DEF Lines, Doomed
  <2> DEFINE ip == state[s].ip
  <2>3. HooksOf(s) = {<<ip, s>>} /\ rules[s] = <<"private", Decision(state[s].open)>>
    BY <2>1, <2>2 DEF LineInv, PolicyFits, Full
  <2> HIDE DEF ip
  <2>4. hooks \in Seq(IP \X Sandbox) /\ ToSet(hooks) \subseteq IP \X Sandbox
    BY <2>1 DEF BaseInv, RulesOK, ToSet
  <2>5. ASSUME NEW r \in Sandbox, NEW h \in HooksOf(r) PROVE pod[r].ip = h[1]
    BY <2>2, <2>5 DEF LineInv, PolicyFits
  <2>6. <<ip, s>> \in ToSet(hooks) /\ <<ip, s>> \in HooksOf(s)
    BY <2>3 DEF HooksOf
  <2>7. ip \in IP /\ ip # NoIP /\ pod[s].ip = ip
    <3>1. <<ip, s>> \in IP \X Sandbox
      BY <2>4, <2>6
    <3>2. ip \in IP
      BY <3>1
    <3>3. pod[s].ip = <<ip, s>>[1]
      BY <2>5, <2>6
    <3> QED BY <3>2, <3>3, Constants
  <2>8. ASSUME NEW h \in ToSet(hooks), h[1] = ip PROVE h[2] = s
    <3>1. h[2] \in Sandbox
      BY <2>4
    <3>2. h \in HooksOf(h[2])
      BY DEF HooksOf
    <3>3. pod[h[2]].ip = ip
      BY <2>5, <2>8, <3>1, <3>2
    <3> QED BY <2>1, <2>7, <3>1, <3>3 DEF BaseInv, PodsOK
  <2>9. Verdict(ip) = Decision(state[s].open)
    BY <2>3, <2>4, <2>6, <2>8, VerdictIs
  <2> QED BY <2>9 DEF ip, Decision
<1> QED BY <1>1, InitLine, NextLine, PTL DEF Spec

\* A deleted sandbox leaves nothing behind, and no early accept is there that no sandbox
\* claims, for every number of sandboxes, addresses, creations and faults, and with
\* passes at any moment (deleteSandboxRuntimeArtifacts, provisionSandboxSync).
THEOREM NothingIsEverLeft == Spec => []NothingLeft
<1>1. RuleInv => NothingLeft
  <2> SUFFICES ASSUME RuleInv, crashes = 0, ~ strayed
               PROVE  /\ \A s \in Sandbox : Absent(s) =>
                           /\ rules[s] = <<>>
                           /\ \A i \in 1..Len(hooks) : hooks[i][2] # s
                           /\ \A i \in 1..Len(nat) : nat[i].to # s
                           /\ s \in leaves => pod[s].name # 0
                      /\ \A i \in 1..Len(forward) : forward[i] \in Claimed \cup {Jump}
    BY DEF NothingLeft
  <2>1. BaseInv /\ Lines /\ Owned
    BY DEF RuleInv, NatInv
  <2>2. ASSUME NEW s \in Sandbox, Absent(s)
        PROVE  /\ rules[s] = <<>>
               /\ \A i \in 1..Len(hooks) : hooks[i][2] # s
               /\ \A i \in 1..Len(nat) : nat[i].to # s
               /\ s \in leaves => pod[s].name # 0
    <3>1. task[s].pc = "idle" /\ state[s] = NoState /\ ~ Finalizing(s)
      BY <2>1, <2>2 DEF Absent, Finalizing, BaseInv, FilesOK
    <3>2. LineInv(s) /\ Address(s) = NoIP
      BY <2>1, <3>1, Constants DEF Lines, Doomed, Address
    <3>3. Clean(s)
      BY <2>1, <3>2, NoAddress DEF LineInv
    <3>4. NatOf(s) = {}
      BY <2>1, <3>1, Constants DEF Owned, OwnInv, NatFits
    <3>5. s \in leaves => pod[s].name # 0
      BY <3>1, <3>2 DEF LineInv, PodFits
    <3>6. \A i \in 1..Len(hooks) : hooks[i] \in ToSet(hooks)
      BY <2>1 DEF BaseInv, RulesOK, ToSet
    <3>7. \A i \in 1..Len(nat) : nat[i] \in ToSet(nat)
      BY <2>1 DEF BaseInv, RulesOK, ToSet
    <3> QED BY <3>3, <3>4, <3>5, <3>6, <3>7 DEF Clean, HooksOf, NatOf
  <2>3. ASSUME NEW i \in 1..Len(forward), forward[i] # Jump PROVE forward[i] \in Claimed
    <3>1. forward[i] \in ToSet(forward)
      BY <2>1 DEF BaseInv, ForwardOK, ToSet
    <3>2. PICK s \in Sandbox : Holds(s, forward[i])
      BY <2>1, <2>3, <3>1 DEF Lines
    <3>3. forward[i] # NoIP
      BY <2>1, <2>3, <3>1, AcceptsAddresses
    <3>4. forward[i] = state[s].ip \/ forward[i] = task[s].copy.ip
      BY <3>2, <3>3 DEF Holds, Address
    <3> QED BY <3>4 DEF Claimed, Worker
  <2> QED BY <2>2, <2>3
<1> QED BY <1>1, InitLine, NextLine, PTL DEF Spec

=============================================================================
