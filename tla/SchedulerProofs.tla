--------------------------- MODULE SchedulerProofs ---------------------------
(***************************************************************************)
(* Theorems about Scheduler, for any number of tasks, any weights and      *)
(* times, any order of creation and any calls the tasks make.              *)
(*                                                                         *)
(* The second half is about how the CPU is shared among kernel threads     *)
(* that compute and exit, as those of main.c do, and about how tasks are   *)
(* numbered and listed; every theorem there names what it leaves out.      *)
(***************************************************************************)
EXTENDS Scheduler, FiniteSetTheorems, WellFoundedInduction, TLAPS

(***************************************************************************)
(* The inductive invariant.  Besides the type and the contract of the run  *)
(* queue it follows three things through every step: what the boot thread  *)
(* has still to create is out of everybody's reach, the program point of a *)
(* task agrees with its state, and the current task has been dispatched.   *)
(***************************************************************************)
Built(i) == i = 1 /\ pc[Idle] \in InCreate \ {"tid", "tid2"}

TodoInv ==
  /\ \A i, j \in DOMAIN todo : i # j => todo[i] # todo[j]
  /\ pc[Idle] \in InCreate => todo # <<>>
  /\ \A i \in DOMAIN todo :
       /\ pc[todo[i]] = "none"
       /\ todo[i] \notin rq /\ todo[i] # current
       /\ state[todo[i]] = IF Built(i) THEN "RUNNABLE" ELSE "NONE"

PcInv ==
  /\ pc[Idle] \in InCreate \cup {"run"}
  /\ (pc[Idle] = "tid2") => reg \in Nat
  /\ (pc[Idle] = "slot") => current = Idle
  /\ (pc[Idle] = "slotGone") => "queue" \in torn
  /\ \A t \in Task :
       /\ pc[t] \notin InCreate
       /\ (pc[t] = "none") =>
            \/ state[t] = "NONE"
            \/ todo # <<>> /\ t = todo[1] /\ Built(1)
       /\ (pc[t] \in {"run", "doze"}) => state[t] \in {"RUNNING", "RUNNABLE"}
       /\ (pc[t] \in {"slice", "asleep"}) => state[t] # "ZOMBIE"
       /\ (pc[t] # "none") => state[t] # "NONE"
       /\ t \in rq => pc[t] # "none"

CurrentInv ==
  current # Idle => /\ state[current] \in {"RUNNING", "SLEEPING", "ZOMBIE"}
                    /\ pc[current] # "none"

\* The tasks whose next_all has been written: only the idle task, the first
\* in the list, has a null one.
Linked == {t \in Task : pc[t] # "none"
                          \/ /\ pc[Idle] \in {"head", "count", "count2", "push",
                                              "slot", "slotGone"}
                             /\ t = todo[1]}
LinkInv == \A t \in Linked : nextAll[t] \in Thread

\* What only depends on state, rq, current, pc, todo, reg and torn.
Shape == CurrentApart /\ TodoInv /\ PcInv /\ CurrentInv

IInv == TypeOK /\ Shape /\ LinkInv

-----------------------------------------------------------------------------
(* The naturals are well ordered: a non-empty set of them has a least one.  *)

LEMMA LeastNat ==
  ASSUME NEW S \in SUBSET Nat, S # {}
  PROVE  \E m \in S : \A n \in S : m <= n
<1> DEFINE R == {p \in Nat \X Nat : p[1] < p[2]}
<1>1. IsWellFoundedOn(R, Nat)
  BY NatLessThanWellFounded, Zenon DEF OpToRel
<1>2. PICK m \in S : \A n \in S : <<n, m>> \notin R
  <2> HIDE DEF R
  <2> QED
    BY <1>1, WFMin
<1>3. \A n \in S : m <= n
  <2> SUFFICES ASSUME NEW n \in S, n < m PROVE FALSE
    OBVIOUS
  <2>1. <<n, m>> \in Nat \X Nat /\ <<n, m>>[1] < <<n, m>>[2]
    OBVIOUS
  <2>2. <<n, m>> \in R
    BY <2>1
  <2> QED
    BY <1>2, <2>2
<1> QED
  BY <1>3

-----------------------------------------------------------------------------
(* Arithmetic of the run queue's key                                       *)

\* The least vruntime of a non-empty queue is one of its vruntimes.
LEMMA QueueMinType ==
  ASSUME NEW v \in [Thread -> Nat], rq \subseteq Task, rq # {}
  PROVE  /\ QueueMin(v) \in Nat
         /\ \A t \in rq : QueueMin(v) <= v[t]
<1> DEFINE S == {v[t] : t \in rq}
<1>1. S \in SUBSET Nat /\ S # {}
  BY DEF Thread
<1>2. \E m \in S : \A n \in S : m <= n
  BY <1>1, LeastNat
<1>3. \E m \in S : \A t \in rq : m <= v[t]
  BY <1>2
<1>4. QueueMin(v) \in S /\ \A t \in rq : QueueMin(v) <= v[t]
  BY <1>3 DEF QueueMin
<1> QED
  BY <1>1, <1>4

\* min_vruntime never decreases.
LEMMA UpdatedMinType ==
  ASSUME NEW v \in [Thread -> Nat], rq \subseteq Task, current \in Thread,
         minVruntime \in Nat
  PROVE  UpdatedMin(v) \in Nat /\ UpdatedMin(v) >= minVruntime
<1>1. rq # {} => QueueMin(v) \in Nat
  BY QueueMinType
<1> QED
  BY <1>1 DEF UpdatedMin, Thread

\* A charge, delta * NICE_0_WEIGHT / weight, is a natural number.
LEMMA ChargeType ==
  ASSUME NEW d \in Nat, NEW w \in Nat \ {0}
  PROVE  (d * Nice0) \div w \in Nat
<1>1. d * Nice0 \in Nat
  BY NumberAssumption
<1> HIDE NumberAssumption
<1> DEFINE p == d * Nice0
<1>2. p \in Nat
  BY <1>1
<1> HIDE DEF p
<1>3. p \div w \in Nat
  BY <1>2
<1> QED
  BY <1>3 DEF p

-----------------------------------------------------------------------------
(* Every step keeps the inductive invariant                                *)

\* What is left to create, once its head is taken off.
LEMMA TodoTail ==
  ASSUME todo \in Seq(Task), todo # <<>>
  PROVE  /\ New = todo[1] /\ New \in Task /\ 1 \in DOMAIN todo
         /\ Tail(todo) \in Seq(Task)
         /\ \A i \in DOMAIN Tail(todo) :
              /\ i \in Nat \ {0} /\ i + 1 \in DOMAIN todo
              /\ Tail(todo)[i] = todo[i + 1]
  BY DEF New

\* A task in todo other than the one under construction does not exist yet.
LEMMA TodoTailInv ==
  ASSUME TypeOK, TodoInv, todo # <<>>
  PROVE  /\ \A i, j \in DOMAIN Tail(todo) : i # j => Tail(todo)[i] # Tail(todo)[j]
         /\ \A i \in DOMAIN Tail(todo) :
              /\ Tail(todo)[i] # New
              /\ pc[Tail(todo)[i]] = "none"
              /\ Tail(todo)[i] \notin rq /\ Tail(todo)[i] # current
              /\ state[Tail(todo)[i]] = "NONE"
<1>1. todo \in Seq(Task)
  BY DEF TypeOK
<1> QED
  BY <1>1, TodoTail DEF TodoInv, Built

LEMMA InitIInv == Init => IInv
<1> SUFFICES ASSUME Init PROVE IInv
  OBVIOUS
<1>1. TypeOK
  <2>1. state \in [Thread -> States] /\ pc \in [Thread -> Points]
    BY DEF Init, States, Points
  <2>2. /\ vruntime \in [Thread -> Nat] /\ runtime \in [Thread -> Nat]
        /\ tid \in [Thread -> Nat] /\ used \in [Thread -> Nat]
        /\ nextAll \in [Thread -> Thread \cup {Null}]
        /\ prevAll \in [Thread -> Thread \cup {Null}]
    BY DEF Init
  <2>3. /\ allHead \in Thread /\ current \in Thread /\ todo \in Seq(Task)
        /\ now \in Nat /\ sliceStart <= now
    BY TaskAssumption, NumberAssumption DEF Init, Thread
  <2>4. /\ taskCount \in Int /\ nextTid \in Nat /\ minVruntime \in Nat
        /\ sliceStart \in Nat /\ rq \subseteq Task /\ reg \in Int
        /\ torn \subseteq {"create", "exit", "queue"}
    BY DEF Init
  <2>5. halted \in BOOLEAN
    BY DEF Init
  <2> QED
    BY <2>1, <2>2, <2>3, <2>4, <2>5 DEF TypeOK
<1>2. CurrentApart /\ CurrentInv
  BY DEF Init, CurrentApart, CurrentInv
<1>3. \A i \in DOMAIN todo : todo[i] \in Task
  BY TaskAssumption DEF Init
<1>4. TodoInv
  BY <1>3, TaskAssumption DEF Init, TodoInv, Built, InCreate, Thread
<1>5. PcInv
  BY TaskAssumption DEF Init, PcInv, Built, InCreate, Thread
<1>6. LinkInv
  BY TaskAssumption DEF Init, LinkInv, Linked, Thread
<1> QED
  BY <1>1, <1>2, <1>4, <1>5, <1>6 DEF IInv, Shape

LEMMA CreateAllocIInv == IInv /\ CreateAlloc => IInv'
<1> SUFFICES ASSUME IInv, CreateAlloc PROVE IInv'
  OBVIOUS
<1> USE TaskAssumption
    DEF IInv, Shape, CreateAlloc, At, Goto, tcb, links, clock
<1>1. Idle \in Thread /\ todo \in Seq(Task) /\ todo # <<>> /\ pc \in [Thread -> Points]
  BY DEF TypeOK, Thread
<1>2. CASE pc' = [pc EXCEPT ![Idle] = "tid"] /\ UNCHANGED todo
  <2>1. TypeOK'
    BY <1>1, <1>2 DEF TypeOK, Points, InCreate
  <2>2. CurrentApart' /\ CurrentInv'
    BY <1>1, <1>2 DEF CurrentApart, CurrentInv
  <2>3. TodoInv'
    BY <1>1, <1>2 DEF TodoInv, Built, InCreate
  <2>4. PcInv'
    BY <1>1, <1>2 DEF PcInv, Built, InCreate, Thread
  <2>5. LinkInv'
    BY <1>1, <1>2 DEF LinkInv, Linked, Thread
  <2> QED
    BY <2>1, <2>2, <2>3, <2>4, <2>5
<1>3. CASE todo' = Tail(todo) /\ UNCHANGED pc
  <2>1. TypeOK'
    BY <1>1, <1>3, TodoTail DEF TypeOK
  <2>2. CurrentApart' /\ CurrentInv'
    BY <1>1, <1>3 DEF CurrentApart, CurrentInv
  <2>3. TodoInv'
    BY <1>1, <1>3, TodoTailInv DEF TodoInv, Built, InCreate
  <2>4. PcInv'
    BY <1>1, <1>3 DEF PcInv, Built, InCreate, Thread
  <2>5. LinkInv'
    BY <1>1, <1>3 DEF LinkInv, Linked, Thread
  <2> QED
    BY <2>1, <2>2, <2>3, <2>4, <2>5
<1> QED
  BY <1>2, <1>3

\* The boot thread moves on inside sched_create_kthread and touches none of
\* state, rq, current and todo.
LEMMA BuildStep ==
  ASSUME IInv, NEW p \in InCreate \ {"tid", "tid2", "slotGone"},
         pc[Idle] \in InCreate \ {"tid", "tid2"},
         current = Idle, pc' = [pc EXCEPT ![Idle] = p],
         UNCHANGED <<state, rq, current, todo, torn>>
  PROVE  Shape' /\ pc' \in [Thread -> Points]
<1> USE TaskAssumption DEF IInv, Shape
<1>1. Idle \in Thread /\ pc \in [Thread -> Points] /\ todo \in Seq(Task)
  BY DEF TypeOK, Thread
<1>2. pc'[Idle] = p /\ \A t \in Task : pc'[t] = pc[t]
  BY <1>1 DEF Thread
<1>3. pc' \in [Thread -> Points]
  BY <1>1 DEF Points
<1>4. CurrentApart' /\ CurrentInv'
  BY <1>1 DEF CurrentApart, CurrentInv
<1>5. TodoInv'
  BY <1>1, <1>2 DEF TodoInv, Built
<1>6. PcInv'
  BY <1>1, <1>2 DEF PcInv, Built
<1> QED
  BY <1>3, <1>4, <1>5, <1>6 DEF Shape

\* The current task moves to a program point outside sched_create_kthread,
\* may mark itself SLEEPING or ZOMBIE, and links of the list may change.
LEMMA TaskStep ==
  ASSUME IInv, NEW t \in Task, current = t,
         NEW p \in Points \ (InCreate \cup {"none"}),
         NEW s \in {"RUNNING", "SLEEPING", "ZOMBIE"},
         (p \in {"run", "doze"}) => s = "RUNNING",
         (p \in {"slice", "asleep"}) => s # "ZOMBIE",
         pc' = [pc EXCEPT ![t] = p], state' = [state EXCEPT ![t] = s],
         UNCHANGED <<rq, current, todo, reg, torn>>,
         \A u \in Task : nextAll'[u] = nextAll[u] \/ nextAll'[u] \in Thread
  PROVE  Shape' /\ LinkInv' /\ pc' \in [Thread -> Points]
                /\ state' \in [Thread -> States]
<1> USE TaskAssumption DEF IInv, Shape
<1>1. /\ t \in Thread /\ t # Idle /\ Idle \in Thread
      /\ pc \in [Thread -> Points] /\ state \in [Thread -> States]
      /\ rq \subseteq Task /\ \A i \in DOMAIN todo : todo[i] \in Task
  <2>1. todo \in Seq(Task)
    BY DEF TypeOK
  <2>2. \A i \in DOMAIN todo : todo[i] \in Task
    BY <2>1
  <2> QED
    BY <2>2 DEF TypeOK, Thread
<1>2. /\ pc'[t] = p /\ pc'[Idle] = pc[Idle] /\ state'[t] = s
      /\ \A u \in Task : u # t => pc'[u] = pc[u] /\ state'[u] = state[u]
      /\ pc[t] # "none"
  BY <1>1 DEF Thread, CurrentInv
<1>3. pc' \in [Thread -> Points] /\ state' \in [Thread -> States]
  BY <1>1 DEF Points, States
<1>4. CurrentApart' /\ CurrentInv'
  BY <1>1, <1>2 DEF CurrentApart, CurrentInv
<1>5. TodoInv'
  BY <1>1, <1>2 DEF TodoInv, Built
<1>6. PcInv'
  BY <1>1, <1>2 DEF PcInv, Built
<1>7. LinkInv'
  BY <1>1, <1>2 DEF LinkInv, Linked
<1> QED
  BY <1>3, <1>4, <1>5, <1>6, <1>7

LEMMA CreateTidLoadIInv == IInv /\ CreateTidLoad => IInv'
<1> SUFFICES ASSUME IInv, CreateTidLoad PROVE IInv'
  OBVIOUS
<1> USE TaskAssumption
    DEF IInv, Shape, CreateTidLoad, At, Goto, tcb, links, clock
<1>1. Idle \in Thread /\ todo \in Seq(Task) /\ pc \in [Thread -> Points]
  BY DEF TypeOK, Thread
<1>2. TypeOK'
  BY <1>1 DEF TypeOK, Points, InCreate
<1>3. CurrentApart' /\ CurrentInv'
  BY <1>1 DEF CurrentApart, CurrentInv
<1>4. TodoInv'
  BY <1>1 DEF TodoInv, Built, InCreate
<1>5. PcInv'
  BY <1>1 DEF PcInv, Built, InCreate, Thread, TypeOK
<1>6. LinkInv'
  BY <1>1 DEF LinkInv, Linked, Thread
<1> QED
  BY <1>2, <1>3, <1>4, <1>5, <1>6

LEMMA CreateTidStoreIInv == IInv /\ CreateTidStore => IInv'
<1> SUFFICES ASSUME IInv, CreateTidStore PROVE IInv'
  OBVIOUS
<1> USE TaskAssumption
    DEF IInv, Shape, CreateTidStore, At, Goto, links, clock
<1>1. /\ Idle \in Thread /\ todo \in Seq(Task) /\ pc \in [Thread -> Points]
      /\ todo # <<>> /\ state \in [Thread -> States] /\ pc[Idle] \in InCreate
  BY DEF TypeOK, Thread, TodoInv, InCreate
<1>2. /\ New \in Task /\ New = todo[1] /\ New # Idle /\ New \in Thread
      /\ 1 \in DOMAIN todo
  BY <1>1, TodoTail DEF Thread
<1>3. New \notin rq /\ New # current /\ pc[New] = "none"
  BY <1>1, <1>2 DEF TodoInv
<1>4. TypeOK'
  <2>1. reg \in Nat
    BY DEF PcInv
  <2>2. pc' \in [Thread -> Points]
    BY <1>1 DEF Points, InCreate
  <2>3. state' \in [Thread -> States]
    BY <1>1 DEF States
  <2>4. tid' \in [Thread -> Nat] /\ nextTid' \in Nat
    BY <1>2, <2>1 DEF TypeOK
  <2> QED
    BY <2>2, <2>3, <2>4 DEF TypeOK
<1>5. CurrentApart' /\ CurrentInv'
  BY <1>1, <1>2, <1>3 DEF CurrentApart, CurrentInv, TypeOK, Thread
<1>6. TodoInv'
  <2>1. \A i \in DOMAIN todo : todo[i] \in Task /\ todo[i] # Idle
    BY <1>1
  <2>2. pc'[Idle] = "vruntime" /\ \A i \in DOMAIN todo : pc'[todo[i]] = "none"
    BY <1>1, <2>1 DEF TodoInv, Thread
  <2>3. state'[todo[1]] = "RUNNABLE"
    BY <1>1, <1>2
  <2>4. ASSUME NEW i \in DOMAIN todo, i # 1
        PROVE  state'[todo[i]] = "NONE"
    <3>1. todo[i] # todo[1] /\ state[todo[i]] = "NONE"
      BY <1>2, <2>4 DEF TodoInv, Built
    <3> QED
      BY <1>1, <1>2, <2>1, <3>1
  <2> QED
    BY <1>1, <2>2, <2>3, <2>4 DEF TodoInv, Built, InCreate
<1>7. PcInv'
  BY <1>1, <1>2, <1>3 DEF PcInv, Built, InCreate, Thread
<1>8. LinkInv'
  BY <1>1 DEF LinkInv, Linked, Thread
<1> QED
  BY <1>4, <1>5, <1>6, <1>7, <1>8

LEMMA CreateVruntimeIInv == IInv /\ CreateVruntime => IInv'
<1> SUFFICES ASSUME IInv, CreateVruntime PROVE IInv'
  OBVIOUS
<1> USE TaskAssumption
    DEF IInv, Shape, CreateVruntime, At, Goto, links, clock
<1>1. /\ Idle \in Thread /\ todo \in Seq(Task) /\ pc \in [Thread -> Points]
      /\ todo # <<>> /\ state \in [Thread -> States] /\ pc[Idle] = "vruntime"
  BY DEF TypeOK, Thread, TodoInv, InCreate
<1>2. /\ New \in Task /\ New = todo[1] /\ New # Idle /\ New \in Thread
      /\ 1 \in DOMAIN todo
  BY <1>1, TodoTail DEF Thread
<1>3. New \notin rq /\ New # current /\ pc[New] = "none"
  BY <1>1, <1>2 DEF TodoInv
<1>4. minVruntime' \in Nat
  BY UpdatedMinType DEF TypeOK
<1>5. CASE /\ vruntime' = [vruntime EXCEPT ![New] = minVruntime']
           /\ pc' = [pc EXCEPT ![Idle] = "link"]
           /\ UNCHANGED <<state, tid, todo>>
  <2>1. Shape' /\ pc' \in [Thread -> Points]
    BY <1>1, <1>5, BuildStep DEF InCreate
  <2>2. TypeOK'
    BY <1>2, <1>4, <1>5, <2>1 DEF TypeOK
  <2>3. LinkInv'
    BY <1>1, <1>5 DEF LinkInv, Linked, Thread
  <2> QED
    BY <2>1, <2>2, <2>3 DEF Shape
<1>6. CASE /\ state' = [state EXCEPT ![New] = "NONE"]
           /\ tid' = [tid EXCEPT ![New] = 0]
           /\ todo' = Tail(todo)
           /\ pc' = [pc EXCEPT ![Idle] = "run"]
           /\ UNCHANGED vruntime
  <2>1. TypeOK'
    BY <1>1, <1>2, <1>4, <1>6, TodoTail DEF TypeOK, Points, States
  <2>2. CurrentApart' /\ CurrentInv'
    BY <1>1, <1>2, <1>3, <1>6 DEF CurrentApart, CurrentInv, TypeOK, Thread
  <2>3. \A i \in DOMAIN todo' : todo'[i] \in Task
    BY <1>1, <1>6, TodoTail
  <2>4. TodoInv'
    BY <1>1, <1>2, <1>6, <2>3, TodoTailInv DEF TodoInv, Built, InCreate, Thread
  <2>5. PcInv'
    BY <1>1, <1>2, <1>3, <1>6 DEF PcInv, Built, InCreate, Thread
  <2>6. LinkInv'
    BY <1>1, <1>6 DEF LinkInv, Linked, Thread
  <2> QED
    BY <2>1, <2>2, <2>4, <2>5, <2>6
<1> QED
  BY <1>5, <1>6

\* The steps of sched_create_kthread that only touch the list and the count.
LEMMA CreateListIInv ==
  IInv /\ (CreateLink \/ CreateHead \/ CreateCountLoad \/ CreateCountStore)
    => IInv'
<1> SUFFICES ASSUME IInv,
                    CreateLink \/ CreateHead \/ CreateCountLoad \/ CreateCountStore
             PROVE  IInv'
  OBVIOUS
<1> USE TaskAssumption DEF IInv, At, Goto, tcb, links, boot, clock
<1>1. /\ Idle \in Thread /\ todo \in Seq(Task)
      /\ pc[Idle] \in InCreate => todo # <<>>
  BY DEF TypeOK, Thread, Shape, TodoInv
<1>2. todo # <<>> => New \in Task /\ New \in Thread
  BY <1>1, TodoTail DEF Thread
<1>3. Shape' /\ pc' \in [Thread -> Points]
  <2>1. CASE CreateLink
    BY <2>1, BuildStep DEF CreateLink, InCreate
  <2>2. CASE CreateHead
    BY <2>2, BuildStep DEF CreateHead, InCreate
  <2>3. CASE CreateCountLoad
    BY <2>3, BuildStep DEF CreateCountLoad, InCreate
  <2>4. CASE CreateCountStore
    BY <2>4, BuildStep DEF CreateCountStore, InCreate
  <2> QED
    BY <2>1, <2>2, <2>3, <2>4
<1>4. TypeOK'
  <2>1. CASE CreateLink
    BY <1>1, <1>2, <1>3, <2>1 DEF TypeOK, CreateLink, InCreate
  <2>2. CASE CreateHead
    BY <1>1, <1>2, <1>3, <2>2 DEF TypeOK, CreateHead, InCreate
  <2>3. CASE CreateCountLoad
    BY <1>3, <2>3 DEF TypeOK, CreateCountLoad
  <2>4. CASE CreateCountStore
    BY <1>3, <2>4 DEF TypeOK, CreateCountStore
  <2> QED
    BY <2>1, <2>2, <2>3, <2>4
<1>5. LinkInv'
  <2>1. pc \in [Thread -> Points] /\ allHead \in Thread
        /\ nextAll \in [Thread -> Thread \cup {Null}]
    BY DEF TypeOK
  <2>2. CASE CreateLink
    <3>1. /\ pc'[Idle] = "head" /\ \A t \in Task : pc'[t] = pc[t]
          /\ New = todo[1] /\ New \in Task
      BY <1>1, <2>1, <2>2, TodoTail DEF CreateLink, InCreate, Thread
    <3>2. \A t \in Linked' : t = New \/ t \in Linked
      BY <3>1, <2>2 DEF Linked, CreateLink
    <3> QED
      BY <1>2, <2>1, <2>2, <3>1, <3>2 DEF LinkInv, Linked, CreateLink, Thread
  <2>3. CASE CreateHead
    BY <1>1, <2>1, <2>3 DEF LinkInv, Linked, CreateHead, Thread
  <2>4. CASE CreateCountLoad
    BY <1>1, <2>1, <2>4 DEF LinkInv, Linked, CreateCountLoad, Thread
  <2>5. CASE CreateCountStore
    BY <1>1, <2>1, <2>5 DEF LinkInv, Linked, CreateCountStore, Thread
  <2> QED
    BY <2>2, <2>3, <2>4, <2>5
<1> QED
  BY <1>3, <1>4, <1>5 DEF Shape

\* The task under construction gets its first program point and leaves todo.
LEMMA BuiltStep ==
  ASSUME IInv, pc[Idle] \in {"push", "slot", "slotGone"},
         pc' = [pc EXCEPT ![Idle] = "run", ![New] = "run"],
         todo' = Tail(todo), rq' = rq \/ rq' = rq \cup {New},
         UNCHANGED <<state, current, reg, nextAll, torn>>
  PROVE  Shape' /\ LinkInv' /\ pc' \in [Thread -> Points]
                /\ todo' \in Seq(Task) /\ rq' \subseteq Task
<1> USE TaskAssumption DEF IInv
<1>1. /\ Idle \in Thread /\ todo \in Seq(Task) /\ pc \in [Thread -> Points]
      /\ todo # <<>> /\ rq \subseteq Task
  BY DEF TypeOK, Thread, Shape, TodoInv, InCreate
<1>2. /\ New \in Task /\ New = todo[1] /\ New # Idle /\ New \in Thread
      /\ 1 \in DOMAIN todo
  BY <1>1, TodoTail DEF Thread
<1>3. New \notin rq /\ New # current /\ pc[New] = "none" /\ state[New] = "RUNNABLE"
  BY <1>1, <1>2 DEF Shape, TodoInv, Built, InCreate
<1>4. /\ pc'[Idle] = "run" /\ pc'[New] = "run"
      /\ \A t \in Task : t # New => pc'[t] = pc[t]
  BY <1>1, <1>2 DEF Thread
<1>5. pc' \in [Thread -> Points]
  BY <1>1 DEF Points
<1>6. todo' \in Seq(Task) /\ rq' \subseteq Task /\ \A i \in DOMAIN todo' : todo'[i] \in Task
  BY <1>1, <1>2, TodoTail
<1>7. CurrentApart' /\ CurrentInv'
  BY <1>1, <1>2, <1>3, <1>4 DEF Shape, CurrentApart, CurrentInv, TypeOK, Thread
<1>8. TodoInv'
  <2>1. \A i \in DOMAIN todo' :
          /\ todo'[i] # New /\ pc[todo'[i]] = "none" /\ todo'[i] \notin rq
          /\ todo'[i] # current /\ state[todo'[i]] = "NONE"
          /\ \A j \in DOMAIN todo' : i # j => todo'[i] # todo'[j]
    BY <1>1, TodoTailInv DEF Shape
  <2>2. \A i \in DOMAIN todo' : todo'[i] \notin rq'
    BY <2>1
  <2>3. ASSUME NEW i \in DOMAIN todo'
        PROVE  pc'[todo'[i]] = "none"
    <3>1. todo'[i] \in Task /\ todo'[i] # New /\ pc[todo'[i]] = "none"
      BY <1>6, <2>1
    <3> HIDE DEF IInv
    <3> QED
      BY <1>4, <3>1
  <2> QED
    BY <1>4, <2>1, <2>2, <2>3 DEF TodoInv, Built, InCreate
<1>9. PcInv'
  <2>1. PcInv /\ pc[Idle] \in InCreate
    BY DEF Shape, InCreate
  <2>2. ASSUME NEW t \in Task, t # New
        PROVE  /\ pc'[t] = pc[t] /\ state'[t] = state[t]
               /\ pc[t] = "none" => state[t] = "NONE"
    BY <1>2, <1>4, <2>1, <2>2 DEF PcInv
  <2>3. pc'[New] = "run" /\ state'[New] = "RUNNABLE"
    BY <1>3, <1>4
  <2> HIDE DEF IInv
  <2>4. ASSUME NEW t \in Task
        PROVE  (/\ pc[t] \notin InCreate
                /\ (pc[t] = "none") =>
                     \/ state[t] = "NONE"
                     \/ todo # <<>> /\ t = todo[1] /\ Built(1)
                /\ (pc[t] \in {"run", "doze"}) => state[t] \in {"RUNNING", "RUNNABLE"}
                /\ (pc[t] \in {"slice", "asleep"}) => state[t] # "ZOMBIE"
                /\ (pc[t] # "none") => state[t] # "NONE"
                /\ (t \in rq) => pc[t] # "none")'
    <3>1. CASE t = New
      BY <2>3, <3>1 DEF InCreate
    <3>2. CASE t # New
      BY <2>1, <2>2, <3>2 DEF PcInv
    <3> QED
      BY <3>1, <3>2
  <2>5. pc'[Idle] = "run"
    BY <1>4
  <2> QED
    BY <2>4, <2>5 DEF PcInv
<1>10. LinkInv'
  BY <1>1, <1>2, <1>4 DEF LinkInv, Linked
<1> QED
  BY <1>5, <1>6, <1>7, <1>8, <1>9, <1>10 DEF Shape

LEMMA CreatePushIInv ==
  IInv /\ (CreateGrow \/ CreateSlot \/ CreateSlotLate) => IInv'
<1> SUFFICES ASSUME IInv, CreateGrow \/ CreateSlot \/ CreateSlotLate PROVE IInv'
  OBVIOUS
<1> USE TaskAssumption DEF IInv, At, Goto, tcb, links, clock
<1>1. /\ Idle \in Thread /\ todo \in Seq(Task) /\ pc \in [Thread -> Points]
  BY DEF TypeOK, Thread
<1>2. CASE CreateSlot \/ CreateSlotLate
  <2>1. Shape' /\ LinkInv' /\ pc' \in [Thread -> Points]
                /\ todo' \in Seq(Task) /\ rq' \subseteq Task
    BY <1>2, BuiltStep DEF CreateSlot, CreateSlotLate
  <2> QED
    BY <1>2, <2>1 DEF TypeOK, CreateSlot, CreateSlotLate
<1>3. CASE CreateGrow /\ Full(rq)
  <2>1. Shape' /\ LinkInv' /\ pc' \in [Thread -> Points]
                /\ todo' \in Seq(Task) /\ rq' \subseteq Task
    BY <1>3, BuiltStep DEF CreateGrow
  <2> QED
    BY <1>3, <2>1 DEF TypeOK, CreateGrow
<1>4. CASE CreateGrow /\ ~Full(rq)
  <2>1. Shape' /\ pc' \in [Thread -> Points]
    BY <1>4, BuildStep DEF CreateGrow, InCreate
  <2>2. LinkInv'
    BY <1>1, <1>4 DEF LinkInv, Linked, CreateGrow, Thread
  <2> QED
    BY <1>4, <2>1, <2>2 DEF TypeOK, CreateGrow
<1> QED
  BY <1>2, <1>3, <1>4

LEMMA CloneIInv ==
  ASSUME NEW u \in Task, NEW t \in Task, IInv, Clone(u, t)
  PROVE  IInv'
<1> USE TaskAssumption DEF IInv, Clone, At, Goto, clock
<1>1. /\ t \in Thread /\ t # Idle /\ current = u /\ t # u /\ Idle \in Thread
      /\ pc \in [Thread -> Points] /\ state \in [Thread -> States]
      /\ rq \subseteq Task
      /\ \A i \in DOMAIN todo : todo[i] \in Task /\ todo[i] # t
  <2>1. todo \in Seq(Task) /\ pc \in [Thread -> Points]
        /\ state \in [Thread -> States] /\ rq \subseteq Task
    BY DEF TypeOK
  <2>2. \A i \in DOMAIN todo : todo[i] \in Task /\ todo[i] # t
    BY <2>1
  <2>3. t \in Thread /\ t # Idle /\ current = u /\ t # u /\ Idle \in Thread
    BY DEF Thread
  <2> QED
    BY <2>1, <2>2, <2>3
<1>2. /\ pc' \in [Thread -> Points] /\ pc'[t] = "run" /\ pc'[Idle] = pc[Idle]
      /\ \A s \in Task : s # t => pc'[s] = pc[s]
  BY <1>1 DEF Points, Thread
<1>3. /\ state' \in [Thread -> States] /\ state'[t] = "RUNNABLE"
      /\ \A s \in Thread : s # t => state'[s] = state[s]
  BY <1>1 DEF States
<1>4. rq' \subseteq Task /\ rq' \subseteq rq \cup {t}
  BY <1>1 DEF Pushed
<1>5. UpdatedMin(vruntime) \in Nat
  BY UpdatedMinType DEF TypeOK
<1>6. TypeOK'
  <2>1. vruntime' \in [Thread -> Nat] /\ minVruntime' \in Nat
    BY <1>5 DEF TypeOK
  <2>2. nextAll' \in [Thread -> Thread \cup {Null}] /\ allHead' \in Thread
        /\ prevAll' \in [Thread -> Thread \cup {Null}]
    BY <1>1 DEF TypeOK
  <2>3. tid' \in [Thread -> Nat] /\ nextTid' \in Nat /\ taskCount' \in Int
    <3>1. tid \in [Thread -> Nat] /\ nextTid \in Nat /\ taskCount \in Int
      BY DEF TypeOK
    <3>2. tid' \in [Thread -> Nat]
      BY <3>1
    <3>3. nextTid' \in Nat /\ taskCount' \in Int
      BY <3>1
    <3> QED
      BY <3>2, <3>3
  <2>4. /\ runtime' \in [Thread -> Nat] /\ sliceStart' \in Nat
        /\ current' \in Thread /\ now' \in Nat /\ sliceStart' <= now'
    BY DEF TypeOK
  <2>5. /\ todo' \in Seq(Task) /\ reg' \in Int /\ used' \in [Thread -> Nat]
        /\ torn' \subseteq {"create", "exit", "queue"}
    BY DEF TypeOK
  <2>6. halted' \in BOOLEAN
    BY DEF TypeOK
  <2> QED
    BY <1>2, <1>3, <1>4, <2>1, <2>2, <2>3, <2>4, <2>5, <2>6 DEF TypeOK
<1>7. CurrentApart' /\ CurrentInv'
  BY <1>1, <1>2, <1>3, <1>4 DEF Shape, CurrentApart, CurrentInv, Thread
<1>8. TodoInv'
  <2>1. \A i \in DOMAIN todo : pc'[todo[i]] = pc[todo[i]] /\ todo[i] \in Thread
                                  /\ state'[todo[i]] = state[todo[i]]
                                  /\ (todo[i] \in rq' => todo[i] \in rq)
    BY <1>1, <1>2, <1>3, <1>4 DEF Thread
  <2> QED
    BY <1>2, <2>1 DEF Shape, TodoInv, Built
<1>9. PcInv'
  <2>1. ASSUME NEW s \in Task, s # t
        PROVE  /\ pc'[s] = pc[s] /\ state'[s] = state[s]
               /\ s \in rq' => s \in rq
    <3> HIDE DEF IInv, Clone
    <3> QED
      BY <1>2, <1>3, <1>4, <2>1 DEF Thread
  <2>2. pc'[t] = "run" /\ pc'[Idle] = pc[Idle]
    BY <1>1, <1>2 DEF Thread
  <2> QED
    BY <1>1, <1>3, <2>1, <2>2 DEF Shape, PcInv, Built, InCreate, Thread
<1>10. LinkInv'
  <2>1. nextAll'[t] \in Thread /\ \A s \in Task : s # t => nextAll'[s] = nextAll[s]
    BY <1>1 DEF TypeOK, Thread
  <2> QED
    BY <1>1, <1>2, <2>1 DEF LinkInv, Linked
<1> QED
  BY <1>6, <1>7, <1>8, <1>9, <1>10 DEF Shape

\* What sched_exit writes into the list are TCBs and nulls, and the list does
\* not become empty.
LEMMA UnlinkType ==
  ASSUME IInv, NEW t \in Task, current = t
  PROVE  /\ SkipForward(nextAll, t) \in [Thread -> Thread \cup {Null}]
         /\ SkipBackward(prevAll, t) \in [Thread -> Thread \cup {Null}]
         /\ HeadWithout(t) \in Thread
         /\ \A u \in Task :
              \/ SkipForward(nextAll, t)[u] = nextAll[u]
              \/ SkipForward(nextAll, t)[u] \in Thread
<1>1. /\ nextAll \in [Thread -> Thread \cup {Null}]
      /\ prevAll \in [Thread -> Thread \cup {Null}]
      /\ allHead \in Thread /\ t \in Thread
  BY DEF IInv, TypeOK, Thread
<1>2. nextAll[t] \in Thread
  <2>1. t # Idle /\ t \in Linked
    BY TaskAssumption DEF IInv, Shape, CurrentInv, Linked
  <2> QED
    BY <2>1 DEF IInv, LinkInv
<1>3. HeadWithout(t) \in Thread
  BY <1>1, <1>2 DEF HeadWithout
<1>4. /\ SkipForward(nextAll, t) \in [Thread -> Thread \cup {Null}]
      /\ \A u \in Thread :
           \/ SkipForward(nextAll, t)[u] = nextAll[u]
           \/ SkipForward(nextAll, t)[u] \in Thread
  BY <1>1, <1>2 DEF SkipForward
<1>5. SkipBackward(prevAll, t) \in [Thread -> Thread \cup {Null}]
  BY <1>1 DEF SkipBackward
<1> QED
  BY <1>3, <1>4, <1>5 DEF Thread

LEMMA ExitStepIInv ==
  ASSUME NEW t \in Task, IInv, ExitStep(t)
  PROVE  IInv'
<1> USE DEF At, Goto, tcb, links, boot, clock
<1>1. /\ t # Idle /\ state[t] \in {"RUNNING", "SLEEPING", "ZOMBIE"}
      /\ state \in [Thread -> States] /\ current = t
  BY TaskAssumption DEF IInv, Shape, CurrentInv, TypeOK, ExitStep, ExitZombie,
     ExitUnlinkPrev, ExitUnlinkNext, ExitUnlinkHead, ExitUncount
<1>2. state = [state EXCEPT ![t] = state[t]]
  BY <1>1
<1>3. CASE ExitZombie(t)
  <2>1. Shape' /\ LinkInv' /\ pc' \in [Thread -> Points]
               /\ state' \in [Thread -> States]
    BY <1>3, TaskStep DEF ExitZombie, Points, InCreate, InExit
  <2> QED
    BY <1>3, <2>1 DEF ExitZombie, IInv, TypeOK
<1>4. CASE ExitUnlinkPrev(t)
  <2>1. \A u \in Task : nextAll'[u] = nextAll[u] \/ nextAll'[u] \in Thread
    BY <1>1, <1>4, UnlinkType DEF ExitUnlinkPrev
  <2>2. Shape' /\ LinkInv' /\ pc' \in [Thread -> Points]
    BY <1>1, <1>2, <1>4, <2>1, TaskStep DEF ExitUnlinkPrev, Points, InCreate, InExit
  <2>3. nextAll' \in [Thread -> Thread \cup {Null}]
    BY <1>1, <1>4, UnlinkType DEF ExitUnlinkPrev
  <2> QED
    BY <1>4, <2>2, <2>3 DEF ExitUnlinkPrev, IInv, TypeOK
<1>5. CASE ExitUnlinkNext(t)
  <2>1. Shape' /\ LinkInv' /\ pc' \in [Thread -> Points]
    BY <1>1, <1>2, <1>5, TaskStep DEF ExitUnlinkNext, Points, InCreate, InExit
  <2>2. prevAll' \in [Thread -> Thread \cup {Null}]
    BY <1>1, <1>5, UnlinkType DEF ExitUnlinkNext
  <2> QED
    BY <1>5, <2>1, <2>2 DEF ExitUnlinkNext, IInv, TypeOK
<1>6. CASE ExitUnlinkHead(t)
  <2>1. Shape' /\ LinkInv' /\ pc' \in [Thread -> Points]
    BY <1>1, <1>2, <1>6, TaskStep DEF ExitUnlinkHead, Points, InCreate, InExit
  <2>2. allHead' \in Thread
    BY <1>1, <1>6, UnlinkType DEF ExitUnlinkHead
  <2> QED
    BY <1>6, <2>1, <2>2 DEF ExitUnlinkHead, IInv, TypeOK
<1>7. CASE ExitUncount(t)
  <2>1. Shape' /\ LinkInv' /\ pc' \in [Thread -> Points]
    BY <1>1, <1>2, <1>7, TaskStep DEF ExitUncount, Points, InCreate, InExit
  <2> QED
    BY <1>7, <2>1 DEF ExitUncount, IInv, TypeOK
<1> QED
  BY <1>3, <1>4, <1>5, <1>6, <1>7 DEF ExitStep

LEMMA ExitSyscallIInv ==
  ASSUME NEW u \in Task, IInv, ExitSyscall(u)
  PROVE  IInv'
<1> USE DEF ExitSyscall, At, Goto, boot, clock
<1>1. Shape' /\ LinkInv' /\ pc' \in [Thread -> Points]
             /\ state' \in [Thread -> States]
  <2>1. \A v \in Task : nextAll'[v] = nextAll[v] \/ nextAll'[v] \in Thread
    BY UnlinkType
  <2> QED
    BY <2>1, TaskStep DEF Points, InCreate
<1>2. /\ nextAll' \in [Thread -> Thread \cup {Null}] /\ allHead' \in Thread
      /\ prevAll' \in [Thread -> Thread \cup {Null}]
  BY UnlinkType
<1>3. taskCount' \in Int /\ sliceStart' \in Nat /\ sliceStart' <= now'
  BY DEF IInv, TypeOK
<1> QED
  BY <1>1, <1>2, <1>3 DEF IInv, TypeOK

\* The calls that neither queue nor unlink a task.
LEMMA QuietIInv ==
  ASSUME NEW t \in Task, IInv,
         Yield(t) \/ SleepMark(t) \/ ZeroSlice(t) \/ SleepReturn(t)
  PROVE  IInv'
<1> USE DEF At, Goto, tcb, links, boot, clock
<1>1. /\ t # Idle /\ state[t] \in {"RUNNING", "SLEEPING", "ZOMBIE"}
      /\ state \in [Thread -> States] /\ current = t
  BY TaskAssumption DEF IInv, Shape, CurrentInv, TypeOK, Yield, SleepMark,
     ZeroSlice, SleepReturn
<1>2. state = [state EXCEPT ![t] = state[t]]
  BY <1>1
<1>3. sliceStart' \in Nat /\ sliceStart' <= now'
  <2>1. sliceStart \in Nat /\ now \in Nat /\ sliceStart <= now /\ now' = now
    BY DEF IInv, TypeOK, Yield, SleepMark, ZeroSlice, SleepReturn
  <2>2. sliceStart' = sliceStart \/ sliceStart' = 0
    BY DEF Yield, SleepMark, ZeroSlice, SleepReturn
  <2> QED
    BY <2>1, <2>2
<1>4. CASE Yield(t)
  <2>3. state[t] = "RUNNING"
    BY <1>1, <1>4 DEF Yield, IInv, Shape, PcInv
  <2>1. Shape' /\ LinkInv' /\ pc' \in [Thread -> Points]
    BY <1>1, <1>2, <1>4, <2>3, TaskStep DEF Yield, Points, InCreate
  <2>2. halted' \in BOOLEAN
    BY <1>4 DEF Yield
  <2> QED
    BY <1>3, <1>4, <2>1, <2>2 DEF Yield, IInv, TypeOK
<1>5. CASE SleepMark(t)
  <2>1. Shape' /\ LinkInv' /\ pc' \in [Thread -> Points]
               /\ state' \in [Thread -> States]
    BY <1>5, TaskStep DEF SleepMark, Points, InCreate
  <2> QED
    BY <1>5, <2>1 DEF SleepMark, IInv, TypeOK
<1>6. CASE ZeroSlice(t)
  <2>2. PICK p \in {"hlt", "asleep"} :
          /\ pc' = [pc EXCEPT ![t] = p]
          /\ p = "asleep" => pc[t] = "slice"
    BY <1>6 DEF ZeroSlice
  <2>3. p = "asleep" => state[t] # "ZOMBIE"
    BY <2>2 DEF IInv, Shape, PcInv
  <2>4. p \in Points \ (InCreate \cup {"none"})
    BY DEF Points, InCreate
  <2>5. state' = [state EXCEPT ![t] = state[t]] /\ UNCHANGED <<rq, current, todo, reg, torn, nextAll>>
    BY <1>2, <1>6 DEF ZeroSlice
  <2>1. Shape' /\ LinkInv' /\ pc' \in [Thread -> Points]
    BY <1>1, <2>2, <2>3, <2>4, <2>5, TaskStep
  <2> QED
    BY <1>3, <1>6, <2>1 DEF ZeroSlice, IInv, TypeOK
<1>7. CASE SleepReturn(t)
  <2>2. state[t] = "RUNNING"
    BY <1>1, <1>7 DEF SleepReturn, IInv, Shape, PcInv
  <2>1. Shape' /\ LinkInv' /\ pc' \in [Thread -> Points]
    BY <1>1, <1>2, <1>7, <2>2, TaskStep DEF SleepReturn, Points, InCreate
  <2> QED
    BY <1>7, <2>1 DEF SleepReturn, IInv, TypeOK
<1> QED
  BY <1>4, <1>5, <1>6, <1>7

\* A clone that fails.
LEMMA CloneFailsIInv ==
  ASSUME NEW u \in Task, IInv, CloneFails(u)
  PROVE  IInv'
<1> USE DEF CloneFails, tcb, links, clock
<1>1. minVruntime' \in Nat
  BY UpdatedMinType DEF IInv, TypeOK
<1>2. Shape'
  BY DEF IInv, Shape, CurrentApart, TodoInv, Built, PcInv, CurrentInv
<1>3. LinkInv'
  BY DEF IInv, LinkInv, Linked
<1> QED
  BY <1>1, <1>2, <1>3 DEF IInv, TypeOK

LEMMA WakeIInv ==
  ASSUME NEW t \in Task, IInv, Wake(t)
  PROVE  IInv'
<1> USE TaskAssumption DEF IInv, Wake, links, boot, clock
<1>1. /\ t \in Thread /\ t # Idle /\ Idle \in Thread /\ rq \subseteq Task
      /\ state \in [Thread -> States] /\ \A i \in DOMAIN todo : todo[i] \in Task
  <2>1. todo \in Seq(Task) /\ t \in Task
    BY DEF TypeOK, Listed
  <2>2. \A i \in DOMAIN todo : todo[i] \in Task
    BY <2>1
  <2> QED
    BY <2>1, <2>2 DEF TypeOK, Thread
<1>2. t # current /\ current \in Task
  BY DEF Shape, PcInv, TypeOK, Thread
<1>3. /\ state' \in [Thread -> States] /\ state'[t] = "RUNNABLE"
      /\ \A s \in Thread : s # t => state'[s] = state[s]
  BY <1>1 DEF States
<1>4. rq' \subseteq Task /\ rq' \subseteq rq \cup {t}
  BY <1>1 DEF Pushed
<1>5. minVruntime' \in Nat /\ vruntime' \in [Thread -> Nat]
  <2>1. vruntime \in [Thread -> Nat]
    BY DEF TypeOK
  <2>2. minVruntime' \in Nat
    BY <2>1, UpdatedMinType DEF TypeOK
  <2>3. IF vruntime[t] < minVruntime' THEN minVruntime' \in Nat ELSE vruntime[t] \in Nat
    BY <1>1, <2>1, <2>2
  <2> QED
    BY <2>1, <2>2, <2>3
<1>6. TypeOK'
  BY <1>3, <1>4, <1>5 DEF TypeOK
<1>7. \A i \in DOMAIN todo : todo[i] # t
  BY <1>1 DEF Shape, TodoInv
<1>8. CurrentApart' /\ CurrentInv'
  BY <1>1, <1>2, <1>3, <1>4 DEF Shape, CurrentApart, CurrentInv, Thread
<1>9. TodoInv'
  <2>1. \A i \in DOMAIN todo : /\ state'[todo[i]] = state[todo[i]]
                                 /\ (todo[i] \in rq' => todo[i] \in rq)
    BY <1>1, <1>3, <1>4, <1>7 DEF Thread
  <2> QED
    BY <2>1 DEF Shape, TodoInv, Built
<1>10. PcInv'
  <2>1. ASSUME NEW s \in Task, s # t
        PROVE  state'[s] = state[s] /\ (s \in rq' => s \in rq)
    <3> HIDE DEF IInv, Wake
    <3> QED
      BY <1>3, <1>4, <2>1 DEF Thread
  <2>2. Built(1)' <=> Built(1)
    BY DEF Built
  <2>3. pc[t] # "none" /\ pc[t] \notin InCreate
    BY <1>1, <1>7 DEF Shape, PcInv
  <2> QED
    BY <1>1, <1>3, <2>1, <2>2, <2>3 DEF Shape, PcInv
<1>11. LinkInv'
  BY DEF LinkInv, Linked
<1> QED
  BY <1>6, <1>8, <1>9, <1>10, <1>11 DEF Shape

\* The queue and the task that context_switch finds to put back into it.
LEMMA RequeuedType ==
  ASSUME IInv
  PROVE  /\ Requeued \subseteq Task
         /\ \A t \in Requeued :
              \/ t \in rq
              \/ t = current /\ current # Idle /\ state[t] = "RUNNING"
  BY DEF IInv, TypeOK, Requeued, Pushed, Thread

LEMMA DeltaType ==
  ASSUME NEW n \in Nat, sliceStart \in Nat, n >= sliceStart
  PROVE  Delta(n) \in Nat
  BY DEF Delta

\* The end of a hlt moves the current task from "doze" to "run"; a cut rq_push
\* loses its slot.
LEMMA ResumedType ==
  ASSUME pc \in [Thread -> Points], current \in Thread, pc' = Resumed(pc)
  PROVE  /\ pc' \in [Thread -> Points]
         /\ \A t \in Thread :
              \/ pc'[t] = pc[t]
              \/ t = current /\ pc[t] = "doze" /\ pc'[t] = "run"
              \/ t = current /\ pc[t] = "slot" /\ pc'[t] = "slotGone"
  BY DEF Resumed, Points, InCreate

LEMMA ContextSwitchIInv ==
  ASSUME IInv, NEW n \in Nat, n >= sliceStart, n = now', ContextSwitch(n),
         pc' = Resumed(pc), pc[Idle] # "slot",
         used' \in [Thread -> Nat],
         UNCHANGED <<tid, links, boot>>
  PROVE  IInv'
<1> USE TaskAssumption DEF IInv
<1> DEFINE charged == IF current = Idle THEN vruntime
                      ELSE [vruntime EXCEPT ![current] =
                              @ + (Delta(n) * Nice0) \div Weight[current]]
           parked  == IF state[current] = "RUNNING"
                        THEN [state EXCEPT ![current] = "RUNNABLE"] ELSE state
<1>1. /\ Idle \in Thread /\ current \in Thread /\ rq \subseteq Task
      /\ state \in [Thread -> States] /\ pc \in [Thread -> Points]
      /\ vruntime \in [Thread -> Nat] /\ \A i \in DOMAIN todo : todo[i] \in Task
  <2>1. todo \in Seq(Task)
    BY DEF TypeOK
  <2>2. \A i \in DOMAIN todo : todo[i] \in Task
    BY <2>1
  <2>3. /\ current \in Thread /\ rq \subseteq Task
        /\ state \in [Thread -> States] /\ pc \in [Thread -> Points]
        /\ vruntime \in [Thread -> Nat]
    BY DEF TypeOK
  <2> QED
    BY <2>2, <2>3 DEF Thread
<1>2. Delta(n) \in Nat
  <2>1. sliceStart \in Nat
    BY DEF TypeOK
  <2> QED
    BY <2>1, DeltaType
<1>3. charged \in [Thread -> Nat]
  <2>1. CASE current = Idle
    BY <1>1, <2>1
  <2>2. CASE current # Idle
    <3>1. Weight[current] \in Nat \ {0}
      BY <1>1, <2>2, NumberAssumption DEF Thread
    <3>2. (Delta(n) * Nice0) \div Weight[current] \in Nat
      BY <1>2, <3>1, ChargeType
    <3> HIDE DEF IInv
    <3>3. vruntime[current] + (Delta(n) * Nice0) \div Weight[current] \in Nat
      BY <1>1, <3>2
    <3> QED
      BY <1>1, <2>2, <3>3
  <2> QED
    BY <2>1, <2>2
<1>4. PICK next \in IF Requeued = {} THEN {Idle} ELSE Best(Requeued, charged) :
        /\ rq' = Popped(Requeued, next)
        /\ state' = [parked EXCEPT ![next] = "RUNNING"]
        /\ current' = next
        /\ torn' = torn
                \cup {s \in {"create"} : next # Idle /\ pc[Idle] \in InCreate}
                \cup {s \in {"exit"} : next # current /\ pc[current] \in InExit}
  BY DEF ContextSwitch
<1>5. /\ vruntime' = charged /\ minVruntime' = UpdatedMin(charged)
      /\ runtime' = IF current = Idle THEN runtime
                     ELSE [runtime EXCEPT ![current] = @ + Delta(n)]
      /\ UNCHANGED halted /\ sliceStart' = n
  BY DEF ContextSwitch
<1> HIDE DEF charged
<1>6. next = Idle \/ next \in Requeued
  BY <1>4 DEF Best
<1>7. /\ next \in Thread /\ rq' \subseteq Task
      /\ \A t \in rq' : t \in Requeued /\ t # next
  BY <1>1, <1>4, <1>6, RequeuedType DEF Popped, Thread
<1>8. /\ state' \in [Thread -> States] /\ state'[next] = "RUNNING"
      /\ \A t \in Thread : t # next =>
           state'[t] = IF t = current /\ state[t] = "RUNNING" THEN "RUNNABLE" ELSE state[t]
  BY <1>1, <1>4, <1>7 DEF States
<1>9. /\ pc' \in [Thread -> Points]
      /\ \A t \in Thread :
           \/ pc'[t] = pc[t]
           \/ t = current /\ pc[t] = "doze" /\ pc'[t] = "run"
  <2>1. \A t \in Thread : pc[t] # "slot"
    BY DEF Shape, PcInv, InCreate, Thread
  <2> QED
    BY <1>1, <2>1, ResumedType
<1>10. pc[Idle] # "doze"
  BY DEF Shape, PcInv, InCreate
<1>11. TypeOK'
  <2>1. minVruntime' \in Nat
    BY <1>3, <1>5, UpdatedMinType DEF TypeOK
  <2>2. runtime' \in [Thread -> Nat]
    <3>1. runtime \in [Thread -> Nat]
      BY DEF TypeOK
    <3> HIDE DEF IInv
    <3>2. runtime[current] + Delta(n) \in Nat
      BY <1>1, <1>2, <3>1
    <3> QED
      BY <1>1, <1>5, <3>1, <3>2
  <2>3. vruntime' \in [Thread -> Nat] /\ now' \in Nat
        /\ sliceStart' \in Nat /\ sliceStart' <= now'
    BY <1>3, <1>5
  <2>4. torn' \subseteq {"create", "exit", "queue"}
    BY <1>4 DEF TypeOK
  <2>5. halted' \in BOOLEAN
    BY <1>5 DEF TypeOK
  <2>6. /\ tid' \in [Thread -> Nat] /\ taskCount' \in Int /\ nextTid' \in Nat
        /\ nextAll' \in [Thread -> Thread \cup {Null}]
        /\ prevAll' \in [Thread -> Thread \cup {Null}]
        /\ allHead' \in Thread /\ todo' \in Seq(Task) /\ reg' \in Int
    BY DEF TypeOK, links, boot
  <2> QED
    BY <1>4, <1>7, <1>8, <1>9, <2>1, <2>2, <2>3, <2>4, <2>5, <2>6 DEF TypeOK
<1>12. CurrentApart'
  <2>1. SUFFICES ASSUME NEW t \in rq'
                 PROVE  /\ t # current'
                        /\ "queue" \notin torn' => state'[t] = "RUNNABLE"
    BY DEF CurrentApart
  <2>2. t \in Thread /\ t # next
    BY <1>7 DEF Thread
  <2>3. CASE t \in rq
    BY <1>4, <1>8, <2>2, <2>3 DEF Shape, CurrentApart
  <2>4. CASE t = current /\ state[t] = "RUNNING"
    BY <1>4, <1>8, <2>2, <2>4
  <2> QED
    BY <1>7, <2>3, <2>4, RequeuedType
<1>13. \A i \in DOMAIN todo : /\ todo[i] # current /\ todo[i] \notin Requeued
                                /\ todo[i] # Idle /\ todo[i] \in Thread
  BY <1>1, RequeuedType DEF Shape, TodoInv, Thread
<1>14. TodoInv'
  <2>1. \A i \in DOMAIN todo :
          /\ pc'[todo[i]] = pc[todo[i]] /\ todo[i] \notin rq' /\ todo[i] # current'
          /\ state'[todo[i]] = state[todo[i]]
    BY <1>4, <1>6, <1>7, <1>8, <1>9, <1>13
  <2>2. pc'[Idle] = pc[Idle]
    BY <1>1, <1>9, <1>10
  <2> QED
    BY <2>1, <2>2 DEF Shape, TodoInv, Built, boot
<1>15. current # Idle => pc[current] # "none"
  BY DEF Shape, CurrentInv
<1>16. \A t \in Requeued : pc[t] # "none"
  BY <1>1, <1>15, RequeuedType DEF Shape, PcInv
<1>17. PcInv'
  <2>1. pc'[Idle] = pc[Idle]
    BY <1>1, <1>9, <1>10
  <2>2. ASSUME NEW t \in Task
        PROVE  /\ pc'[t] \notin InCreate
               /\ (pc'[t] = "none") =>
                    \/ state'[t] = "NONE"
                    \/ todo' # <<>> /\ t = todo'[1] /\ Built(1)'
               /\ (pc'[t] \in {"run", "doze"}) => state'[t] \in {"RUNNING", "RUNNABLE"}
               /\ (pc'[t] \in {"slice", "asleep"}) => state'[t] # "ZOMBIE"
               /\ (pc'[t] # "none") => state'[t] # "NONE"
               /\ (t \in rq') => pc'[t] # "none"
    <3>1. t \in Thread /\ t # Idle
      BY DEF Thread
    <3>4. t \in rq' => pc'[t] # "none"
      BY <1>7, <1>9, <1>16, <3>1
    <3>2. CASE t = next
      BY <1>6, <1>8, <1>9, <1>16, <3>1, <3>2, <3>4 DEF Shape, PcInv, InCreate
    <3>3. CASE t # next
      BY <1>8, <1>9, <2>1, <3>1, <3>3, <3>4 DEF Shape, PcInv, InCreate, Built, boot
    <3> QED
      BY <3>2, <3>3
  <2>3. torn \subseteq torn'
    BY <1>4
  <2> QED
    BY <2>1, <2>2, <2>3 DEF Shape, PcInv, boot
<1>18. CurrentInv'
  BY <1>4, <1>6, <1>7, <1>8, <1>9, <1>16 DEF CurrentInv
<1>19. LinkInv'
  BY <1>1, <1>9, <1>10 DEF LinkInv, Linked, Thread, links, boot
<1> QED
  BY <1>11, <1>12, <1>14, <1>17, <1>18, <1>19 DEF Shape

\* The switch that finds a slot counted and not filled.
LEMMA HoleIInv ==
  ASSUME IInv, NEW n \in Nat, n = now', SwitchOnHole(n),
         pc' = Resumed(pc), pc[Idle] = "slot",
         used' \in [Thread -> Nat],
         UNCHANGED <<tid, links, boot>>
  PROVE  IInv'
<1> USE TaskAssumption DEF IInv
<1>1. /\ Idle \in Thread /\ current = Idle /\ rq \subseteq Task /\ Thread = Task \cup {Idle}
      /\ state \in [Thread -> States] /\ pc \in [Thread -> Points]
      /\ vruntime \in [Thread -> Nat] /\ minVruntime \in Nat
      /\ \A i \in DOMAIN todo : todo[i] \in Task
  <2>1. todo \in Seq(Task)
    BY DEF TypeOK
  <2> QED
    BY <2>1 DEF TypeOK, Thread, Shape, PcInv
<1>2. /\ pc' \in [Thread -> Points] /\ pc'[Idle] = "slotGone"
      /\ \A t \in Task : pc'[t] = pc[t]
  BY <1>1 DEF Resumed, Points, InCreate
<1>3. /\ torn' = torn \cup {"create", "queue"} /\ sliceStart' = n
      /\ UNCHANGED <<vruntime, runtime>>
  BY DEF SwitchOnHole
<1> DEFINE Good ==
             /\ minVruntime' \in Nat /\ halted' \in BOOLEAN
             /\ current' \in Thread /\ rq' \subseteq Task
             /\ \A t \in rq' : t # current' /\ pc[t] # "none"
             /\ state' \in [Thread -> States]
             /\ current' # Idle => state'[current'] = "RUNNING" /\ pc[current'] # "none"
             /\ \A t \in Task : t # current' => state'[t] = state[t]
<1>4. Good
  <2>1. CASE halted' = TRUE /\ UNCHANGED <<minVruntime, rq, state, current>>
    BY <1>1, <2>1 DEF Shape, CurrentApart, PcInv
  <2>2. ASSUME NEW left \in Leftover,
               NEW next \in IF rq = {} THEN {left} ELSE Best(rq, vruntime),
               minVruntime' = IF rq # {} THEN UpdatedMin(vruntime)
                              ELSE IF minVruntime = 0 THEN vruntime[left]
                              ELSE minVruntime,
               rq' = Popped(rq \cup {left}, next),
               state' = [state EXCEPT ![Idle] = "RUNNABLE", ![next] = "RUNNING"],
               current' = next, UNCHANGED halted
        PROVE  Good
    <3>1. left \in Task /\ pc[left] # "none"
      BY DEF Leftover
    <3>2. next \in Task /\ (next = left \/ next \in rq)
      BY <1>1, <2>2, <3>1 DEF Best
    <3>3. \A t \in rq : pc[t] # "none"
      BY <1>1 DEF Shape, PcInv
    <3>4. minVruntime' \in Nat
      BY <1>1, <2>2, <3>1, UpdatedMinType
    <3>5. rq' \subseteq Task /\ \A t \in rq' : t # next /\ pc[t] # "none"
      BY <1>1, <2>2, <3>1, <3>3 DEF Popped
    <3>6. /\ state' \in [Thread -> States] /\ state'[next] = "RUNNING"
          /\ \A t \in Task : t # next => state'[t] = state[t]
      BY <1>1, <2>2, <3>2 DEF States
    <3>7. halted' \in BOOLEAN
      BY <2>2 DEF TypeOK
    <3> QED
      BY <1>1, <2>2, <3>1, <3>2, <3>3, <3>4, <3>5, <3>6, <3>7
  <2> HIDE DEF Good, IInv
  <2> QED
    BY <2>1, <2>2 DEF SwitchOnHole
<1>5. TypeOK'
  <2>1. torn' \subseteq {"create", "exit", "queue"}
    BY <1>3 DEF TypeOK
  <2>2. sliceStart' \in Nat /\ now' \in Nat /\ sliceStart' <= now'
    BY <1>3
  <2> QED
    BY <1>2, <1>3, <1>4, <2>1, <2>2 DEF TypeOK, links, boot
<1>6. CurrentApart' /\ CurrentInv'
  BY <1>2, <1>3, <1>4, <1>1 DEF CurrentApart, CurrentInv
<1>7. \A i \in DOMAIN todo : pc[todo[i]] = "none" /\ todo[i] # Idle
  BY <1>1 DEF Shape, TodoInv
<1>8. TodoInv'
  <2>1. \A i \in DOMAIN todo :
          /\ pc'[todo[i]] = pc[todo[i]] /\ todo[i] \notin rq' /\ todo[i] # current'
          /\ state'[todo[i]] = state[todo[i]]
    BY <1>1, <1>2, <1>4, <1>7
  <2>2. \A i \in DOMAIN todo : Built(i)' <=> Built(i)
    BY <1>2 DEF Built, InCreate
  <2> QED
    BY <1>2, <2>1, <2>2 DEF Shape, TodoInv, boot, InCreate
<1>9. PcInv'
  <2>1. Built(1)' <=> Built(1)
    BY <1>2 DEF Built, InCreate
  <2>2. \A t \in Task : t = current' => state'[t] = "RUNNING" /\ pc[t] # "none"
    BY <1>1, <1>4
  <2> QED
    BY <1>1, <1>2, <1>3, <1>4, <2>1, <2>2 DEF Shape, PcInv, boot, InCreate
<1>10. LinkInv'
  BY <1>1, <1>2 DEF LinkInv, Linked, links, boot
<1> QED
  BY <1>5, <1>6, <1>8, <1>9, <1>10 DEF Shape

LEMMA TickIInv ==
  ASSUME NEW d \in TickLens, IInv, Tick(d)
  PROVE  IInv'
<1>1. /\ d \in Nat /\ now \in Nat /\ sliceStart \in Nat /\ sliceStart <= now
      /\ current \in Thread /\ used \in [Thread -> Nat]
      /\ pc \in [Thread -> Points]
  BY NumberAssumption DEF IInv, TypeOK
<1>2. now' = now + d /\ now + d \in Nat /\ now + d >= sliceStart /\ ~halted
  BY <1>1 DEF Tick
<1>3. used' \in [Thread -> Nat]
  <2>1. used' = [used EXCEPT ![current] = @ + d]
    BY DEF Tick
  <2> QED
    BY <1>1, <2>1
<1>4. pc' = Resumed(pc) /\ UNCHANGED <<tid, links, boot>>
  BY DEF Tick
<1>5. CASE pc[Idle] # "slot" /\ ContextSwitch(now + d)
  BY <1>2, <1>3, <1>4, <1>5, ContextSwitchIInv
<1>7. CASE pc[Idle] = "slot" /\ SwitchOnHole(now + d)
  BY <1>2, <1>3, <1>4, <1>7, HoleIInv
<1>6. CASE pc[Idle] # "slot" /\ UNCHANGED <<vruntime, runtime, minVruntime, rq,
                      state, current, torn, halted, sliceStart>>
  <2> USE <1>4, <1>6, TaskAssumption DEF IInv, links, boot
  <2>1. /\ pc' \in [Thread -> Points]
        /\ \A t \in Thread :
             \/ pc'[t] = pc[t]
             \/ t = current /\ pc[t] = "doze" /\ pc'[t] = "run"
    <3>1. \A t \in Thread : pc[t] # "slot"
      BY DEF Shape, PcInv, InCreate, Thread
    <3> QED
      BY <1>1, <3>1, ResumedType
  <2>2. Idle \in Thread /\ pc'[Idle] = pc[Idle]
    BY <2>1 DEF Thread, Shape, PcInv, InCreate
  <2>3. TypeOK'
    BY <1>2, <1>3, <2>1 DEF TypeOK
  <2>4. CurrentApart' /\ CurrentInv'
    BY <1>1, <2>1 DEF Shape, CurrentApart, CurrentInv
  <2>5. TodoInv'
    <3>1. todo \in Seq(Task)
      BY DEF TypeOK
    <3>2. \A i \in DOMAIN todo : todo[i] \in Thread /\ pc'[todo[i]] = pc[todo[i]]
      BY <2>1, <3>1 DEF Shape, TodoInv, Thread
    <3> QED
      BY <2>2, <3>2 DEF Shape, TodoInv, Built
  <2>6. PcInv'
    BY <2>1, <2>2 DEF Shape, PcInv, Built, InCreate, Thread
  <2>7. LinkInv'
    BY <2>1, <2>2 DEF LinkInv, Linked, Thread
  <2> QED
    BY <2>3, <2>4, <2>5, <2>6, <2>7 DEF Shape
<1> QED
  BY <1>5, <1>6, <1>7 DEF Tick

LEMMA StutterIInv == IInv /\ UNCHANGED vars => IInv'
<1> SUFFICES ASSUME IInv, UNCHANGED vars PROVE IInv'
  OBVIOUS
<1> USE DEF vars
<1>1. TypeOK'
  BY DEF IInv, TypeOK
<1>2. CurrentApart' /\ CurrentInv'
  BY DEF IInv, Shape, CurrentApart, CurrentInv
<1>3. TodoInv' /\ PcInv'
  BY DEF IInv, Shape, TodoInv, PcInv, Built
<1>4. LinkInv'
  BY DEF IInv, LinkInv, Linked
<1> QED
  BY <1>1, <1>2, <1>3, <1>4 DEF IInv, Shape

LEMMA NextIInv == IInv /\ [Next]_vars => IInv'
<1> SUFFICES ASSUME IInv, [Next]_vars PROVE IInv'
  OBVIOUS
<1>1. CASE CreateStep
  BY <1>1, CreateAllocIInv, CreateTidLoadIInv, CreateTidStoreIInv,
     CreateVruntimeIInv, CreateListIInv, CreatePushIInv DEF CreateStep
<1>2. CASE \E u, t \in Task : Clone(u, t)
  BY <1>2, CloneIInv
<1>3. CASE \E t \in Task : CloneFails(t) \/ ExitStep(t) \/ ExitSyscall(t)
                           \/ Yield(t) \/ SleepMark(t) \/ ZeroSlice(t)
                           \/ SleepReturn(t) \/ Wake(t)
  BY <1>3, CloneFailsIInv, ExitStepIInv, ExitSyscallIInv, QuietIInv, WakeIInv
<1>4. CASE \E d \in TickLens : Tick(d)
  BY <1>4, TickIInv
<1>5. CASE UNCHANGED vars
  BY <1>5, StutterIInv
<1> QED
  BY <1>1, <1>2, <1>3, <1>4, <1>5 DEF Next

\* The inductive invariant holds of every behaviour.
LEMMA AlwaysIInv == Spec => []IInv
  BY InitIInv, NextIInv, PTL DEF Spec

\* Nothing is taken back that a cut has left; without a cut rq_push there is no
\* slot that a switch has taken away, nor a switch that takes one.
LEMMA TornGrows == [Next]_vars => torn \subseteq torn'
BY DEF Next, CreateStep, CreateAlloc, CreateTidLoad, CreateTidStore, CreateVruntime,
   CreateLink, CreateHead, CreateCountLoad, CreateCountStore, CreateGrow, CreateSlot,
   CreateSlotLate, Clone, CloneFails, ExitStep, ExitZombie, ExitUnlinkPrev,
   ExitUnlinkNext, ExitUnlinkHead, ExitUncount, ExitSyscall, Yield, SleepMark,
   ZeroSlice, SleepReturn, Wake, Tick, ContextSwitch, SwitchOnHole, vars

LEMMA NoHole ==
  ASSUME IInv, [Next]_vars, "queue" \notin torn'
  PROVE  /\ "queue" \notin torn /\ pc[Idle] # "slotGone" /\ ~CreateSlotLate
         /\ \A d \in TickLens : Tick(d) => pc[Idle] # "slot"
<1>1. "queue" \notin torn
  BY TornGrows
<1>2. pc[Idle] # "slotGone"
  BY <1>1 DEF IInv, Shape, PcInv
<1>3. ~CreateSlotLate
  BY <1>2 DEF CreateSlotLate, At
<1>4. ASSUME NEW d \in TickLens, Tick(d) PROVE pc[Idle] # "slot"
  BY <1>4 DEF Tick, SwitchOnHole
<1> QED
  BY <1>1, <1>2, <1>3, <1>4

\* Such a tick cuts a creation too.
TornInv == "queue" \in torn => "create" \in torn

LEMMA AlwaysTorn == Spec => []TornInv
<1>1. Init => TornInv
  BY DEF Init, TornInv
<1>2. TornInv /\ [Next]_vars => TornInv'
  <2> SUFFICES ASSUME TornInv, [Next]_vars PROVE TornInv'
    OBVIOUS
  <2>1. ASSUME NEW d \in TickLens, Tick(d) PROVE TornInv'
    <3>1. CASE SwitchOnHole(now + d)
      BY <3>1 DEF SwitchOnHole, TornInv
    <3>2. CASE ContextSwitch(now + d)
      BY <3>2 DEF ContextSwitch, TornInv
    <3>3. CASE UNCHANGED torn
      BY <3>3 DEF TornInv
    <3> QED
      BY <2>1, <3>1, <3>2, <3>3 DEF Tick
  <2>2. CASE UNCHANGED torn
    BY <2>2 DEF TornInv
  <2> QED
    BY <2>1, <2>2 DEF Next, CreateStep, CreateAlloc, CreateTidLoad, CreateTidStore,
       CreateVruntime, CreateLink, CreateHead, CreateCountLoad, CreateCountStore,
       CreateGrow, CreateSlot, CreateSlotLate, Clone, CloneFails, ExitStep, ExitZombie,
       ExitUnlinkPrev, ExitUnlinkNext, ExitUnlinkHead, ExitUncount, ExitSyscall, Yield,
       SleepMark, ZeroSlice, SleepReturn, Wake, vars
<1> QED
  BY <1>1, <1>2, PTL DEF Spec

-----------------------------------------------------------------------------
(* The theorems                                                            *)

\* Every variable keeps its type: in particular vruntime and min_vruntime,
\* which the code computes by subtraction and division in 64 unsigned bits,
\* are naturals, and all_head is never null.
THEOREM TypeCorrect == Spec => []TypeOK
<1>1. IInv => TypeOK
  BY DEF IInv
<1> QED
  BY <1>1, AlwaysIInv, PTL

\* First half of the run queue's contract: whatever a tick interrupts, what
\* the queue holds is not the task on the CPU, and it is RUNNABLE as long as no
\* tick has come between the two stores of a rq_push.
THEOREM QueueHoldsRunnable == Spec => []CurrentApart
<1>1. IInv => CurrentApart
  BY DEF IInv, Shape
<1> QED
  BY <1>1, AlwaysIInv, PTL

\* The task under construction exists for nobody else.
LEMMA NewHidden ==
  ASSUME IInv, pc[Idle] \in InCreate
  PROVE  /\ New \in Task /\ New \notin rq /\ New # current
         /\ state[New] = IF Built(1) THEN "RUNNABLE" ELSE "NONE"
<1>1. todo \in Seq(Task) /\ todo # <<>>
  BY DEF IInv, TypeOK, Shape, TodoInv
<1> QED
  BY <1>1, TodoTail DEF IInv, Shape, TodoInv

\* Second half of the run queue's contract: no step changes the key of a task
\* it leaves in the queue (unless a tick has come between the two stores of a
\* rq_push before).
THEOREM KeysFrozen == Spec => QueuedKeysFrozen
<1>1. ASSUME IInv, Next, NEW t \in rq \cap rq', "queue" \notin torn
      PROVE  vruntime'[t] = vruntime[t]
  <2>1. /\ t \in Task /\ t \in Thread /\ state[t] = "RUNNABLE" /\ t # current
        /\ vruntime \in [Thread -> Nat]
    BY <1>1 DEF IInv, TypeOK, Shape, CurrentApart, Thread
  <2>2. CASE CreateStep
    <3>1. CASE CreateVruntime
      <4>1. New # t
        BY <1>1, <3>1, NewHidden DEF CreateVruntime, At, InCreate
      <4> QED
        BY <2>1, <3>1, <4>1 DEF CreateVruntime
    <3> QED
      BY <2>2, <3>1 DEF CreateStep, CreateAlloc, CreateTidLoad, CreateTidStore,
         CreateLink, CreateHead, CreateCountLoad, CreateCountStore, CreateGrow,
         CreateSlot, CreateSlotLate, tcb
  <2>3. ASSUME NEW u \in Task, NEW s \in Task, Clone(u, s)
        PROVE  vruntime'[t] = vruntime[t]
    <3>1. s # t
      <4>1. state[s] = "NONE"
        <5>1. todo \in Seq(Task)
          BY <1>1 DEF IInv, TypeOK
        <5> QED
          BY <1>1, <2>3, <5>1 DEF Clone, IInv, Shape, PcInv
      <4> QED
        BY <2>1, <4>1
    <3> QED
      BY <2>1, <2>3, <3>1 DEF Clone
  <2>4. ASSUME NEW s \in Task, Wake(s)
        PROVE  vruntime'[t] = vruntime[t]
    BY <2>1, <2>4 DEF Wake
  <2>5. ASSUME NEW s \in Task,
               CloneFails(s) \/ ExitStep(s) \/ ExitSyscall(s) \/ Yield(s)
                 \/ SleepMark(s) \/ ZeroSlice(s) \/ SleepReturn(s)
        PROVE  vruntime'[t] = vruntime[t]
    BY <2>5 DEF CloneFails, ExitStep, ExitZombie, ExitUnlinkPrev, ExitUnlinkNext,
       ExitUnlinkHead, ExitUncount, ExitSyscall, Yield, SleepMark, ZeroSlice,
       SleepReturn, tcb
  <2>6. ASSUME NEW d \in TickLens, Tick(d)
        PROVE  vruntime'[t] = vruntime[t]
    BY <2>1, <2>6 DEF Tick, ContextSwitch, SwitchOnHole
  <2> QED
    BY <1>1, <2>2, <2>3, <2>4, <2>5, <2>6 DEF Next
<1>2. IInv /\ [Next]_vars =>
        [\A t \in rq \cap rq' : "queue" \notin torn => vruntime'[t] = vruntime[t]]_vars
  BY <1>1
<1> QED
  BY <1>2, AlwaysIInv, PTL DEF Spec, QueuedKeysFrozen

\* A task that called sched_exit stays a zombie, and once it is switched out
\* it is never dispatched again, as long as no tick comes between the two stores
\* of a rq_push.
THEOREM ZombiesStayDead == Spec => ZombieStaysDead
<1>1. ASSUME IInv, Next, NEW t \in Task, state[t] = "ZOMBIE", "queue" \notin torn'
      PROVE  state'[t] = "ZOMBIE" /\ (current' = t => current = t)
  <2>1. /\ t \in Thread /\ t \notin rq /\ t # Idle /\ state \in [Thread -> States]
        /\ rq \subseteq Task
    <3>1. "queue" \notin torn
      BY <1>1, NoHole
    <3> QED
      BY <1>1, <3>1, TaskAssumption DEF IInv, TypeOK, Shape, CurrentApart, Thread
  <2>2. CASE CreateStep
    <3>1. CASE CreateTidStore \/ CreateVruntime
      <4>1. New # t
        BY <1>1, <3>1, NewHidden DEF CreateTidStore, CreateVruntime, At, InCreate
      <4> QED
        BY <1>1, <2>1, <3>1, <4>1 DEF CreateTidStore, CreateVruntime
    <3> QED
      BY <1>1, <2>2, <3>1 DEF CreateStep, CreateAlloc, CreateTidLoad,
         CreateLink, CreateHead, CreateCountLoad, CreateCountStore, CreateGrow,
         CreateSlot, CreateSlotLate, tcb
  <2>3. ASSUME NEW u \in Task, NEW s \in Task, Clone(u, s)
        PROVE  state'[t] = "ZOMBIE" /\ (current' = t => current = t)
    <3>1. s # t
      <4>1. state[s] = "NONE"
        <5>1. todo \in Seq(Task)
          BY <1>1 DEF IInv, TypeOK
        <5> QED
          BY <1>1, <2>3, <5>1 DEF Clone, IInv, Shape, PcInv
      <4> QED
        BY <1>1, <4>1
    <3> QED
      BY <1>1, <2>1, <2>3, <3>1 DEF Clone
  <2>4. ASSUME NEW s \in Task, Wake(s) \/ SleepMark(s)
        PROVE  state'[t] = "ZOMBIE" /\ (current' = t => current = t)
    <3>1. s # t
      BY <1>1, <2>4 DEF Wake, SleepMark, At, IInv, Shape, PcInv
    <3> QED
      BY <1>1, <2>1, <2>4, <3>1 DEF Wake, SleepMark
  <2>5. ASSUME NEW s \in Task,
               CloneFails(s) \/ ExitStep(s) \/ ExitSyscall(s) \/ Yield(s)
                 \/ ZeroSlice(s) \/ SleepReturn(s)
        PROVE  state'[t] = "ZOMBIE" /\ (current' = t => current = t)
    BY <1>1, <2>1, <2>5 DEF CloneFails, ExitStep, ExitZombie, ExitUnlinkPrev,
       ExitUnlinkNext, ExitUnlinkHead, ExitUncount, ExitSyscall, Yield,
       ZeroSlice, SleepReturn, tcb
  <2>6. ASSUME NEW d \in TickLens, ContextSwitch(now + d)
        PROVE  state'[t] = "ZOMBIE" /\ (current' = t => current = t)
    <3>1. t \notin Requeued
      BY <1>1, <2>1, RequeuedType
    <3>2. current' \in Requeued \cup {Idle}
      BY <2>6 DEF ContextSwitch, Best
    <3>3. current' # t
      BY <2>1, <3>1, <3>2
    <3>4. state'[t] = "ZOMBIE"
      BY <1>1, <2>1, <2>6, <3>3 DEF ContextSwitch
    <3> QED
      BY <3>3, <3>4
  <2>7. ASSUME NEW d \in TickLens, Tick(d)
        PROVE  state'[t] = "ZOMBIE" /\ (current' = t => current = t)
    <3>1. pc[Idle] # "slot"
      BY <1>1, <2>7, NoHole
    <3>2. ContextSwitch(now + d) \/ UNCHANGED <<state, current>>
      BY <2>7, <3>1 DEF Tick
    <3> QED
      BY <1>1, <2>6, <3>2
  <2> QED
    BY <1>1, <2>2, <2>3, <2>4, <2>5, <2>7 DEF Next
<1>2. IInv /\ [Next]_vars =>
        [\A t \in Task : state[t] = "ZOMBIE" /\ "queue" \notin torn' =>
           state'[t] = "ZOMBIE" /\ (current' = t => current = t)]_vars
  BY <1>1
<1> QED
  BY <1>2, AlwaysIInv, PTL DEF Spec, ZombieStaysDead

\* With no more tasks than slots, the queue has a slot for a task outside it.
LEMMA RoomForOne ==
  ASSUME IsFiniteSet(Task), Cardinality(Task) <= Cap,
         NEW q \in SUBSET Task, NEW t \in Task, t \notin q
  PROVE  Pushed(q, t) = q \cup {t} /\ ~Full(q)
<1>1. IsFiniteSet(q) /\ Cardinality(q) <= Cardinality(Task)
      /\ Cardinality(q) # Cardinality(Task)
  BY FS_Subset
<1>2. Cardinality(q) \in Nat /\ Cardinality(Task) \in Nat
  BY <1>1, FS_CardinalityType
<1>3. ~Full(q)
  BY <1>1, <1>2, NumberAssumption DEF Full
<1> QED
  BY <1>3 DEF Pushed

LEMMA SwitchKeepsRunnable ==
  ASSUME IsFiniteSet(Task), Cardinality(Task) <= Cap,
         IInv, NoLostTask, "queue" \notin torn, NEW n, ContextSwitch(n),
         UnderConstruction' = UnderConstruction
  PROVE  NoLostTask'
<1>1. SUFFICES ASSUME NEW t \in Task, state'[t] = "RUNNABLE"
               PROVE  t \in rq' \/ t = current' \/ t \in UnderConstruction
  BY DEF NoLostTask
<1>2. /\ t \in Thread /\ t # Idle /\ rq \subseteq Task
      /\ state \in [Thread -> States]
  BY TaskAssumption DEF IInv, TypeOK, Thread
<1>3. PICK next \in Thread \cup Requeued :
        /\ rq' = Requeued \ {next}
        /\ current' = next
        /\ state' = [IF state[current] = "RUNNING"
                       THEN [state EXCEPT ![current] = "RUNNABLE"] ELSE state
                     EXCEPT ![next] = "RUNNING"]
  BY DEF ContextSwitch, Best, Popped, Thread
<1>4. CASE t = next
  BY <1>3, <1>4
<1>5. CASE t # next /\ t = current
  <2>1. state[t] = "RUNNING" /\ t \notin rq
    BY <1>1, <1>2, <1>3, <1>5 DEF IInv, Shape, CurrentInv, CurrentApart
  <2>2. Requeued = rq \cup {t}
    BY <1>2, <1>5, <2>1, RoomForOne DEF Requeued
  <2> QED
    BY <1>3, <1>5, <2>2
<1>6. CASE t # next /\ t # current
  <2>1. state[t] = "RUNNABLE"
    BY <1>1, <1>2, <1>3, <1>6
  <2>2. t \in rq \/ t \in UnderConstruction
    BY <1>6, <2>1 DEF NoLostTask
  <2>3. rq \subseteq Requeued
    BY DEF Requeued, Pushed
  <2> QED
    BY <1>3, <1>6, <2>2, <2>3
<1> QED
  BY <1>4, <1>5, <1>6

\* As long as there are at most SCHED_MAX_TASKS of them, no runnable task is
\* ever forgotten: not by a creation or an exit that a tick cuts in two, nor
\* by a switch.  (One more task, and rq_push drops it; a tick between the two
\* stores of a rq_push, which NoLostTask leaves out, loses one.)
THEOREM NoTaskForgotten ==
  ASSUME IsFiniteSet(Task), Cardinality(Task) <= Cap
  PROVE  Spec => []NoLostTask
<1>1. Init => NoLostTask
  BY TaskAssumption DEF Init, NoLostTask, Thread
<1>2. ASSUME IInv, NoLostTask, Next
      PROVE  NoLostTask'
  <2> SUFFICES ASSUME "queue" \notin torn'
               PROVE  NoLostTask'
    BY DEF NoLostTask
  <2>0. /\ "queue" \notin torn /\ ~CreateSlotLate
        /\ \A d \in TickLens : Tick(d) => pc[Idle] # "slot"
    BY <1>2, NoHole
  <2> USE TaskAssumption, <2>0
  <2>1. /\ Idle \in Thread /\ rq \subseteq Task /\ state \in [Thread -> States]
        /\ pc \in [Thread -> Points] /\ todo \in Seq(Task)
    BY <1>2 DEF IInv, TypeOK, Thread
  <2>2. CASE CreateStep
    <3>1. CASE CreateAlloc \/ CreateTidLoad
      BY <1>2, <2>1, <3>1 DEF CreateAlloc, CreateTidLoad, NoLostTask,
         UnderConstruction, New, At, Goto, InCreate, tcb
    <3>2. CASE CreateLink \/ CreateHead \/ CreateCountLoad \/ CreateCountStore
      BY <1>2, <2>1, <3>2 DEF CreateLink, CreateHead, CreateCountLoad,
         CreateCountStore, NoLostTask, UnderConstruction, New, At, Goto, InCreate,
         tcb, boot
    <3>3. CASE CreateTidStore
      <4>1. pc[Idle] \in InCreate /\ pc'[Idle] \in InCreate
        BY <2>1, <3>3 DEF CreateTidStore, At, Goto, InCreate
      <4>2. New \in Thread /\ todo # <<>> /\ todo' = todo
        BY <1>2, <3>3, <4>1, NewHidden DEF CreateTidStore, Thread, IInv, Shape,
           TodoInv
      <4>3. UnderConstruction' = {New}
        BY <4>1, <4>2 DEF UnderConstruction, New
      <4>4. \A t \in Task : t # New => state'[t] = state[t]
        BY <2>1, <3>3, <4>2 DEF CreateTidStore, Thread
      <4>5. UnderConstruction = {New}
        BY <4>1, <4>2 DEF UnderConstruction
      <4>6. UNCHANGED <<rq, current>>
        BY <3>3 DEF CreateTidStore
      <4> QED
        BY <1>2, <4>3, <4>4, <4>5, <4>6 DEF NoLostTask
    <3>4. CASE CreateVruntime
      <4>1. New \in Thread
        BY <1>2, <3>4, NewHidden DEF CreateVruntime, At, InCreate, Thread
      <4> QED
        BY <1>2, <2>1, <3>4, <4>1 DEF CreateVruntime, NoLostTask,
           UnderConstruction, New, At, Goto, InCreate, Thread
    <3>5. CASE CreateGrow
      <4>1. ~Full(rq)
        BY <1>2, <2>1, <3>5, NewHidden, RoomForOne DEF CreateGrow, At, InCreate
      <4> QED
        BY <1>2, <2>1, <3>5, <4>1 DEF CreateGrow, NoLostTask,
           UnderConstruction, New, At, Goto, InCreate, tcb
    <3>6. CASE CreateSlot
      BY <1>2, <2>1, <3>6 DEF CreateSlot, NoLostTask, UnderConstruction, New,
         At, InCreate, tcb
    <3> QED
      BY <2>2, <3>1, <3>2, <3>3, <3>4, <3>5, <3>6 DEF CreateStep
  <2>3. ASSUME NEW u \in Task, NEW t \in Task, Clone(u, t)
        PROVE  NoLostTask'
    <3>1. state[t] = "NONE"
      BY <1>2, <2>1, <2>3 DEF Clone, IInv, Shape, PcInv
    <3>2. rq' = rq \cup {t}
      BY <1>2, <2>1, <2>3, <3>1, RoomForOne DEF Clone, IInv, Shape, CurrentApart
    <3>3. pc'[Idle] = pc[Idle]
      BY <2>1, <2>3 DEF Clone, Goto, Thread
    <3> QED
      BY <1>2, <2>1, <2>3, <3>2, <3>3 DEF Clone, NoLostTask,
         UnderConstruction, New, Thread
  <2>4. ASSUME NEW t \in Task, Wake(t)
        PROVE  NoLostTask'
    <3>1. rq' = rq \cup {t}
      BY <1>2, <2>1, <2>4, RoomForOne DEF Wake, IInv, Shape, CurrentApart
    <3> QED
      BY <1>2, <2>1, <2>4, <3>1 DEF Wake, NoLostTask, UnderConstruction, New,
         Thread, boot
  <2>5. ASSUME NEW t \in Task,
               CloneFails(t) \/ ExitStep(t) \/ ExitSyscall(t) \/ Yield(t)
                 \/ SleepMark(t) \/ ZeroSlice(t) \/ SleepReturn(t)
        PROVE  NoLostTask'
    <3>1. /\ UNCHANGED <<rq, current, todo>>
          /\ state' \in {state, [state EXCEPT ![t] = "ZOMBIE"],
                         [state EXCEPT ![t] = "SLEEPING"]}
          /\ pc' = pc \/ \E p : pc' = [pc EXCEPT ![t] = p]
      BY <2>5 DEF CloneFails, ExitStep, ExitZombie, ExitUnlinkPrev, ExitUnlinkNext,
         ExitUnlinkHead, ExitUncount, ExitSyscall, Yield, SleepMark, ZeroSlice,
         SleepReturn, Goto, tcb, boot
    <3>2. pc'[Idle] = pc[Idle]
      BY <2>1, <3>1 DEF Thread
    <3>3. \A s \in Task : state'[s] = "RUNNABLE" => state[s] = "RUNNABLE"
      BY <2>1, <3>1 DEF Thread
    <3> QED
      BY <1>2, <3>1, <3>2, <3>3 DEF NoLostTask, UnderConstruction, New
  <2>6. ASSUME NEW d \in TickLens, Tick(d)
        PROVE  NoLostTask'
    <3>1. pc' = Resumed(pc) /\ UNCHANGED todo
      BY <2>6 DEF Tick, boot
    <3>2. current \in Thread /\ pc[Idle] # "doze"
      BY <1>2 DEF IInv, TypeOK, Shape, PcInv, InCreate
    <3>3. pc'[Idle] = pc[Idle]
      BY <2>1, <2>6, <3>1, <3>2, ResumedType
    <3>4. UnderConstruction' = UnderConstruction
      BY <3>1, <3>3 DEF UnderConstruction, New
    <3>5. CASE ContextSwitch(now + d)
      BY <1>2, <3>4, <3>5, SwitchKeepsRunnable
    <3>6. CASE UNCHANGED <<rq, state, current>>
      BY <1>2, <3>4, <3>6 DEF NoLostTask
    <3> QED
      BY <2>6, <3>5, <3>6 DEF Tick
  <2> QED
    BY <1>2, <2>2, <2>3, <2>4, <2>5, <2>6 DEF Next
<1>3. NoLostTask /\ UNCHANGED vars => NoLostTask'
  BY DEF NoLostTask, UnderConstruction, New, vars
<1> QED
  BY <1>1, <1>2, <1>3, AlwaysIInv, PTL DEF Spec

-----------------------------------------------------------------------------
(* Charges                                                                 *)

LEMMA ProductGrows ==
  ASSUME NEW a \in Nat, NEW b \in Nat, a <= b, NEW n \in Nat
  PROVE  a * n <= b * n /\ a * n \in Nat /\ b * n \in Nat
<1>1. PICK k \in Nat : b = a + k
  <2>1. b - a \in Nat /\ b = a + (b - a)
    OBVIOUS
  <2> QED
    BY <2>1
<1>2. b * n = a * n + k * n /\ k * n \in Nat /\ a * n \in Nat
  BY <1>1
<1> QED
  BY <1>2

LEMMA QuotientGrows ==
  ASSUME NEW a \in Nat, NEW b \in Nat, a <= b, NEW w \in Nat \ {0}
  PROVE  a \div w <= b \div w /\ a \div w \in Nat
<1> DEFINE p == a \div w
           q == b \div w
<1>1. /\ p \in Nat /\ a % w \in 0 .. w - 1 /\ a = w * p + (a % w)
      /\ q \in Nat /\ b % w \in 0 .. w - 1 /\ b = w * q + (b % w)
  OBVIOUS
<1> HIDE DEF p, q
<1>2. SUFFICES ASSUME q < p PROVE FALSE
  BY <1>1 DEF p, q
<1>3. PICK k \in Nat : p = q + 1 + k
  <2>1. p - q - 1 \in Nat /\ p = q + 1 + (p - q - 1)
    BY <1>1, <1>2
  <2> QED
    BY <2>1
<1>4. w * p = w * q + w + w * k /\ w * k \in Nat
  BY <1>1, <1>3
<1>5. w * p \in Nat /\ w * q \in Nat
  BY <1>1
<1> QED
  BY <1>1, <1>4, <1>5

\* A stay on the CPU that began less than a slice before the last tick adds no
\* more than MaxCharge.
LEMMA ChargeBound ==
  ASSUME NEW d \in Nat, NEW e \in Nat, e <= Slice - 1 + d, NEW w \in Nat \ {0}
  PROVE  (e * Nice0) \div w <= MaxCharge(d, w) /\ MaxCharge(d, w) \in Nat
<1>1. Slice - 1 + d \in Nat /\ Nice0 \in Nat
  BY NumberAssumption
<1>2. /\ e * Nice0 <= (Slice - 1 + d) * Nice0
      /\ e * Nice0 \in Nat /\ (Slice - 1 + d) * Nice0 \in Nat
  BY <1>1, ProductGrows
<1> DEFINE x == e * Nice0
           y == (Slice - 1 + d) * Nice0
<1>3. x \in Nat /\ y \in Nat /\ x <= y
  BY <1>2
<1> HIDE DEF x, y
<1>4. x \div w <= y \div w /\ x \div w \in Nat /\ y \div w \in Nat
  BY <1>3, QuotientGrows
<1> QED
  BY <1>4 DEF x, y, MaxCharge

\* A full slice is never charged with nothing.
LEMMA ChargePositive ==
  ASSUME NEW e \in Nat, e >= Slice, NEW t \in Task
  PROVE  (e * Nice0) \div Weight[t] >= 1
<1> DEFINE w == Weight[t]
           x == e * Nice0
<1>1. w \in Nat \ {0} /\ Nice0 \in Nat /\ Slice \in Nat /\ Slice * Nice0 >= w
  BY NumberAssumption
<1>2. x \in Nat /\ Slice * Nice0 \in Nat /\ Slice * Nice0 <= x
  BY <1>1, ProductGrows
<1> HIDE DEF w, x
<1>3. w \in Nat /\ x \in Nat /\ w <= x
  BY <1>1, <1>2
<1>4. w \div w <= x \div w /\ x \div w \in Nat
  BY <1>1, <1>3, QuotientGrows
<1>5. w \div w = 1
  BY <1>1
<1> QED
  BY <1>3, <1>4, <1>5 DEF w, x

-----------------------------------------------------------------------------
(* Threads that compute and exit                                           *)

\* Only the task on the CPU is RUNNING, a task in the middle of a call is one
\* that exits, and what was charged to the others is what they used.
CalmInv ==
  \A t \in Task :
    /\ state[t] # "SLEEPING"
    /\ state[t] = "RUNNING" => t = current
    /\ pc[t] \notin {"none", "run"} => state[t] = "ZOMBIE"
    /\ state[t] # "ZOMBIE" =>
         runtime[t] + (IF t = current THEN now - sliceStart ELSE 0) = used[t]

\* What is left of Next without yield, sleep, wake and clone.
LEMMA ExitOnly ==
  ASSUME Ops \subseteq {"exit"}, IInv, CalmInv, Next
  PROVE  \/ CreateStep
         \/ \E t \in Task : ExitZombie(t) \/ ExitSyscall(t)
         \/ \E t \in Task :
              /\ current = t /\ state[t] = "ZOMBIE"
              /\ \/ ExitUnlinkPrev(t) \/ ExitUnlinkNext(t) \/ ExitUnlinkHead(t)
                 \/ ExitUncount(t)
                 \/ ZeroSlice(t)
                 \/ SleepReturn(t)
         \/ \E d \in TickLens : Tick(d)
  BY DEF Next, Clone, CloneFails, ExitStep, Yield, SleepMark, Wake, CalmInv, At,
     ExitUnlinkPrev, ExitUnlinkNext, ExitUnlinkHead, ExitUncount, ZeroSlice, SleepReturn

LEMMA CalmInit == Init => CalmInv
  BY TaskAssumption DEF Init, CalmInv, Thread

\* The task under construction has not begun to use the CPU.
LEMMA CalmCreate ==
  ASSUME IInv, CalmInv, CreateStep
  PROVE  CalmInv'
<1>1. current = Idle /\ Idle \notin Task
  BY TaskAssumption DEF CreateStep, CreateAlloc, CreateTidLoad, CreateTidStore,
     CreateVruntime, CreateLink, CreateHead, CreateCountLoad, CreateCountStore,
     CreateGrow, CreateSlot, CreateSlotLate, At
<1>2. UNCHANGED <<runtime, current, now, sliceStart, used>>
  BY DEF CreateStep, CreateAlloc, CreateTidLoad, CreateTidStore,
     CreateVruntime, CreateLink, CreateHead, CreateCountLoad, CreateCountStore,
     CreateGrow, CreateSlot, CreateSlotLate, tcb, clock
<1>3. /\ Idle \in Thread /\ state \in [Thread -> States] /\ pc \in [Thread -> Points]
      /\ Task \subseteq Thread
  BY DEF IInv, TypeOK, Thread
<1>4. CASE CreateAlloc \/ CreateTidLoad \/ CreateLink \/ CreateHead
           \/ CreateCountLoad \/ CreateCountStore
  <2>1. UNCHANGED state /\ \A t \in Task : pc'[t] = pc[t]
    BY <1>1, <1>3, <1>4 DEF CreateAlloc, CreateTidLoad, CreateLink, CreateHead,
       CreateCountLoad, CreateCountStore, tcb, Goto
  <2> QED
    BY <1>1, <1>2, <2>1 DEF CalmInv
<1>5. CASE \/ CreateTidStore \/ CreateVruntime \/ CreateGrow \/ CreateSlot
           \/ CreateSlotLate
  <2>1. pc[Idle] \in InCreate
    BY <1>5 DEF CreateTidStore, CreateVruntime, CreateGrow, CreateSlot,
       CreateSlotLate, At, InCreate
  <2>2. New \in Task /\ New # current /\ state[New] \in {"RUNNABLE", "NONE"}
    BY <2>1, NewHidden
  <2>3. \A t \in Task : \/ t # New /\ state'[t] = state[t] /\ pc'[t] = pc[t]
                        \/ /\ t = New /\ state'[t] \in {"RUNNABLE", "NONE"}
                           /\ pc'[t] \in {pc[t], "run"}
    BY <1>1, <1>3, <1>5, <2>2 DEF CreateTidStore, CreateVruntime, CreateGrow,
       CreateSlot, CreateSlotLate, Goto, tcb
  <2>4. pc[New] \in {"none", "run"}
    BY <2>2 DEF CalmInv
  <2> QED
    BY <1>1, <1>2, <2>2, <2>3, <2>4 DEF CalmInv
<1> QED
  BY <1>4, <1>5 DEF CreateStep

LEMMA CalmExit ==
  ASSUME IInv, CalmInv, NEW t \in Task, ExitZombie(t) \/ ExitSyscall(t)
  PROVE  CalmInv'
<1>1. /\ state \in [Thread -> States] /\ pc \in [Thread -> Points] /\ t \in Thread
      /\ Task \subseteq Thread
  BY DEF IInv, TypeOK, Thread
<1>2. UNCHANGED <<runtime, current, now, used>> /\ current = t
  BY DEF ExitZombie, ExitSyscall, clock, At
<1>3. state'[t] = "ZOMBIE"
  BY <1>1 DEF ExitZombie, ExitSyscall
<1>4. \A s \in Task : s # t => state'[s] = state[s] /\ pc'[s] = pc[s]
  BY <1>1 DEF ExitZombie, ExitSyscall, Goto
<1> QED
  BY <1>2, <1>3, <1>4 DEF CalmInv

LEMMA CalmZombie ==
  ASSUME IInv, CalmInv, NEW t \in Task, current = t, state[t] = "ZOMBIE",
         \/ ExitUnlinkPrev(t) \/ ExitUnlinkNext(t) \/ ExitUnlinkHead(t)
         \/ ExitUncount(t) \/ ZeroSlice(t) \/ SleepReturn(t)
  PROVE  CalmInv'
<1>1. pc \in [Thread -> Points] /\ t \in Thread /\ Task \subseteq Thread
  BY DEF IInv, TypeOK, Thread
<1>2. UNCHANGED <<state, runtime, current, now, used>>
  BY DEF ExitUnlinkPrev, ExitUnlinkNext, ExitUnlinkHead, ExitUncount, ZeroSlice,
     SleepReturn, tcb, clock
<1>3. \A s \in Task : s # t => pc'[s] = pc[s]
  BY <1>1 DEF ExitUnlinkPrev, ExitUnlinkNext, ExitUnlinkHead, ExitUncount, ZeroSlice,
     SleepReturn, Goto
<1> QED
  BY <1>2, <1>3 DEF CalmInv

\* A switch charges the task that leaves with what it used since it came.
LEMMA CalmTick ==
  ASSUME IInv, CalmInv, NEW d \in TickLens, Tick(d), pc[Idle] # "slot",
         "queue" \notin torn
  PROVE  CalmInv'
<1>1. /\ state \in [Thread -> States] /\ pc \in [Thread -> Points]
      /\ Task \subseteq Thread /\ current \in Thread /\ rq \subseteq Task
      /\ used \in [Thread -> Nat] /\ runtime \in [Thread -> Nat]
      /\ now \in Nat /\ sliceStart \in Nat /\ d \in Nat /\ Idle \notin Task
  BY TaskAssumption, NumberAssumption DEF IInv, TypeOK, Thread
<1>2. /\ now' = now + d
      /\ \A t \in Thread : used'[t] = IF t = current THEN used[t] + d ELSE used[t]
  BY <1>1 DEF Tick
<1>3. \A t \in Task : pc'[t] = pc[t] \/ pc'[t] = "run"
  <2>1. pc' = Resumed(pc)
    BY DEF Tick
  <2> QED
    BY <1>1, <2>1, ResumedType DEF IInv, Shape, PcInv, InCreate
<1>4. CASE ContextSwitch(now + d)
  <2>1. PICK next \in Requeued \cup {Idle} :
          /\ current' = next
          /\ state' = [IF state[current] = "RUNNING"
                         THEN [state EXCEPT ![current] = "RUNNABLE"] ELSE state
                       EXCEPT ![next] = "RUNNING"]
    BY <1>4 DEF ContextSwitch, Best
  <2>2. /\ sliceStart' = now + d
        /\ \A t \in Task : runtime'[t] = IF t = current THEN runtime[t] + ((now + d) - sliceStart)
                                        ELSE runtime[t]
    BY <1>1, <1>4 DEF ContextSwitch, Delta
  <2>3. next \in Thread /\ (next \in Task => state[next] # "ZOMBIE")
    BY <1>1, <2>1, RequeuedType DEF IInv, Shape, CurrentApart, Thread
  <2>4. \A t \in Task : state'[t] = IF t = next THEN "RUNNING"
                                   ELSE IF t = current /\ state[t] = "RUNNING" THEN "RUNNABLE"
                                   ELSE state[t]
    BY <1>1, <2>1, <2>3
  <2>5. \A t \in Task : state'[t] # "ZOMBIE" => runtime'[t] = used'[t] /\ state[t] # "ZOMBIE"
    <3> SUFFICES ASSUME NEW t \in Task, state'[t] # "ZOMBIE"
                 PROVE  runtime'[t] = used'[t] /\ state[t] # "ZOMBIE"
      OBVIOUS
    <3>1. state[t] # "ZOMBIE"
      BY <2>3, <2>4
    <3>2. runtime[t] + (IF t = current THEN now - sliceStart ELSE 0) = used[t]
      BY <3>1 DEF CalmInv
    <3>3. runtime[t] \in Nat /\ used[t] \in Nat
      BY <1>1
    <3> QED
      BY <1>1, <1>2, <2>2, <3>1, <3>2, <3>3
  <2>6. \A t \in Task : state[t] = "ZOMBIE" => state'[t] = "ZOMBIE"
    BY <2>3, <2>4
  <2> SUFFICES ASSUME NEW t \in Task
               PROVE  /\ state'[t] # "SLEEPING"
                      /\ state'[t] = "RUNNING" => t = current'
                      /\ pc'[t] \notin {"none", "run"} => state'[t] = "ZOMBIE"
                      /\ state'[t] # "ZOMBIE" =>
                           runtime'[t] + (IF t = current' THEN now' - sliceStart' ELSE 0) = used'[t]
    BY DEF CalmInv
  <2>7. state'[t] # "SLEEPING" /\ (state'[t] = "RUNNING" => t = current')
    <3>1. state[t] # "SLEEPING" /\ (state[t] = "RUNNING" => t = current)
      BY DEF CalmInv
    <3>2. CASE t = next
      <4>1. t = current' /\ state'[t] = "RUNNING"
        BY <2>1, <2>4, <3>2
      <4> QED
        BY <4>1
    <3>3. CASE t # next
      BY <2>4, <3>1, <3>3
    <3> QED
      BY <3>2, <3>3
  <2>8. pc'[t] \notin {"none", "run"} => state'[t] = "ZOMBIE"
    BY <1>3, <2>6 DEF CalmInv
  <2>9. now' - sliceStart' = 0
    BY <1>1, <1>2, <2>2
  <2>10. state'[t] # "ZOMBIE" => runtime'[t] + 0 = used'[t]
    <3>1. runtime[t] \in Nat /\ runtime'[t] \in Int
      BY <1>1, <2>2
    <3> QED
      BY <2>5, <3>1
  <2> QED
    BY <2>7, <2>8, <2>9, <2>10
<1>5. CASE UNCHANGED <<runtime, state, current, sliceStart>>
  <2> SUFFICES ASSUME NEW t \in Task, state[t] # "ZOMBIE"
               PROVE  runtime[t] + (IF t = current THEN now' - sliceStart ELSE 0) = used'[t]
    BY <1>3, <1>5 DEF CalmInv
  <2>1. runtime[t] + (IF t = current THEN now - sliceStart ELSE 0) = used[t]
    BY DEF CalmInv
  <2>2. runtime[t] \in Nat /\ used[t] \in Nat
    BY <1>1
  <2> QED
    BY <1>1, <1>2, <2>1, <2>2
<1> QED
  BY <1>4, <1>5 DEF Tick

LEMMA CalmNext ==
  ASSUME Ops \subseteq {"exit"}, IInv, [Next]_vars,
         "queue" \notin torn => CalmInv, "queue" \notin torn'
  PROVE  CalmInv'
<1>0. /\ CalmInv /\ "queue" \notin torn
      /\ \A d \in TickLens : Tick(d) => pc[Idle] # "slot"
  BY NoHole
<1>1. CASE Next
  BY <1>0, <1>1, ExitOnly, CalmCreate, CalmExit, CalmZombie, CalmTick
<1>2. CASE UNCHANGED vars
  BY <1>0, <1>2 DEF vars, CalmInv
<1> QED
  BY <1>1, <1>2

LEMMA AlwaysCalm ==
  ASSUME Ops \subseteq {"exit"}
  PROVE  Spec => []("queue" \notin torn => CalmInv)
<1>1. IInv /\ ("queue" \notin torn => CalmInv) /\ [Next]_vars
        => ("queue" \notin torn => CalmInv)'
  BY CalmNext
<1> QED
  BY <1>1, CalmInit, AlwaysIInv, PTL DEF Spec

\* Threads that compute and exit are charged exactly what they used, whatever
\* a tick cuts in two but a rq_push between its two stores.  (sched_yield and
\* sched_sleep_ns zero slice_start_tsc.)
THEOREM RuntimeIsExact ==
  ASSUME Ops \subseteq {"exit"}
  PROVE  Spec => []AccountingExact
<1>1. ("queue" \notin torn => CalmInv) => AccountingExact
  BY DEF CalmInv, AccountingExact, Live
<1> QED
  BY <1>1, AlwaysCalm, PTL

-----------------------------------------------------------------------------
(* min_vruntime                                                            *)

\* Points at which the boot thread has given the new task its vruntime.
Keyed == {"link", "head", "count", "count2", "push", "slot"}

\* The queue and the task on the CPU.
Ready == rq \cup {t \in Task : t = current /\ state[t] = "RUNNING"}

\* As long as no switch cut a creation: the boot thread has the CPU only when
\* whatever is queued it has queued itself, all at min_vruntime, and a task was
\* least when it got the CPU, less than a slice ago.
EvenInv == "create" \notin torn =>
  /\ current # Idle => pc[Idle] = "run"
  /\ \A t \in Ready : minVruntime <= vruntime[t]
  /\ current = Idle => \A t \in rq : vruntime[t] = minVruntime
  /\ pc[Idle] \in Keyed => vruntime[New] = minVruntime
  /\ current # Idle /\ state[current] = "RUNNING" =>
       /\ \A t \in rq : vruntime[current] <= vruntime[t]
       /\ now - sliceStart < Slice

LEMMA MinOfEqual ==
  ASSUME IInv, current = Idle, \A t \in rq : vruntime[t] = minVruntime
  PROVE  UpdatedMin(vruntime) = minVruntime
<1>1. vruntime \in [Thread -> Nat] /\ rq \subseteq Task /\ minVruntime \in Nat
  BY DEF IInv, TypeOK
<1>2. rq # {} => QueueMin(vruntime) = minVruntime
  <2> SUFFICES ASSUME rq # {} PROVE QueueMin(vruntime) = minVruntime
    OBVIOUS
  <2>1. {vruntime[t] : t \in rq} = {minVruntime}
    OBVIOUS
  <2>2. \E m \in {minVruntime} : \A t \in rq : m <= vruntime[t]
    BY <1>1
  <2> QED
    BY <2>1, <2>2 DEF QueueMin
<1> QED
  BY <1>1, <1>2 DEF UpdatedMin

LEMMA MinBelow ==
  ASSUME NEW v \in [Thread -> Nat], rq \subseteq Task, current \in Thread, current # Idle,
         minVruntime \in Nat
  PROVE  /\ \A t \in rq : minVruntime <= v[t] => UpdatedMin(v) <= v[t]
         /\ v[current] # 0 /\ minVruntime <= v[current] => UpdatedMin(v) <= v[current]
<1>1. rq # {} => QueueMin(v) \in Nat /\ \A t \in rq : QueueMin(v) <= v[t]
  BY QueueMinType
<1>2. v[current] \in Nat /\ \A t \in rq : v[t] \in Nat
  BY DEF Thread
<1>3. CASE rq = {}
  BY <1>2, <1>3 DEF UpdatedMin
<1>4. CASE rq # {}
  <2>1. PICK q \in Nat : q = QueueMin(v)
    BY <1>1, <1>4
  <2>2. UpdatedMin(v) = LET low == IF v[current] = 0 \/ q < v[current] THEN q ELSE v[current]
                        IN IF low > minVruntime THEN low ELSE minVruntime
    BY <1>4, <2>1 DEF UpdatedMin
  <2>3. \A t \in rq : q <= v[t]
    BY <1>1, <1>4, <2>1
  <2> QED
    BY <1>2, <2>2, <2>3
<1> QED
  BY <1>3, <1>4

LEMMA EvenInit == Init => EvenInv
<1> SUFFICES ASSUME Init PROVE EvenInv
  OBVIOUS
<1>1. current = Idle /\ rq = {} /\ pc[Idle] = "run"
  BY DEF Init, Thread
<1>2. Ready = {}
  BY <1>1, TaskAssumption DEF Ready
<1> QED
  BY <1>1, <1>2 DEF EvenInv, Keyed

LEMMA EvenCreate ==
  ASSUME IInv, EvenInv, CreateStep
  PROVE  EvenInv'
<1>1. current = Idle /\ Idle \notin Task
  BY TaskAssumption DEF CreateStep, CreateAlloc, CreateTidLoad, CreateTidStore,
     CreateVruntime, CreateLink, CreateHead, CreateCountLoad, CreateCountStore,
     CreateGrow, CreateSlot, CreateSlotLate, At
<1>2. UNCHANGED <<current, torn>>
  BY DEF CreateStep, CreateAlloc, CreateTidLoad, CreateTidStore,
     CreateVruntime, CreateLink, CreateHead, CreateCountLoad, CreateCountStore,
     CreateGrow, CreateSlot, CreateSlotLate
<1>3. Ready = rq /\ Ready' = rq'
  BY <1>1, <1>2 DEF Ready
<1>4. /\ Idle \in Thread /\ pc \in [Thread -> Points] /\ vruntime \in [Thread -> Nat]
      /\ rq \subseteq Task /\ Task \subseteq Thread /\ minVruntime \in Nat
  BY DEF IInv, TypeOK, Thread
<1> SUFFICES ASSUME "create" \notin torn
             PROVE  /\ \A t \in rq' : vruntime'[t] = minVruntime'
                    /\ pc'[Idle] \in Keyed => vruntime'[New'] = minVruntime'
                    /\ \A t \in rq' : minVruntime' <= vruntime'[t]
  BY <1>1, <1>2, <1>3 DEF EvenInv
<1>5. /\ \A t \in rq : vruntime[t] = minVruntime
      /\ pc[Idle] \in Keyed => vruntime[New] = minVruntime
  BY <1>1 DEF EvenInv
<1>6. minVruntime' \in Nat /\ \A t \in rq' : vruntime'[t] = minVruntime'
  <2>1. CASE CreateVruntime
    <3>1. pc[Idle] \in InCreate
      BY <2>1 DEF CreateVruntime, At, InCreate
    <3>2. New \in Task /\ New \notin rq
      BY <3>1, NewHidden
    <3>3. minVruntime' = minVruntime
      BY <1>1, <1>5, <2>1, MinOfEqual DEF CreateVruntime
    <3> QED
      BY <1>4, <1>5, <2>1, <3>2, <3>3 DEF CreateVruntime
  <2>2. CASE CreateSlot
    BY <1>4, <1>5, <2>2 DEF CreateSlot, At, Keyed, tcb
  <2>3. CASE CreateAlloc \/ CreateTidLoad \/ CreateTidStore \/ CreateLink \/ CreateHead
             \/ CreateCountLoad \/ CreateCountStore \/ CreateGrow \/ CreateSlotLate
    BY <1>4, <1>5, <2>3 DEF CreateAlloc, CreateTidLoad, CreateTidStore, CreateLink,
       CreateHead, CreateCountLoad, CreateCountStore, CreateGrow, CreateSlotLate, tcb
  <2> QED
    BY <2>1, <2>2, <2>3 DEF CreateStep
<1>7. pc'[Idle] \in Keyed => vruntime'[New'] = minVruntime'
  <2>1. CASE CreateVruntime
    <3>1. pc[Idle] \in InCreate
      BY <2>1 DEF CreateVruntime, At, InCreate
    <3>2. New \in Task
      BY <3>1, NewHidden
    <3>3. CASE pc'[Idle] = "link"
      BY <1>4, <2>1, <3>2, <3>3 DEF CreateVruntime, Goto, New
    <3> QED
      BY <1>4, <2>1, <3>3 DEF CreateVruntime, Goto, Keyed
  <2>2. CASE CreateLink \/ CreateHead \/ CreateCountLoad \/ CreateCountStore
    BY <1>5, <2>2 DEF CreateLink, CreateHead, CreateCountLoad, CreateCountStore,
       tcb, boot, New, At, Keyed
  <2>3. CASE CreateGrow
    <3>1. pc[Idle] \in InCreate /\ pc[Idle] \in Keyed
      BY <2>3 DEF CreateGrow, At, InCreate, Keyed
    <3>2. New # Idle
      BY <1>1, <3>1, NewHidden
    <3>3. Full(rq) => pc'[Idle] = "run"
      BY <1>4, <2>3, <3>2 DEF CreateGrow
    <3> QED
      BY <1>5, <2>3, <3>1, <3>3 DEF CreateGrow, tcb, New, Keyed
  <2>4. CASE CreateSlot \/ CreateSlotLate
    <3>1. pc[Idle] \in InCreate
      BY <2>4 DEF CreateSlot, CreateSlotLate, At, InCreate
    <3>2. New # Idle
      BY <1>1, <3>1, NewHidden
    <3> QED
      BY <1>4, <2>4, <3>2 DEF CreateSlot, CreateSlotLate, Keyed
  <2>5. CASE CreateAlloc \/ CreateTidLoad \/ CreateTidStore
    <3>1. pc'[Idle] \in {"tid", "tid2", "vruntime", "run"}
      BY <1>4, <2>5 DEF CreateAlloc, CreateTidLoad, CreateTidStore, Goto, At
    <3> QED
      BY <3>1 DEF Keyed
  <2> QED
    BY <2>1, <2>2, <2>3, <2>4, <2>5 DEF CreateStep
<1> QED
  BY <1>6, <1>7

\* Neither an exit nor what follows it concerns those that go on.
LEMMA EvenExit ==
  ASSUME IInv, EvenInv, NEW t \in Task,
         \/ ExitZombie(t) \/ ExitSyscall(t)
         \/ /\ current = t /\ state[t] = "ZOMBIE"
            /\ \/ ExitUnlinkPrev(t) \/ ExitUnlinkNext(t) \/ ExitUnlinkHead(t)
               \/ ExitUncount(t) \/ ZeroSlice(t) \/ SleepReturn(t)
  PROVE  EvenInv'
<1>1. /\ state \in [Thread -> States] /\ pc \in [Thread -> Points] /\ t \in Thread
      /\ Idle \in Thread /\ t # Idle
  BY TaskAssumption DEF IInv, TypeOK, Thread
<1>2. UNCHANGED <<vruntime, minVruntime, current, rq, torn, todo>> /\ current = t
  BY DEF ExitZombie, ExitSyscall, ExitUnlinkPrev, ExitUnlinkNext, ExitUnlinkHead,
     ExitUncount, ZeroSlice, SleepReturn, tcb, boot, At
<1>3. pc'[Idle] = pc[Idle]
  BY <1>1 DEF ExitZombie, ExitSyscall, ExitUnlinkPrev, ExitUnlinkNext, ExitUnlinkHead,
     ExitUncount, ZeroSlice, SleepReturn, Goto
<1>4. state'[t] = "ZOMBIE"
  BY <1>1 DEF ExitZombie, ExitSyscall, ExitUnlinkPrev, ExitUnlinkNext, ExitUnlinkHead,
     ExitUncount, ZeroSlice, SleepReturn, tcb
<1>5. Ready' \subseteq Ready
  BY <1>2, <1>4 DEF Ready
<1> QED
  BY <1>1, <1>2, <1>3, <1>4, <1>5 DEF EvenInv, New

\* What a switch at the end of a tick does.
LEMMA SwitchFacts ==
  ASSUME IInv, NEW d \in TickLens, Tick(d), pc[Idle] # "slot",
         ContextSwitch(now + d)
  PROVE  /\ current' \in Requeued \cup {Idle} /\ rq' = Requeued \ {current'}
         /\ current' = Idle => Requeued = {}
         /\ vruntime' \in [Thread -> Nat]
         /\ \A t \in Requeued : current' # Idle => vruntime'[current'] <= vruntime'[t]
         /\ \A t \in Thread : t # current \/ t = Idle => vruntime'[t] = vruntime[t]
         /\ current # Idle =>
              vruntime'[current] = vruntime[current]
                + (((now + d) - sliceStart) * Nice0) \div Weight[current]
         /\ minVruntime' = UpdatedMin(vruntime')
         /\ now' = now + d /\ sliceStart' = now'
         /\ pc'[Idle] = pc[Idle] /\ todo' = todo
         /\ "create" \notin torn' =>
              "create" \notin torn /\ (current' = Idle \/ pc[Idle] \notin InCreate)
<1> DEFINE charged == IF current = Idle THEN vruntime
                      ELSE [vruntime EXCEPT ![current] =
                              @ + (Delta(now + d) * Nice0) \div Weight[current]]
<1>1. PICK next \in IF Requeued = {} THEN {Idle} ELSE Best(Requeued, charged) :
        /\ rq' = Popped(Requeued, next)
        /\ current' = next
        /\ torn' = torn
                \cup {s \in {"create"} : next # Idle /\ pc[Idle] \in InCreate}
                \cup {s \in {"exit"} : next # current /\ pc[current] \in InExit}
  BY DEF ContextSwitch
<1>2. vruntime' = charged /\ minVruntime' = UpdatedMin(charged) /\ sliceStart' = now + d
  BY DEF ContextSwitch
<1>3. now' = now + d /\ todo' = todo /\ pc' = Resumed(pc)
  BY DEF Tick, boot
<1>4. vruntime' \in [Thread -> Nat]
  <2>1. IInv'
    BY TickIInv
  <2> QED
    BY <2>1 DEF IInv, TypeOK
<1>5. /\ \A t \in Thread : t # current \/ t = Idle => vruntime'[t] = vruntime[t]
      /\ current # Idle =>
           vruntime'[current] = vruntime[current]
             + (((now + d) - sliceStart) * Nice0) \div Weight[current]
  <2>1. vruntime \in [Thread -> Nat] /\ current \in Thread
    BY DEF IInv, TypeOK
  <2> DEFINE c == (Delta(now + d) * Nice0) \div Weight[current]
  <2>2. vruntime' = IF current = Idle THEN vruntime
                    ELSE [vruntime EXCEPT ![current] = vruntime[current] + c]
    BY <1>2
  <2>3. c = (((now + d) - sliceStart) * Nice0) \div Weight[current]
    <3>1. Delta(now + d) = (now + d) - sliceStart
      BY DEF Delta
    <3> QED
      BY <3>1, Zenon
  <2> HIDE DEF c, charged
  <2>4. /\ \A t \in Thread : t # current \/ t = Idle => vruntime'[t] = vruntime[t]
        /\ current # Idle => vruntime'[current] = vruntime[current] + c
    BY <2>1, <2>2
  <2> QED
    BY <2>3, <2>4
<1> HIDE DEF charged
<1>6. Requeued \subseteq Task /\ Idle \notin Task
  BY RequeuedType, TaskAssumption
<1>9. pc'[Idle] = pc[Idle]
  <2>1. pc \in [Thread -> Points] /\ current \in Thread /\ Idle \in Thread
        /\ pc[Idle] # "doze"
    BY DEF IInv, TypeOK, Thread, Shape, PcInv, InCreate
  <2> QED
    BY <1>3, <2>1, ResumedType
<1>10. /\ current' \in Requeued \cup {Idle} /\ rq' = Requeued \ {current'}
       /\ current' = Idle => Requeued = {}
       /\ \A t \in Requeued : current' # Idle => vruntime'[current'] <= vruntime'[t]
  <2>1. CASE Requeued = {}
    BY <1>1, <2>1 DEF Popped
  <2>2. CASE Requeued # {}
    <3>1. next \in Requeued /\ \A t \in Requeued : charged[next] <= charged[t]
      BY <1>1, <2>2 DEF Best
    <3>2. next # Idle
      BY <1>6, <3>1
    <3> QED
      BY <1>1, <1>2, <3>1, <3>2 DEF Popped
  <2> QED
    BY <2>1, <2>2
<1>11. "create" \notin torn' =>
         "create" \notin torn /\ (current' = Idle \/ pc[Idle] \notin InCreate)
  BY <1>1
<1> QED
  BY <1>2, <1>3, <1>4, <1>5, <1>9, <1>10, <1>11

\* A running task that is switched out has been charged with something: it had
\* a slice, or more than a slice more than the least of the queue.
LEMMA ChargedRuns ==
  ASSUME IInv, NEW d \in TickLens, NeedSwitch(now + d), current # Idle
  PROVE  vruntime[current] + (((now + d) - sliceStart) * Nice0) \div Weight[current] \in Nat \ {0}
<1>1. /\ current \in Task /\ vruntime[current] \in Nat /\ rq \subseteq Task
      /\ vruntime \in [Thread -> Nat]
      /\ (now + d) - sliceStart \in Nat /\ Slice \in Nat
  BY NumberAssumption DEF IInv, TypeOK, Thread
<1> DEFINE e == (now + d) - sliceStart
<1>2. e \in Nat
  BY <1>1
<1>3. e >= Slice \/ (rq # {} /\ vruntime[current] - QueueMin(vruntime) > Slice)
  BY Zenon DEF NeedSwitch
<1> HIDE DEF e
<1> DEFINE w == Weight[current]
           c == (e * Nice0) \div w
<1>4. w \in Nat \ {0}
  BY <1>1, NumberAssumption
<1>5. c \in Nat
  BY <1>2, <1>4, ChargeType
<1>6. e >= Slice => c >= 1
  BY <1>1, <1>2, ChargePositive
<1> HIDE DEF c, w
<1>7. rq # {} => QueueMin(vruntime) \in Nat
  BY <1>1, QueueMinType
<1>8. vruntime[current] + c \in Nat \ {0}
  BY <1>1, <1>3, <1>5, <1>6, <1>7
<1> QED
  BY <1>8 DEF c, w, e

LEMMA NoTimeYet ==
  ASSUME NEW n, NEW m \in Nat, n = m, NEW s \in Nat, s # 0
  PROVE  m - n < s
  OBVIOUS

\* A switch from the boot thread: the keys stay, and so does min_vruntime.
LEMMA EvenFromBoot ==
  ASSUME IInv, EvenInv, NEW d \in TickLens, Tick(d), pc[Idle] # "slot",
         ContextSwitch(now + d), current = Idle
  PROVE  EvenInv'
<1> SUFFICES ASSUME "create" \notin torn' PROVE EvenInv'
  BY DEF EvenInv
<1>1. /\ current' \in Requeued \cup {Idle} /\ rq' = Requeued \ {current'}
      /\ current' = Idle => Requeued = {}
      /\ vruntime' \in [Thread -> Nat]
      /\ \A t \in Thread : t # current \/ t = Idle => vruntime'[t] = vruntime[t]
      /\ minVruntime' = UpdatedMin(vruntime')
      /\ sliceStart' = now'
      /\ pc'[Idle] = pc[Idle] /\ todo' = todo
      /\ "create" \notin torn /\ (current' = Idle \/ pc[Idle] \notin InCreate)
  BY SwitchFacts
<1>2. /\ rq \subseteq Task /\ Task \subseteq Thread /\ Idle \notin Task
      /\ vruntime \in [Thread -> Nat] /\ now' \in Nat /\ Slice \in Nat \ {0}
      /\ minVruntime \in Nat /\ pc[Idle] \in InCreate \cup {"run"}
  <2>1. IInv'
    BY TickIInv
  <2> QED
    BY <2>1, TaskAssumption, NumberAssumption DEF IInv, TypeOK, Thread, Shape, PcInv
<1>3. Requeued = rq
  BY DEF Requeued
<1>4. vruntime' = vruntime
  BY <1>1, <1>2
<1>5. \A t \in rq : vruntime[t] = minVruntime
  BY <1>1 DEF EvenInv
<1>6. minVruntime' = minVruntime
  BY <1>1, <1>4, <1>5, MinOfEqual
<1>7. Ready' \subseteq rq
  BY <1>1, <1>2, <1>3 DEF Ready
<1>8. pc[Idle] \in Keyed => vruntime[New] = minVruntime
  BY <1>1 DEF EvenInv
<1>9. now' - sliceStart' < Slice
  <2>1. sliceStart' = now' /\ now' \in Nat /\ Slice \in Nat /\ Slice # 0
    BY <1>1, <1>2
  <2> QED
    BY <2>1, NoTimeYet
<1>10. rq' \subseteq rq /\ (current' = Idle => rq' = {}) /\ current' \in rq \cup {Idle}
  BY <1>1, <1>3
<1>11. current' # Idle => pc'[Idle] = "run"
  BY <1>1, <1>2
<1>12. \A t \in Ready' : minVruntime' <= vruntime'[t]
  BY <1>2, <1>4, <1>5, <1>6, <1>7
<1>13. current' = Idle => \A t \in rq' : vruntime'[t] = minVruntime'
  BY <1>10
<1>14. pc'[Idle] \in Keyed => vruntime'[New'] = minVruntime'
  <2>1. New' = New
    BY <1>1 DEF New
  <2> QED
    BY <1>1, <1>4, <1>6, <1>8, <2>1
<1>15. current' # Idle => \A t \in rq' : vruntime'[current'] <= vruntime'[t]
  BY <1>2, <1>4, <1>5, <1>10
<1> QED
  BY <1>9, <1>11, <1>12, <1>13, <1>14, <1>15 DEF EvenInv

\* A switch from a task: the new min_vruntime is below the keys of the others and
\* below what the task has been charged.
LEMMA EvenFromTask ==
  ASSUME IInv, EvenInv, NEW d \in TickLens, Tick(d), ContextSwitch(now + d),
         NeedSwitch(now + d), current # Idle, pc[Idle] # "slot"
  PROVE  EvenInv'
<1> SUFFICES ASSUME "create" \notin torn' PROVE EvenInv'
  BY DEF EvenInv
<1>1. /\ current' \in Requeued \cup {Idle} /\ rq' = Requeued \ {current'}
      /\ current' = Idle => Requeued = {}
      /\ vruntime' \in [Thread -> Nat]
      /\ \A t \in Requeued : current' # Idle => vruntime'[current'] <= vruntime'[t]
      /\ \A t \in Thread : t # current => vruntime'[t] = vruntime[t]
      /\ vruntime'[current] = vruntime[current]
            + (((now + d) - sliceStart) * Nice0) \div Weight[current]
      /\ minVruntime' = UpdatedMin(vruntime')
      /\ sliceStart' = now'
      /\ pc'[Idle] = pc[Idle]
      /\ "create" \notin torn
  BY SwitchFacts
<1>2. /\ rq \subseteq Task /\ Task \subseteq Thread /\ Idle \notin Task
      /\ vruntime \in [Thread -> Nat] /\ now' \in Nat /\ Slice \in Nat \ {0}
      /\ minVruntime \in Nat /\ minVruntime' \in Nat /\ current \in Thread
      /\ current \in Task
  <2>1. IInv'
    BY TickIInv
  <2> QED
    BY <2>1, TaskAssumption, NumberAssumption DEF IInv, TypeOK, Thread
<1>3. pc[Idle] = "run" /\ \A t \in Ready : minVruntime <= vruntime[t]
  BY <1>1 DEF EvenInv
<1>4. vruntime'[current] # 0
  BY <1>1, ChargedRuns
<1>5. vruntime[current] <= vruntime'[current]
  <2>1. /\ (now + d) - sliceStart \in Nat /\ Weight[current] \in Nat \ {0}
    BY <1>2, NumberAssumption DEF IInv, TypeOK
  <2> DEFINE c == (((now + d) - sliceStart) * Nice0) \div Weight[current]
  <2>2. c \in Nat
    BY <2>1, ChargeType
  <2>3. vruntime'[current] = vruntime[current] + c /\ vruntime[current] \in Nat
    BY <1>1, <1>2
  <2> HIDE DEF c
  <2> QED
    BY <2>2, <2>3
<1>6. \A t \in rq : t # current /\ vruntime'[t] = vruntime[t] /\ minVruntime <= vruntime[t]
  BY <1>1, <1>2, <1>3 DEF Ready, IInv, Shape, CurrentApart
<1>7. \A t \in rq : minVruntime' <= vruntime'[t]
  BY <1>1, <1>2, <1>6, MinBelow
<1>8. state[current] = "RUNNING" => minVruntime' <= vruntime'[current]
  <2> SUFFICES ASSUME state[current] = "RUNNING" PROVE minVruntime' <= vruntime'[current]
    OBVIOUS
  <2>1. minVruntime <= vruntime[current]
    BY <1>2, <1>3 DEF Ready
  <2>2. vruntime[current] \in Nat /\ vruntime'[current] \in Nat
    BY <1>1, <1>2
  <2>3. minVruntime <= vruntime'[current]
    BY <1>2, <1>5, <2>1, <2>2
  <2> QED
    BY <1>1, <1>2, <1>4, <2>3, MinBelow
<1>9. \A t \in Requeued : minVruntime' <= vruntime'[t]
  BY <1>7, <1>8, RequeuedType
<1>10. Ready' \subseteq Requeued
  BY <1>1, <1>2 DEF Ready
<1>11. now' - sliceStart' < Slice
  <2>1. sliceStart' = now' /\ now' \in Nat /\ Slice \in Nat /\ Slice # 0
    BY <1>1, <1>2
  <2> QED
    BY <2>1, NoTimeYet
<1>12. /\ current' = Idle => rq' = {}
       /\ current' # Idle => \A t \in rq' : vruntime'[current'] <= vruntime'[t]
  BY <1>1
<1>13. pc'[Idle] \notin Keyed
  BY <1>1, <1>3 DEF Keyed
<1> QED
  BY <1>1, <1>3, <1>9, <1>10, <1>11, <1>12, <1>13 DEF EvenInv

LEMMA EvenTick ==
  ASSUME IInv, EvenInv, NEW d \in TickLens, Tick(d), pc[Idle] # "slot"
  PROVE  EvenInv'
<1>1. CASE NeedSwitch(now + d)
  <2>1. ContextSwitch(now + d)
    BY <1>1 DEF Tick
  <2> QED
    BY <1>1, <2>1, EvenFromBoot, EvenFromTask
<1>2. CASE ~NeedSwitch(now + d)
  <2>1. UNCHANGED <<vruntime, minVruntime, rq, state, current, torn, sliceStart, todo>>
        /\ now' = now + d /\ pc' = Resumed(pc)
    BY <1>2 DEF Tick, boot
  <2>2. (now + d) - sliceStart < Slice
    <3>1. ~((now + d) - sliceStart >= Slice)
      BY <1>2, Zenon DEF NeedSwitch
    <3>2. (now + d) - sliceStart \in Int /\ Slice \in Int
      BY NumberAssumption DEF IInv, TypeOK
    <3> QED
      BY <3>1, <3>2
  <2>3. pc'[Idle] = pc[Idle]
    <3>1. pc \in [Thread -> Points] /\ current \in Thread /\ Idle \in Thread
          /\ pc[Idle] # "doze"
      BY DEF IInv, TypeOK, Thread, Shape, PcInv, InCreate
    <3> QED
      BY <2>1, <3>1, ResumedType
  <2> QED
    BY <2>1, <2>2, <2>3 DEF EvenInv, Ready, New
<1> QED
  BY <1>1, <1>2

LEMMA EvenNext ==
  ASSUME Ops \subseteq {"exit"}, IInv, "queue" \notin torn => CalmInv, EvenInv, TornInv',
         [Next]_vars
  PROVE  EvenInv'
<1> SUFFICES ASSUME "create" \notin torn' PROVE EvenInv'
  BY DEF EvenInv
<1>0. CalmInv /\ \A d \in TickLens : Tick(d) => pc[Idle] # "slot"
  BY NoHole DEF TornInv
<1>1. CASE Next
  BY <1>0, <1>1, ExitOnly, EvenCreate, EvenExit, EvenTick
<1>2. CASE UNCHANGED vars
  BY <1>2 DEF vars, EvenInv, Ready, New
<1> QED
  BY <1>1, <1>2

LEMMA AlwaysEven ==
  ASSUME Ops \subseteq {"exit"}
  PROVE  Spec => []EvenInv
<1>1. IInv /\ ("queue" \notin torn => CalmInv) /\ EvenInv /\ TornInv' /\ [Next]_vars
        => EvenInv'
  BY EvenNext
<1> QED
  BY <1>1, EvenInit, AlwaysCalm, AlwaysTorn, AlwaysIInv, PTL DEF Spec

\* With no more tasks than slots, those that can run are queued or on the CPU.
LEMMA RunnersReady ==
  ASSUME IInv, CalmInv, NoLostTask, "queue" \notin torn,
         NEW t \in Live, state[t] \in {"RUNNING", "RUNNABLE"}
  PROVE  t \in Ready
<1>1. t \in Task /\ t \notin UnderConstruction
  BY DEF Live
<1>2. CASE state[t] = "RUNNING"
  BY <1>1, <1>2 DEF CalmInv, Ready
<1>3. CASE state[t] = "RUNNABLE"
  <2>1. t \in rq \/ t = current
    BY <1>1, <1>3 DEF NoLostTask
  <2>2. t # current
    BY <1>1, <1>3, TaskAssumption DEF IInv, Shape, CurrentInv
  <2> QED
    BY <2>1, <2>2 DEF Ready
<1> QED
  BY <1>2, <1>3

\* min_vruntime is a floor for all that can run, until a tick cuts a creation.
THEOREM FloorHolds ==
  ASSUME Ops \subseteq {"exit"}, IsFiniteSet(Task), Cardinality(Task) <= Cap
  PROVE  Spec => []MinIsFloor
<1>1. IInv /\ TornInv /\ ("queue" \notin torn => CalmInv) /\ NoLostTask /\ EvenInv
        => MinIsFloor
  BY RunnersReady DEF MinIsFloor, EvenInv, TornInv
<1> QED
  BY <1>1, AlwaysIInv, AlwaysCalm, AlwaysEven, AlwaysTorn, NoTaskForgotten, PTL

-----------------------------------------------------------------------------
(* Fair shares                                                             *)

\* How far ahead of another a task may be.
Within(x, y) == \E d \in TickLens : \E u \in Task : x - y <= MaxCharge(d, Weight[u])

SpreadInv == "create" \notin torn =>
  \A s, t \in Ready : Within(vruntime[s], vruntime[t])

LEMMA LevelIsWithin ==
  ASSUME TickLens # {}, NEW x \in Nat, NEW y \in Nat, x <= y, NEW u \in Task
  PROVE  Within(x, y)
<1>1. PICK d \in TickLens : TRUE
  OBVIOUS
<1>2. d \in Nat /\ Weight[u] \in Nat \ {0} /\ 0 <= Slice - 1 + d
  BY NumberAssumption
<1>3. MaxCharge(d, Weight[u]) \in Nat
  BY <1>2, ChargeBound
<1>4. x - y <= MaxCharge(d, Weight[u])
  BY <1>3
<1> QED
  BY <1>4 DEF Within

LEMMA SpreadInit == Init => SpreadInv
<1> SUFFICES ASSUME Init PROVE SpreadInv
  OBVIOUS
<1>1. Ready = {}
  BY TaskAssumption DEF Init, Ready
<1> QED
  BY <1>1 DEF SpreadInv

\* What is queued while the boot thread has the CPU is level.
LEMMA SpreadLevel ==
  ASSUME TickLens # {}, IInv, EvenInv, current = Idle
  PROVE  SpreadInv
<1> SUFFICES ASSUME "create" \notin torn, NEW s \in Ready, NEW t \in Ready
             PROVE  Within(vruntime[s], vruntime[t])
  BY DEF SpreadInv
<1>1. s \in rq /\ t \in rq /\ rq \subseteq Task /\ vruntime \in [Thread -> Nat]
  BY TaskAssumption DEF Ready, IInv, TypeOK
<1>2. vruntime[s] = minVruntime /\ vruntime[t] = minVruntime
  BY <1>1 DEF EvenInv
<1>3. vruntime[s] \in Nat /\ vruntime[t] \in Nat /\ vruntime[s] <= vruntime[t]
  BY <1>1, <1>2 DEF Thread
<1> QED
  BY <1>1, <1>3, LevelIsWithin

LEMMA SpreadCreate ==
  ASSUME TickLens # {}, IInv, EvenInv, CreateStep
  PROVE  SpreadInv'
<1>1. current' = Idle
  BY DEF CreateStep, CreateAlloc, CreateTidLoad, CreateTidStore,
     CreateVruntime, CreateLink, CreateHead, CreateCountLoad, CreateCountStore,
     CreateGrow, CreateSlot, CreateSlotLate, At
<1>2. IInv' /\ EvenInv'
  BY EvenCreate, NextIInv DEF Next
<1> SUFFICES ASSUME "create" \notin torn', NEW s \in Ready', NEW t \in Ready'
             PROVE  Within(vruntime'[s], vruntime'[t])
  BY DEF SpreadInv, Within
<1>3. s \in rq' /\ t \in rq' /\ rq' \subseteq Task /\ vruntime' \in [Thread -> Nat]
  BY <1>1, <1>2, TaskAssumption DEF Ready, IInv, TypeOK
<1>4. vruntime'[s] = minVruntime' /\ vruntime'[t] = minVruntime'
  BY <1>1, <1>2, <1>3 DEF EvenInv
<1>5. vruntime'[s] \in Nat /\ vruntime'[t] \in Nat /\ vruntime'[s] <= vruntime'[t]
  BY <1>3, <1>4 DEF Thread
<1> QED
  BY <1>3, <1>5, LevelIsWithin

LEMMA SpreadExit ==
  ASSUME SpreadInv, NEW t \in Task,
         \/ ExitZombie(t) \/ ExitSyscall(t)
         \/ /\ current = t /\ state[t] = "ZOMBIE"
            /\ \/ ExitUnlinkPrev(t) \/ ExitUnlinkNext(t) \/ ExitUnlinkHead(t)
               \/ ExitUncount(t) \/ ZeroSlice(t) \/ SleepReturn(t),
         IInv
  PROVE  SpreadInv'
<1>1. state \in [Thread -> States] /\ t \in Thread
  BY DEF IInv, TypeOK, Thread
<1>2. UNCHANGED <<vruntime, current, rq, torn>> /\ current = t
  BY DEF ExitZombie, ExitSyscall, ExitUnlinkPrev, ExitUnlinkNext, ExitUnlinkHead,
     ExitUncount, ZeroSlice, SleepReturn, tcb, At
<1>3. state'[t] = "ZOMBIE"
  BY <1>1 DEF ExitZombie, ExitSyscall, ExitUnlinkPrev, ExitUnlinkNext, ExitUnlinkHead,
     ExitUncount, ZeroSlice, SleepReturn, tcb
<1>4. Ready' \subseteq Ready
  BY <1>2, <1>3 DEF Ready
<1> QED
  BY <1>2, <1>4 DEF SpreadInv, Within

\* A task that is switched out was least when it came, and has been charged for
\* less than a slice and the tick that took it off the CPU.
LEMMA SpreadSwitch ==
  ASSUME TickLens # {}, IInv, EvenInv, SpreadInv, NEW d \in TickLens, Tick(d),
         ContextSwitch(now + d), current # Idle, pc[Idle] # "slot"
  PROVE  SpreadInv'
<1> SUFFICES ASSUME "create" \notin torn', NEW s \in Ready', NEW t \in Ready'
             PROVE  Within(vruntime'[s], vruntime'[t])
  BY DEF SpreadInv, Within
<1>1. /\ current' \in Requeued \cup {Idle} /\ rq' = Requeued \ {current'}
      /\ vruntime' \in [Thread -> Nat]
      /\ \A i \in Thread : i # current => vruntime'[i] = vruntime[i]
      /\ vruntime'[current] = vruntime[current]
            + (((now + d) - sliceStart) * Nice0) \div Weight[current]
      /\ "create" \notin torn
  BY SwitchFacts
<1>2. /\ rq \subseteq Task /\ Task \subseteq Thread /\ Idle \notin Task
      /\ vruntime \in [Thread -> Nat] /\ current \in Task
      /\ now \in Nat /\ sliceStart \in Nat /\ d \in Nat /\ sliceStart <= now
      /\ Slice \in Nat /\ Weight[current] \in Nat \ {0}
  BY TaskAssumption, NumberAssumption DEF IInv, TypeOK, Thread
<1>3. Requeued \subseteq Ready /\ s \in Requeued /\ t \in Requeued
  BY <1>1, <1>2, RequeuedType DEF Ready
<1>4. \A i \in Ready : i \in Task /\ i \in Thread
  BY <1>2 DEF Ready
<1>5. vruntime[s] \in Nat /\ vruntime[t] \in Nat /\ vruntime'[s] \in Nat /\ vruntime'[t] \in Nat
  BY <1>1, <1>2, <1>3, <1>4
<1>6. Within(vruntime[s], vruntime[t])
  BY <1>1, <1>3 DEF SpreadInv
<1> DEFINE e == (now + d) - sliceStart
           c == (e * Nice0) \div Weight[current]
<1>7. e \in Nat
  BY <1>2
<1>8. vruntime'[current] = vruntime[current] + c
  BY <1>1
<1> HIDE DEF e
<1>9. c \in Nat
  BY <1>2, <1>7, ChargeType
<1> HIDE DEF c
<1>10. CASE s = current /\ t = current
  BY <1>2, <1>5, <1>10, LevelIsWithin
<1>11. CASE s # current /\ t # current
  BY <1>1, <1>3, <1>4, <1>6, <1>11
<1>12. CASE s # current /\ t = current
  <2>1. vruntime'[s] - vruntime'[t] <= vruntime[s] - vruntime[t]
    BY <1>1, <1>3, <1>4, <1>5, <1>8, <1>9, <1>12
  <2>2. PICK b \in TickLens, u \in Task : vruntime[s] - vruntime[t] <= MaxCharge(b, Weight[u])
    BY <1>6 DEF Within
  <2>3. MaxCharge(b, Weight[u]) \in Nat
    <3>1. b \in Nat /\ Weight[u] \in Nat \ {0} /\ 0 <= Slice - 1 + b
      BY NumberAssumption
    <3> QED
      BY <3>1, ChargeBound
  <2>4. vruntime'[s] - vruntime'[t] <= MaxCharge(b, Weight[u])
    BY <1>5, <2>1, <2>2, <2>3
  <2> QED
    BY <2>4 DEF Within
<1>13. CASE s = current /\ t # current
  <2>1. state[current] = "RUNNING" /\ t \in rq
    BY <1>2, <1>3, <1>13, RequeuedType DEF IInv, Shape, CurrentApart
  <2>2. vruntime[s] <= vruntime[t] /\ now - sliceStart < Slice
    BY <1>1, <1>2, <1>13, <2>1, TaskAssumption DEF EvenInv
  <2>3. e <= Slice - 1 + d
    BY <1>2, <2>2 DEF e
  <2>4. c <= MaxCharge(d, Weight[current]) /\ MaxCharge(d, Weight[current]) \in Nat
    BY <1>2, <1>7, <2>3, ChargeBound DEF c
  <2>5. vruntime'[s] - vruntime'[t] <= c
    BY <1>1, <1>3, <1>4, <1>5, <1>8, <1>9, <1>13, <2>2
  <2>6. vruntime'[s] - vruntime'[t] <= MaxCharge(d, Weight[current])
    BY <1>5, <1>9, <2>4, <2>5
  <2> QED
    BY <1>2, <2>6 DEF Within
<1> QED
  BY <1>10, <1>11, <1>12, <1>13

\* A switch from the boot thread moves no key.
LEMMA SpreadFromBoot ==
  ASSUME IInv, SpreadInv, NEW d \in TickLens, Tick(d), ContextSwitch(now + d),
         current = Idle, pc[Idle] # "slot"
  PROVE  SpreadInv'
<1> SUFFICES ASSUME "create" \notin torn', NEW s \in Ready', NEW t \in Ready'
             PROVE  Within(vruntime'[s], vruntime'[t])
  BY DEF SpreadInv, Within
<1>1. /\ current' \in Requeued \cup {Idle} /\ rq' = Requeued \ {current'}
      /\ \A i \in Thread : i # current \/ i = Idle => vruntime'[i] = vruntime[i]
      /\ "create" \notin torn
  BY SwitchFacts
<1>2. Requeued = rq /\ rq \subseteq Task /\ Task \subseteq Thread /\ Idle \notin Task
  BY TaskAssumption DEF Requeued, IInv, TypeOK, Thread
<1>3. s \in rq /\ t \in rq
  BY <1>1, <1>2 DEF Ready
<1>4. Within(vruntime[s], vruntime[t])
  BY <1>1, <1>3 DEF SpreadInv, Ready
<1> QED
  BY <1>1, <1>2, <1>3, <1>4

LEMMA SpreadNext ==
  ASSUME Ops \subseteq {"exit"}, TickLens # {}, IInv, "queue" \notin torn => CalmInv,
         EvenInv, SpreadInv, TornInv', [Next]_vars
  PROVE  SpreadInv'
<1> SUFFICES ASSUME "create" \notin torn' PROVE SpreadInv'
  BY DEF SpreadInv
<1>0. CalmInv /\ \A d \in TickLens : Tick(d) => pc[Idle] # "slot"
  BY NoHole DEF TornInv
<1>1. ASSUME NEW d \in TickLens, Tick(d) PROVE SpreadInv'
  <2>1. CASE ContextSwitch(now + d)
    BY <1>0, <1>1, <2>1, SpreadSwitch, SpreadFromBoot
  <2>2. CASE UNCHANGED <<vruntime, rq, state, current, torn>>
    BY <2>2 DEF SpreadInv, Ready, Within
  <2> QED
    BY <1>0, <1>1, <2>1, <2>2 DEF Tick
<1>2. CASE Next
  BY <1>0, <1>1, <1>2, ExitOnly, SpreadCreate, SpreadExit
<1>3. CASE UNCHANGED vars
  BY <1>3 DEF vars, SpreadInv, Ready, Within
<1> QED
  BY <1>2, <1>3

\* The promise of CFS, kept for any weights and ticks until one cuts a creation:
\* none of the tasks that can run is ahead of another by more than one stay.
THEOREM CpuIsShared ==
  ASSUME Ops \subseteq {"exit"}, TickLens # {}, IsFiniteSet(Task), Cardinality(Task) <= Cap
  PROVE  Spec => []FairShare
<1>1. IInv /\ ("queue" \notin torn => CalmInv) /\ EvenInv /\ SpreadInv /\ TornInv'
        /\ [Next]_vars => SpreadInv'
  BY SpreadNext
<1>2. IInv /\ TornInv /\ ("queue" \notin torn => CalmInv) /\ NoLostTask /\ SpreadInv
        => FairShare
  BY RunnersReady DEF FairShare, SpreadInv, Within, TornInv
<1> QED
  BY <1>1, <1>2, SpreadInit, AlwaysIInv, AlwaysCalm, AlwaysEven, AlwaysTorn, NoTaskForgotten, PTL DEF Spec

-----------------------------------------------------------------------------
(* Task numbers                                                            *)

\* A thread with system calls is the last one the boot thread creates, so no
\* clone comes between its load and its store of next_tid.
UserLast ==
  /\ \A i \in DOMAIN todo : todo[i] \in User => i = Len(todo)
  /\ \A u \in User : pc[u] # "none" => todo = <<>>

NumberInv ==
  /\ tid[Idle] = 0 /\ nextTid >= 1
  /\ \A t \in Task : state[t] # "NONE" => tid[t] >= 1 /\ tid[t] < nextTid
  /\ \A s, t \in Task : s # t /\ state[s] # "NONE" /\ state[t] # "NONE" => tid[s] # tid[t]

LoadInv == pc[Idle] = "tid2" => reg = nextTid

TidInv == UserLast /\ NumberInv /\ LoadInv

LEMMA TidInit ==
  ASSUME \A i \in DOMAIN Boot : Boot[i] \in User => i = Len(Boot)
  PROVE  Init => TidInv
<1> SUFFICES ASSUME Init PROVE TidInv
  OBVIOUS
<1>1. Idle \in Thread /\ Task \subseteq Thread /\ Idle \notin Task /\ User \subseteq Task
  BY TaskAssumption DEF Thread
<1>2. UserLast
  BY <1>1 DEF Init, UserLast
<1>3. NumberInv
  BY <1>1 DEF Init, NumberInv
<1>4. LoadInv
  BY <1>1 DEF Init, LoadInv
<1> QED
  BY <1>2, <1>3, <1>4 DEF TidInv

\* Whatever is neither a creation nor a clone numbers and creates nothing.
LEMMA OthersKeep ==
  ASSUME IInv,
         \/ \E t \in Task : \/ ExitStep(t) \/ ExitSyscall(t) \/ Yield(t) \/ SleepMark(t)
                            \/ ZeroSlice(t) \/ SleepReturn(t) \/ Wake(t)
         \/ \E d \in TickLens : Tick(d)
         \/ UNCHANGED vars
  PROVE  /\ UNCHANGED <<tid, nextTid, todo, reg>> /\ pc'[Idle] \in {pc[Idle], "slotGone"}
         /\ \A t \in Task : /\ state'[t] # "NONE" => state[t] # "NONE"
                            /\ pc'[t] # "none" => pc[t] # "none"
<1>1. /\ state \in [Thread -> States] /\ pc \in [Thread -> Points] /\ Task \subseteq Thread
      /\ Idle \in Thread /\ Idle \notin Task /\ current \in Thread /\ rq \subseteq Task
  BY TaskAssumption DEF IInv, TypeOK, Thread
<1>2. current # Idle => state[current] # "NONE" /\ pc[current] # "none"
  BY DEF IInv, Shape, CurrentInv
<1>3. ASSUME NEW t \in Task,
             \/ ExitStep(t) \/ ExitSyscall(t) \/ Yield(t) \/ SleepMark(t)
             \/ ZeroSlice(t) \/ SleepReturn(t)
      PROVE  /\ UNCHANGED <<tid, nextTid, todo, reg>> /\ pc'[Idle] \in {pc[Idle], "slotGone"}
             /\ \A s \in Task : /\ state'[s] # "NONE" => state[s] # "NONE"
                                /\ pc'[s] # "none" => pc[s] # "none"
  <2>1. current = t /\ t # Idle
    BY <1>1, <1>3 DEF ExitStep, ExitZombie, ExitUnlinkPrev, ExitUnlinkNext, ExitUnlinkHead,
       ExitUncount, ExitSyscall, Yield, SleepMark, ZeroSlice, SleepReturn, At
  <2>2. UNCHANGED <<tid, nextTid, todo, reg>>
    BY <1>3 DEF ExitStep, ExitZombie, ExitUnlinkPrev, ExitUnlinkNext, ExitUnlinkHead,
       ExitUncount, ExitSyscall, Yield, SleepMark, ZeroSlice, SleepReturn, tcb, boot
  <2>3. \A s \in Thread : s # t => pc'[s] = pc[s] /\ state'[s] = state[s]
    BY <1>1, <1>3 DEF ExitStep, ExitZombie, ExitUnlinkPrev, ExitUnlinkNext, ExitUnlinkHead,
       ExitUncount, ExitSyscall, Yield, SleepMark, ZeroSlice, SleepReturn, tcb, Goto
  <2> QED
    BY <1>1, <1>2, <2>1, <2>2, <2>3
<1>4. ASSUME NEW t \in Task, Wake(t)
      PROVE  /\ UNCHANGED <<tid, nextTid, todo, reg, pc>>
             /\ \A s \in Task : state'[s] # "NONE" => state[s] # "NONE"
  BY <1>1, <1>4 DEF Wake, boot
<1>5. ASSUME NEW d \in TickLens, Tick(d)
      PROVE  /\ UNCHANGED <<tid, nextTid, todo, reg>> /\ pc'[Idle] \in {pc[Idle], "slotGone"}
             /\ \A s \in Task : /\ state'[s] # "NONE" => state[s] # "NONE"
                                /\ pc'[s] # "none" => pc[s] # "none"
  <2>1. UNCHANGED <<tid, nextTid, todo, reg>> /\ pc' = Resumed(pc)
    BY <1>5 DEF Tick, boot
  <2>2. \A s \in Thread : \/ pc'[s] = pc[s] \/ pc[s] = "doze"
                          \/ pc[s] = "slot" /\ pc'[s] = "slotGone"
    BY <1>1, <2>1, ResumedType
  <2>3. pc[Idle] # "doze" /\ \A s \in Task : pc[s] # "slot"
    BY DEF IInv, Shape, PcInv, InCreate
  <2>4. CASE UNCHANGED state
    BY <1>1, <2>1, <2>2, <2>3, <2>4
  <2>5. CASE ContextSwitch(now + d)
    <3>1. PICK next \in Requeued \cup {Idle} :
            state' = [IF state[current] = "RUNNING"
                        THEN [state EXCEPT ![current] = "RUNNABLE"] ELSE state
                      EXCEPT ![next] = "RUNNING"]
      BY <2>5 DEF ContextSwitch, Best
    <3>2. next \in Task => state[next] # "NONE"
      BY <1>1, <3>1, RequeuedType DEF IInv, Shape, PcInv
    <3>3. \A s \in Task : state'[s] # "NONE" => state[s] # "NONE"
      BY <1>1, <3>1, <3>2
    <3> QED
      BY <1>1, <2>1, <2>2, <2>3, <3>3
  <2>6. CASE SwitchOnHole(now + d) /\ ~UNCHANGED state
    <3>1. PICK left \in Leftover :
          \E next \in IF rq = {} THEN {left} ELSE Best(rq, vruntime) :
            state' = [state EXCEPT ![Idle] = "RUNNABLE", ![next] = "RUNNING"]
      BY <2>6 DEF SwitchOnHole
    <3>2. PICK next \in IF rq = {} THEN {left} ELSE Best(rq, vruntime) :
            state' = [state EXCEPT ![Idle] = "RUNNABLE", ![next] = "RUNNING"]
      BY <3>1
    <3>3. next \in rq \/ next \in Leftover
      BY <3>1, <3>2 DEF Best
    <3>4. next \in Task /\ state[next] # "NONE"
      BY <1>1, <3>3 DEF Leftover, IInv, Shape, PcInv
    <3>5. \A s \in Task : state'[s] # "NONE" => state[s] # "NONE"
      BY <1>1, <3>2, <3>4
    <3> QED
      BY <1>1, <2>1, <2>2, <2>3, <3>5
  <2> QED
    BY <1>5, <2>4, <2>5, <2>6 DEF Tick
<1>6. CASE UNCHANGED vars
  BY <1>6 DEF vars
<1> QED
  BY <1>3, <1>4, <1>5, <1>6

LEMMA EmptySeq ==
  ASSUME NEW S, NEW q \in Seq(S), Len(q) = 0
  PROVE  q = <<>>
  OBVIOUS

\* The thread the boot thread takes off todo is alone if it makes system calls.
LEMMA LastTail ==
  ASSUME todo \in Seq(Task), todo # <<>>, UserLast,
         NEW u \in User, u = New \/ pc[u] # "none"
  PROVE  Tail(todo) = <<>>
<1>1. u = New
  BY DEF UserLast
<1>2. 1 \in DOMAIN todo /\ todo[1] = New
  BY TodoTail
<1>3. Len(todo) = 1
  BY <1>1, <1>2 DEF UserLast
<1>4. Tail(todo) \in Seq(Task) /\ Len(Tail(todo)) = 0
  BY <1>3, TodoTail
<1> QED
  BY <1>4, EmptySeq

LEMMA TailLast ==
  ASSUME todo \in Seq(Task), todo # <<>>, UserLast
  PROVE  \A i \in DOMAIN Tail(todo) : Tail(todo)[i] \in User => i = Len(Tail(todo))
<1> SUFFICES ASSUME NEW i \in DOMAIN Tail(todo), Tail(todo)[i] \in User
             PROVE  i = Len(Tail(todo))
  OBVIOUS
<1>1. i \in Nat /\ i + 1 \in DOMAIN todo /\ Tail(todo)[i] = todo[i + 1]
  BY TodoTail
<1>2. i + 1 = Len(todo)
  BY <1>1 DEF UserLast
<1>3. Len(Tail(todo)) = Len(todo) - 1 /\ Len(todo) \in Nat
  OBVIOUS
<1> QED
  BY <1>1, <1>2, <1>3

LEMMA TidCreate ==
  ASSUME IInv, TidInv, CreateStep
  PROVE  TidInv'
<1>1. /\ pc \in [Thread -> Points] /\ state \in [Thread -> States] /\ tid \in [Thread -> Nat]
      /\ nextTid \in Nat /\ todo \in Seq(Task) /\ Task \subseteq Thread /\ User \subseteq Task
      /\ Idle \in Thread /\ Idle \notin Task
  BY TaskAssumption DEF IInv, TypeOK, Thread
<1>2. todo # <<>>
  BY DEF CreateStep, CreateAlloc, CreateTidLoad, CreateTidStore,
     CreateVruntime, CreateLink, CreateHead, CreateCountLoad, CreateCountStore,
     CreateGrow, CreateSlot, CreateSlotLate, At, InCreate, IInv, Shape, TodoInv
<1>3. New \in Task /\ New # Idle
  BY <1>1, <1>2, TodoTail
<1>4. UserLast'
  <2>1. /\ \/ todo' = todo /\ \A t \in Task : pc'[t] = pc[t]
           \/ todo' = Tail(todo)
        /\ \A t \in Task : t = New \/ pc'[t] = pc[t]
    BY <1>1, <1>3 DEF CreateStep, CreateAlloc, CreateTidLoad, CreateTidStore,
       CreateVruntime, CreateLink, CreateHead, CreateCountLoad, CreateCountStore,
       CreateGrow, CreateSlot, CreateSlotLate, Goto, boot
  <2>2. CASE todo' = todo /\ \A t \in Task : pc'[t] = pc[t]
    BY <1>1, <2>2 DEF TidInv, UserLast
  <2>3. CASE todo' = Tail(todo)
    <3>1. \A i \in DOMAIN todo' : todo'[i] \in User => i = Len(todo')
      BY <1>1, <1>2, <2>3, TailLast DEF TidInv
    <3>2. ASSUME NEW u \in User, pc'[u] # "none" PROVE todo' = <<>>
      BY <1>1, <1>2, <2>1, <2>3, <3>2, LastTail DEF TidInv
    <3> QED
      BY <3>1, <3>2 DEF UserLast
  <2> QED
    BY <2>1, <2>2, <2>3
<1>5. CASE CreateTidStore
  <2>1. reg = nextTid /\ tid' = [tid EXCEPT ![New] = nextTid] /\ nextTid' = nextTid + 1
        /\ state' = [state EXCEPT ![New] = "RUNNABLE"]
    BY <1>5 DEF CreateTidStore, At, TidInv, LoadInv
  <2>2. NumberInv'
    BY <1>1, <1>3, <2>1 DEF TidInv, NumberInv
  <2>3. LoadInv'
    BY <1>1, <1>5 DEF CreateTidStore, Goto, LoadInv
  <2> QED
    BY <1>4, <2>2, <2>3 DEF TidInv
<1>6. CASE CreateVruntime
  <2>1. /\ nextTid' = nextTid
        /\ \/ UNCHANGED <<state, tid>>
           \/ state' = [state EXCEPT ![New] = "NONE"] /\ tid' = [tid EXCEPT ![New] = 0]
    BY <1>6 DEF CreateVruntime
  <2>2. NumberInv'
    BY <1>1, <1>3, <2>1 DEF TidInv, NumberInv
  <2>3. LoadInv'
    BY <1>1, <1>6 DEF CreateVruntime, Goto, LoadInv
  <2> QED
    BY <1>4, <2>2, <2>3 DEF TidInv
<1>7. CASE CreateAlloc \/ CreateTidLoad \/ CreateLink \/ CreateHead \/ CreateCountLoad
           \/ CreateCountStore \/ CreateGrow \/ CreateSlot \/ CreateSlotLate
  <2>1. UNCHANGED <<state, tid, nextTid>>
    BY <1>7 DEF CreateAlloc, CreateTidLoad, CreateLink, CreateHead, CreateCountLoad,
       CreateCountStore, CreateGrow, CreateSlot, CreateSlotLate, tcb, boot
  <2>2. NumberInv'
    BY <2>1 DEF TidInv, NumberInv
  <2>3. CreateTidLoad => reg' = nextTid
    BY DEF CreateTidLoad
  <2>4. CreateTidLoad \/ pc'[Idle] # "tid2"
    BY <1>1, <1>3, <1>7 DEF CreateAlloc, CreateLink, CreateHead, CreateCountLoad,
       CreateCountStore, CreateGrow, CreateSlot, CreateSlotLate, At, Goto
  <2> QED
    BY <1>4, <2>1, <2>2, <2>3, <2>4 DEF TidInv, LoadInv
<1> QED
  BY <1>5, <1>6, <1>7 DEF CreateStep

\* A clone finds the boot thread done with its creations.
LEMMA TidClone ==
  ASSUME IInv, TidInv, NEW u \in Task, CloneFails(u) \/ \E t \in Task : Clone(u, t)
  PROVE  TidInv'
<1>1. /\ pc \in [Thread -> Points] /\ state \in [Thread -> States] /\ tid \in [Thread -> Nat]
      /\ nextTid \in Nat /\ Task \subseteq Thread /\ User \subseteq Task
      /\ Idle \in Thread /\ Idle \notin Task
  BY TaskAssumption DEF IInv, TypeOK, Thread
<1>2. todo = <<>>
  BY DEF Clone, CloneFails, At, TidInv, UserLast
<1>3. pc[Idle] = "run"
  BY <1>2 DEF IInv, Shape, TodoInv, PcInv
<1>4. ASSUME NEW t \in Task, Clone(u, t) PROVE TidInv'
  <2>1. /\ tid' = [tid EXCEPT ![t] = nextTid] /\ nextTid' = nextTid + 1 /\ todo' = todo
        /\ state' = [state EXCEPT ![t] = "RUNNABLE"] /\ pc' = [pc EXCEPT ![t] = "run"]
    BY <1>4 DEF Clone, Goto
  <2>2. NumberInv'
    BY <1>1, <2>1 DEF TidInv, NumberInv
  <2>3. UserLast' /\ LoadInv'
    BY <1>1, <1>2, <1>3, <2>1 DEF UserLast, LoadInv
  <2> QED
    BY <2>2, <2>3 DEF TidInv
<1>5. ASSUME CloneFails(u) PROVE TidInv'
  <2>1. UNCHANGED <<tid, state, todo, pc>> /\ nextTid' = nextTid + 1
    BY <1>5 DEF CloneFails, tcb
  <2>2. NumberInv'
    BY <1>1, <2>1 DEF TidInv, NumberInv
  <2>3. UserLast' /\ LoadInv'
    BY <1>2, <1>3, <2>1 DEF UserLast, LoadInv
  <2> QED
    BY <2>2, <2>3 DEF TidInv
<1> QED
  BY <1>4, <1>5

LEMMA TidNext == IInv /\ TidInv /\ [Next]_vars => TidInv'
<1> SUFFICES ASSUME IInv, TidInv, [Next]_vars PROVE TidInv'
  OBVIOUS
<1>1. ASSUME UNCHANGED <<tid, nextTid, todo, reg>>, pc'[Idle] \in {pc[Idle], "slotGone"},
             \A t \in Task : (state'[t] # "NONE" => state[t] # "NONE")
                             /\ (pc'[t] # "none" => pc[t] # "none")
      PROVE  TidInv'
  <2>1. UserLast'
    BY <1>1, TaskAssumption DEF TidInv, UserLast
  <2>2. NumberInv'
    BY <1>1 DEF TidInv, NumberInv
  <2>3. LoadInv'
    BY <1>1 DEF TidInv, LoadInv
  <2> QED
    BY <2>1, <2>2, <2>3 DEF TidInv
<1> QED
  BY <1>1, OthersKeep, TidCreate, TidClone DEF Next

-----------------------------------------------------------------------------
(* The list of all tasks                                                   *)

\* What has a place in the list, or is about to get one.  A number is given
\* out in the order of the list, so numbers show where in it a task belongs.
Chained == Linked \cup {Idle}

\* No live task belongs between x and the newer y.
NoneBetween(x, y) == \A t \in Live : ~(tid[x] < tid[t] /\ tid[t] < tid[y])

\* A link may skip what has exited, and be stale when that exits, but it leads
\* to the right side and skips nobody who is live.
Forward == \A x \in Chained : nextAll[x] # Null =>
  nextAll[x] \in Chained /\ tid[nextAll[x]] < tid[x] /\ NoneBetween(nextAll[x], x)

Backward == \A x \in Chained : prevAll[x] # Null =>
  prevAll[x] \in Chained /\ tid[x] < tid[prevAll[x]] /\ NoneBetween(x, prevAll[x])

HeadRight == allHead \in Chained /\ \A t \in Live : tid[t] <= tid[allHead]

\* A TCB that is not in the list is as it was allocated; the one the boot
\* thread fills in is the newest, and stays the first once it is.
FreshInv == \A t \in Task \ Linked : prevAll[t] = Null

NewestInv ==
  /\ pc[Idle] \in InCreate \ {"tid", "tid2"} => \A x \in Chained \ {New} : tid[x] < tid[New]
  /\ pc[Idle] = "head" => allHead # New
  /\ pc[Idle] \in {"count", "count2", "push", "slot"} => allHead = New

Exiting == {t \in Task : pc[t] \in InExit}
ExitInv == \A t \in Exiting : state[t] = "ZOMBIE"

ListInv == Forward /\ Backward /\ HeadRight /\ FreshInv /\ NewestInv /\ ExitInv

\* Until a switch cuts a section, task_count is read and written by one thread.
CountInv ==
  torn = {} =>
    /\ pc[Idle] \in InCreate => current = Idle
    /\ pc[Idle] = "count2" => reg = taskCount
    /\ taskCount = 1 + (Cardinality(Live) + Cardinality(Exiting))
                     + (IF pc[Idle] \in {"push", "slot"} THEN 1 ELSE 0)

LEMMA ChainTypes ==
  ASSUME IInv
  PROVE  /\ state \in [Thread -> States] /\ pc \in [Thread -> Points] /\ tid \in [Thread -> Nat]
         /\ nextAll \in [Thread -> Thread \cup {Null}] /\ prevAll \in [Thread -> Thread \cup {Null}]
         /\ todo \in Seq(Task) /\ current \in Thread /\ rq \subseteq Task /\ taskCount \in Int
         /\ Thread = Task \cup {Idle} /\ Idle \notin Task /\ Null \notin Thread
         /\ User \subseteq Task /\ Live \subseteq Task /\ Linked \subseteq Task
         /\ pc[Idle] \in InCreate \cup {"run"}
BY TaskAssumption DEF IInv, TypeOK, Thread, Live, Linked, Shape, PcInv

LEMMA ChainInit == Init => ListInv
<1> SUFFICES ASSUME Init PROVE ListInv
  OBVIOUS
<1>1. Linked = {} /\ Live = {} /\ Exiting = {} /\ pc[Idle] = "run"
  BY TaskAssumption DEF Init, Linked, Live, Exiting, Thread, InExit
<1>2. Idle \in Thread /\ nextAll = [t \in Thread |-> Null] /\ prevAll = [t \in Thread |-> Null]
      /\ allHead = Idle /\ Task \subseteq Thread
  BY DEF Init, Thread
<1> QED
  BY <1>1, <1>2 DEF ListInv, Forward, Backward, HeadRight, FreshInv, NewestInv, ExitInv,
     Chained, InCreate

LEMMA TallyInit == Init => CountInv
<1> SUFFICES ASSUME Init PROVE CountInv
  OBVIOUS
<1>1. Live = {} /\ Exiting = {} /\ pc[Idle] = "run" /\ taskCount = 1
  BY TaskAssumption DEF Init, Live, Exiting, Thread, InExit
<1> QED
  BY <1>1, FS_EmptySet DEF CountInv, InCreate

\* A step that leaves the list and the life of every task alone.
Unmoved ==
  /\ UNCHANGED <<nextAll, prevAll, allHead, taskCount, tid, todo, reg>>
  /\ pc'[Idle] = pc[Idle] /\ Live' = Live /\ Exiting' = Exiting /\ Linked' = Linked
  /\ \A t \in Exiting : state'[t] = state[t]
  /\ torn \subseteq torn'
  /\ torn' = {} /\ pc[Idle] \in InCreate => current' = current \/ current' = Idle

LEMMA UnmovedKeeps ==
  ASSUME Unmoved, ListInv
  PROVE  ListInv'
<1>1. Chained' = Chained
  BY DEF Unmoved, Chained
<1>2. \A x, y : NoneBetween(x, y)' <=> NoneBetween(x, y)
  BY DEF Unmoved, NoneBetween
<1>3. Forward' /\ Backward'
  BY <1>1, <1>2 DEF Unmoved, ListInv, Forward, Backward
<1>4. HeadRight' /\ FreshInv' /\ ExitInv'
  BY <1>1 DEF Unmoved, ListInv, HeadRight, FreshInv, ExitInv
<1>5. New' = New /\ NewestInv'
  BY <1>1 DEF Unmoved, ListInv, NewestInv, New
<1> QED
  BY <1>3, <1>4, <1>5 DEF ListInv

LEMMA UnmovedCounts ==
  ASSUME Unmoved, CountInv
  PROVE  CountInv'
<1> SUFFICES ASSUME torn' = {} PROVE CountInv'
  BY DEF CountInv
<1>1. torn = {}
  BY DEF Unmoved
<1>2. pc[Idle] \in InCreate => current' = Idle
  BY <1>1 DEF Unmoved, CountInv
<1> QED
  BY <1>1, <1>2 DEF Unmoved, CountInv

Alive == {"RUNNING", "RUNNABLE", "SLEEPING"}

\* Live, Exiting and Linked follow from the state and the point of each task.
LEMMA SameLives ==
  ASSUME IInv, UNCHANGED todo, pc'[Idle] = pc[Idle],
         \A t \in Task : /\ state'[t] \in Alive <=> state[t] \in Alive
                         /\ pc'[t] \in InExit <=> pc[t] \in InExit
                         /\ pc'[t] = "none" <=> pc[t] = "none"
  PROVE  Live' = Live /\ Exiting' = Exiting /\ Linked' = Linked
<1>1. UnderConstruction' = UnderConstruction
  BY DEF UnderConstruction, New
<1> QED
  BY <1>1 DEF Live, Exiting, Linked, Alive

LEMMA QuietUnmoved ==
  ASSUME IInv, ExitInv,
         NEW t \in Task, \/ Yield(t) \/ SleepMark(t) \/ ZeroSlice(t) \/ SleepReturn(t)
                         \/ CloneFails(t)
  PROVE  Unmoved
<1>1. /\ UNCHANGED <<nextAll, prevAll, allHead, taskCount, tid, todo, reg, torn, current>>
      /\ \/ pc' = pc /\ pc[t] = "run"
         \/ /\ pc[t] \in {"run", "slice", "lastSlice", "asleep"} /\ t # Idle
            /\ \E p \in {"doze", "slice", "hlt", "asleep", "run"} : pc' = [pc EXCEPT ![t] = p]
      /\ \/ state' = state
         \/ pc[t] = "run" /\ state' = [state EXCEPT ![t] = "SLEEPING"]
  BY ChainTypes DEF Yield, SleepMark, ZeroSlice, SleepReturn, CloneFails, links, tcb, boot, At, Goto
<1>2. pc[t] = "run" => state[t] \in Alive
  BY DEF IInv, Shape, PcInv, Alive
<1>3. /\ pc'[Idle] = pc[Idle]
      /\ \A s \in Task : /\ state'[s] \in Alive <=> state[s] \in Alive
                         /\ pc'[s] \in InExit <=> pc[s] \in InExit
                         /\ pc'[s] = "none" <=> pc[s] = "none"
  BY <1>1, <1>2, ChainTypes DEF Alive, InExit
<1>4. \A s \in Exiting : state'[s] = state[s]
  BY <1>1, ChainTypes DEF Exiting, InExit
<1> QED
  BY <1>1, <1>3, <1>4, SameLives DEF Unmoved

LEMMA WakeUnmoved ==
  ASSUME IInv, ExitInv, NEW t \in Task, Wake(t)
  PROVE  Unmoved
<1>1. /\ UNCHANGED <<nextAll, prevAll, allHead, taskCount, tid, todo, reg, torn, current, pc>>
      /\ state' = [state EXCEPT ![t] = "RUNNABLE"] /\ state[t] = "SLEEPING"
  BY DEF Wake, links, boot
<1>2. \A s \in Task : state'[s] \in Alive <=> state[s] \in Alive
  BY <1>1, ChainTypes DEF Alive
<1>3. \A s \in Exiting : state'[s] = state[s]
  BY <1>1, ChainTypes DEF Exiting, ExitInv
<1> QED
  BY <1>1, <1>2, <1>3, SameLives DEF Unmoved

LEMMA TickUnmoved ==
  ASSUME IInv, ExitInv, NEW d \in TickLens, Tick(d), pc[Idle] # "slot",
         "queue" \notin torn
  PROVE  Unmoved
<1>1. UNCHANGED <<nextAll, prevAll, allHead, taskCount, tid, todo, reg>> /\ pc' = Resumed(pc)
  BY DEF Tick, links, boot
<1>2. \A s \in Thread : pc'[s] = pc[s] \/ (pc[s] = "doze" /\ pc'[s] = "run")
  BY <1>1, ChainTypes DEF Resumed, IInv, Shape, PcInv, InCreate
<1>3. pc'[Idle] = pc[Idle] /\ \A s \in Task : /\ pc'[s] \in InExit <=> pc[s] \in InExit
                                              /\ pc'[s] = "none" <=> pc[s] = "none"
  BY <1>2, ChainTypes DEF InExit, InCreate
<1>4. CASE UNCHANGED <<state, current, torn>>
  BY <1>1, <1>3, <1>4, SameLives DEF Unmoved
<1>5. CASE ContextSwitch(now + d)
  <2>1. PICK next \in Requeued \cup {Idle} :
          /\ state' = [IF state[current] = "RUNNING"
                         THEN [state EXCEPT ![current] = "RUNNABLE"] ELSE state
                       EXCEPT ![next] = "RUNNING"]
          /\ current' = next /\ torn \subseteq torn'
          /\ next # Idle /\ pc[Idle] \in InCreate => "create" \in torn'
    BY <1>5 DEF ContextSwitch, Best
  <2>2. next \in Task => state[next] \in {"RUNNING", "RUNNABLE"}
    BY <2>1, RequeuedType, ChainTypes DEF Requeued, Pushed, IInv, Shape, CurrentApart
  <2>3. \A s \in Task : state'[s] \in Alive <=> state[s] \in Alive
    BY <2>1, <2>2, ChainTypes DEF Alive
  <2>4. \A s \in Exiting : state'[s] = state[s]
    BY <2>1, <2>2, ChainTypes DEF Exiting, ExitInv
  <2>5. torn' = {} /\ pc[Idle] \in InCreate => current' = Idle
    BY <2>1
  <2> QED
    BY <1>1, <1>3, <2>1, <2>3, <2>4, <2>5, SameLives DEF Unmoved
<1> QED
  BY <1>4, <1>5 DEF Tick

\* A task that has a program point is in the list and no longer built.
LEMMA StartedLinked ==
  ASSUME IInv, NEW t \in Task, pc[t] # "none"
  PROVE  t \in Linked /\ (todo # <<>> => t # New)
<1>1. t \in Linked
  BY DEF Linked
<1>2. todo # <<>> => pc[New] = "none"
  <2>1. todo # <<>> => 1 \in DOMAIN todo /\ New = todo[1]
    BY ChainTypes, TodoTail
  <2> QED
    BY <2>1 DEF IInv, Shape, TodoInv
<1> QED
  BY <1>1, <1>2

LEMMA StartedNotNew ==
  ASSUME IInv, NEW t \in Task, pc[t] # "none"
  PROVE  t \in Linked /\ t \notin UnderConstruction /\ (pc[Idle] \in InCreate => t # New)
BY StartedLinked DEF UnderConstruction, IInv, Shape, TodoInv

LEMMA ListTypes ==
  ASSUME IInv, TidInv, ListInv
  PROVE  /\ Chained \subseteq Thread /\ Idle \in Chained /\ allHead \in Chained
         /\ \A x \in Chained : tid[x] \in Nat /\ tid[x] < nextTid
         /\ \A x, y \in Chained : x # y => tid[x] # tid[y]
         /\ Live \subseteq Chained /\ nextTid \in Nat
<1>1. ASSUME NEW x \in Linked PROVE state[x] # "NONE"
  <2>1. CASE pc[x] # "none"
    BY <2>1, ChainTypes DEF IInv, Shape, PcInv
  <2>2. CASE pc[Idle] \in {"head", "count", "count2", "push", "slot", "slotGone"} /\ x = todo[1]
    <3>1. todo # <<>> /\ 1 \in DOMAIN todo
      BY <2>2, ChainTypes, TodoTail DEF IInv, Shape, TodoInv, InCreate
    <3> QED
      BY <2>2, <3>1 DEF IInv, Shape, TodoInv, Built, InCreate
  <2> QED
    BY <2>1, <2>2 DEF Linked
<1>2. Chained \subseteq Thread /\ Idle \in Chained /\ allHead \in Chained /\ nextTid \in Nat
  BY ChainTypes DEF Chained, ListInv, HeadRight, IInv, TypeOK
<1>3. \A x \in Chained : tid[x] \in Nat /\ tid[x] < nextTid
  BY <1>1, <1>2, ChainTypes DEF Chained, TidInv, NumberInv
<1>4. \A x, y \in Chained : x # y => tid[x] # tid[y]
  BY <1>1, <1>2, ChainTypes DEF Chained, TidInv, NumberInv
<1>5. ASSUME NEW t \in Live PROVE t \in Linked
  <2>1. t \in Task /\ state[t] # "NONE" /\ t \notin UnderConstruction
    BY <1>5 DEF Live
  <2>2. CASE pc[t] # "none"
    BY <2>1, <2>2 DEF Linked
  <2>3. CASE todo # <<>> /\ t = todo[1] /\ Built(1)
    <3>1. t = New
      BY <2>3, ChainTypes, TodoTail
    <3> QED
      BY <2>1, <2>3, <3>1 DEF UnderConstruction, Built
  <2> QED
    BY <2>1, <2>2, <2>3 DEF IInv, Shape, PcInv
<1> QED
  BY <1>2, <1>3, <1>4, <1>5 DEF Chained

\* The neighbours of a task that is not live have nobody between them.
LEMMA SkipsDead ==
  ASSUME IInv, TidInv, ListInv, NEW t \in Linked, t \notin Live', Live' \subseteq Live, tid' = tid
  PROVE  /\ nextAll[t] \in Chained /\ tid[nextAll[t]] < tid[t]
         /\ prevAll[t] # Null =>
              /\ prevAll[t] \in Chained /\ tid[nextAll[t]] < tid[prevAll[t]]
              /\ \A n, q : n = nextAll[t] /\ q = prevAll[t] => NoneBetween(n, q)'
         /\ (\A s \in Live : tid[s] <= tid[t]) => \A s \in Live' : tid[s] <= tid[nextAll[t]]
<1>1. t \in Chained /\ nextAll[t] # Null
  BY ChainTypes DEF Chained, IInv, LinkInv
<1>2. nextAll[t] \in Chained /\ tid[nextAll[t]] < tid[t] /\ NoneBetween(nextAll[t], t)
  BY <1>1 DEF ListInv, Forward
<1>3. \A s \in Live' : s \in Live /\ tid[s] # tid[t] /\ tid[s] \in Nat
  BY <1>1, ListTypes
<1>4. tid[t] \in Nat /\ tid[nextAll[t]] \in Nat
  BY <1>1, <1>2, ListTypes
<1>5. \A s \in Live' : tid[s] > tid[t] \/ tid[s] <= tid[nextAll[t]]
  BY <1>2, <1>3, <1>4 DEF NoneBetween
<1>6. ASSUME prevAll[t] # Null
      PROVE  /\ prevAll[t] \in Chained /\ tid[nextAll[t]] < tid[prevAll[t]]
             /\ \A n, q : n = nextAll[t] /\ q = prevAll[t] => NoneBetween(n, q)'
  <2>1. prevAll[t] \in Chained /\ tid[t] < tid[prevAll[t]] /\ NoneBetween(t, prevAll[t])
    BY <1>1, <1>6 DEF ListInv, Backward
  <2>2. tid[prevAll[t]] \in Nat
    BY <2>1, ListTypes
  <2>3. \A s \in Live' : ~(tid[nextAll[t]] < tid[s] /\ tid[s] < tid[prevAll[t]])
    BY <1>3, <1>4, <1>5, <2>1, <2>2 DEF NoneBetween
  <2>4. \A n, q : n = nextAll[t] /\ q = prevAll[t] => NoneBetween(n, q)'
    BY <2>3 DEF NoneBetween
  <2> QED
    BY <1>2, <1>4, <2>1, <2>2, <2>4
<1>7. ASSUME \A s \in Live : tid[s] <= tid[t]
      PROVE  \A s \in Live' : tid[s] <= tid[nextAll[t]]
  BY <1>3, <1>4, <1>5, <1>7
<1> QED
  BY <1>2, <1>6, <1>7

\* Any of the stores of sched_exit, alone or together.
LEMMA UnlinkKeeps ==
  ASSUME IInv, TidInv, ListInv, NEW t \in Task, pc[t] # "none",
         t \notin Live', Live' \subseteq Live, Linked' = Linked,
         UNCHANGED <<tid, todo>>, pc'[Idle] = pc[Idle], ExitInv',
         nextAll' \in {nextAll, SkipForward(nextAll, t)},
         prevAll' \in {prevAll, SkipBackward(prevAll, t)},
         allHead' \in {allHead, HeadWithout(t)}
  PROVE  ListInv'
<1>1. t \in Linked /\ (pc[Idle] \in InCreate => t # New)
  BY StartedNotNew
<1>2. Chained' = Chained /\ New' = New
  BY DEF Chained, New
<1>3. /\ nextAll[t] \in Chained /\ tid[nextAll[t]] < tid[t]
      /\ prevAll[t] # Null =>
           /\ prevAll[t] \in Chained /\ tid[nextAll[t]] < tid[prevAll[t]]
           /\ \A n, q : n = nextAll[t] /\ q = prevAll[t] => NoneBetween(n, q)'
      /\ (\A s \in Live : tid[s] <= tid[t]) => \A s \in Live' : tid[s] <= tid[nextAll[t]]
  BY <1>1, SkipsDead
<1>4. \A x, y : NoneBetween(x, y) => NoneBetween(x, y)'
  BY DEF NoneBetween
<1>5. \A x \in Chained : x \in Thread /\ x # Null
  BY ListTypes, ChainTypes
<1>6. Forward'
  <2> SUFFICES ASSUME NEW x \in Chained, nextAll'[x] # Null
               PROVE  /\ nextAll'[x] \in Chained /\ tid[nextAll'[x]] < tid[x]
                      /\ \A n : n = nextAll'[x] => NoneBetween(n, x)'
    BY <1>2 DEF Forward
  <2>1. CASE nextAll'[x] = nextAll[x]
    BY <1>4, <2>1 DEF ListInv, Forward
  <2>2. CASE prevAll[t] # Null /\ x = prevAll[t] /\ nextAll'[x] = nextAll[t]
    BY <1>3, <2>2
  <2>3. \/ nextAll'[x] = nextAll[x]
        \/ prevAll[t] # Null /\ x = prevAll[t] /\ nextAll'[x] = nextAll[t]
    BY <1>5, ChainTypes DEF SkipForward
  <2> QED
    BY <2>1, <2>2, <2>3
<1>7. Backward'
  <2> SUFFICES ASSUME NEW x \in Chained, prevAll'[x] # Null
               PROVE  /\ prevAll'[x] \in Chained /\ tid[x] < tid[prevAll'[x]]
                      /\ \A q : q = prevAll'[x] => NoneBetween(x, q)'
    BY <1>2 DEF Backward
  <2>1. CASE prevAll'[x] = prevAll[x]
    BY <1>4, <2>1 DEF ListInv, Backward
  <2>2. CASE x = nextAll[t] /\ prevAll'[x] = prevAll[t]
    BY <1>3, <2>2
  <2>3. prevAll'[x] = prevAll[x] \/ (x = nextAll[t] /\ prevAll'[x] = prevAll[t])
    BY <1>5, ChainTypes DEF SkipBackward
  <2> QED
    BY <2>1, <2>2, <2>3
<1>8. HeadRight'
  <2>1. allHead \in Chained /\ \A s \in Live : tid[s] <= tid[allHead]
    BY DEF ListInv, HeadRight
  <2>2. allHead' = allHead \/ (allHead = t /\ allHead' = nextAll[t])
    BY DEF HeadWithout
  <2> QED
    BY <1>2, <1>3, <2>1, <2>2 DEF HeadRight
<1>9. FreshInv'
  <2> SUFFICES ASSUME NEW s \in Task \ Linked PROVE prevAll'[s] = Null
    BY DEF FreshInv
  <2>1. prevAll[s] = Null /\ s # nextAll[t]
    BY <1>3, ChainTypes DEF ListInv, FreshInv, Chained
  <2> QED
    BY <2>1, ChainTypes DEF SkipBackward
<1>10. NewestInv'
  <2>1. allHead' = allHead \/ (allHead = t /\ allHead' = nextAll[t])
    BY DEF HeadWithout
  <2>2. pc[Idle] = "head" => nextAll[t] # New
    <3> SUFFICES ASSUME pc[Idle] = "head", nextAll[t] = New PROVE FALSE
      OBVIOUS
    <3>1. t \in Chained \ {New} /\ New \in Chained
      BY <1>1, <1>3 DEF Chained, InCreate
    <3>2. tid[t] < tid[New] /\ tid[New] < tid[t]
      BY <1>3, <3>1 DEF ListInv, NewestInv, InCreate
    <3> QED
      BY <3>1, <3>2, ListTypes
  <2> QED
    BY <1>1, <1>2, <2>1, <2>2 DEF ListInv, NewestInv, InCreate
<1> QED
  BY <1>6, <1>7, <1>8, <1>9, <1>10 DEF ListInv

\* What the state and the point of the one who exits become.
LEMMA ExitLives ==
  ASSUME IInv, ExitInv, NEW t \in Task, UNCHANGED todo, pc[t] # "none",
         NEW p \in Points \ {"none"}, pc' = [pc EXCEPT ![t] = p],
         state' = state \/ state' = [state EXCEPT ![t] = "ZOMBIE"],
         p \in InExit => state'[t] = "ZOMBIE"
  PROVE  /\ Live' = Live \ (IF state'[t] = "ZOMBIE" THEN {t} ELSE {})
         /\ Exiting' = IF p \in InExit THEN Exiting \cup {t} ELSE Exiting \ {t}
         /\ Linked' = Linked /\ ExitInv' /\ pc'[Idle] = pc[Idle]
<1>1. t # Idle /\ pc'[Idle] = pc[Idle]
  BY ChainTypes
<1>2. UnderConstruction' = UnderConstruction /\ t \notin UnderConstruction
  BY <1>1, StartedNotNew DEF UnderConstruction, New
<1>3. \A s \in Task : s # t => pc'[s] = pc[s] /\ state'[s] = state[s]
  BY ChainTypes
<1>4. pc'[t] = p /\ (state'[t] = state[t] \/ state'[t] = "ZOMBIE")
  BY ChainTypes
<1>5. Live' = Live \ (IF state'[t] = "ZOMBIE" THEN {t} ELSE {})
  BY <1>2, <1>3, <1>4 DEF Live
<1>6. Exiting' = IF p \in InExit THEN Exiting \cup {t} ELSE Exiting \ {t}
  BY <1>3, <1>4 DEF Exiting
<1>7. Linked' = Linked
  BY <1>1, <1>3, <1>4 DEF Linked
<1>8. ExitInv'
  BY <1>3, <1>6 DEF ExitInv, Exiting
<1> QED
  BY <1>1, <1>5, <1>6, <1>7, <1>8

LEMMA ExitKeeps ==
  ASSUME IInv, TidInv, ListInv, NEW t \in Task, ExitStep(t) \/ ExitSyscall(t)
  PROVE  ListInv'
<1> DEFINE Stores ==
             /\ nextAll' \in {nextAll, SkipForward(nextAll, t)}
             /\ prevAll' \in {prevAll, SkipBackward(prevAll, t)}
             /\ allHead' \in {allHead, HeadWithout(t)}
             /\ UNCHANGED <<tid, todo>>
<1>1. ExitInv
  BY DEF ListInv
<1>2. CASE ExitZombie(t)
  <2>1. /\ Stores /\ pc[t] = "run" /\ pc' = [pc EXCEPT ![t] = "unlinkPrev"]
        /\ state' = [state EXCEPT ![t] = "ZOMBIE"] /\ state'[t] = "ZOMBIE"
    BY <1>2, ChainTypes DEF ExitZombie, At, Goto, links, boot
  <2>2. /\ t \notin Live' /\ Live' \subseteq Live /\ Linked' = Linked /\ ExitInv'
        /\ pc'[Idle] = pc[Idle]
    BY <1>1, <2>1, ExitLives DEF Points, InExit
  <2> QED
    BY <2>1, <2>2, UnlinkKeeps
<1>3. CASE \/ ExitUnlinkPrev(t) \/ ExitUnlinkNext(t) \/ ExitUnlinkHead(t) \/ ExitUncount(t)
  <2>1. PICK p \in {"unlinkNext", "unlinkHead", "uncount", "lastSlice"} :
          Stores /\ pc[t] \in InExit /\ pc' = [pc EXCEPT ![t] = p] /\ state' = state
    BY <1>3 DEF ExitUnlinkPrev, ExitUnlinkNext, ExitUnlinkHead, ExitUncount, At, Goto,
       tcb, boot, InExit
  <2>2. state'[t] = "ZOMBIE" /\ pc[t] # "none" /\ p \in Points \ {"none"}
    BY <1>1, <2>1 DEF ExitInv, Exiting, InExit, Points
  <2>3. /\ t \notin Live' /\ Live' \subseteq Live /\ Linked' = Linked /\ ExitInv'
        /\ pc'[Idle] = pc[Idle]
    BY <1>1, <2>1, <2>2, ExitLives
  <2> QED
    BY <2>1, <2>2, <2>3, UnlinkKeeps
<1>4. CASE ExitSyscall(t)
  <2>1. /\ Stores /\ pc[t] = "run" /\ pc' = [pc EXCEPT ![t] = "hlt"]
        /\ state' = [state EXCEPT ![t] = "ZOMBIE"] /\ state'[t] = "ZOMBIE"
    BY <1>4, ChainTypes DEF ExitSyscall, At, Goto, boot
  <2>2. /\ t \notin Live' /\ Live' \subseteq Live /\ Linked' = Linked /\ ExitInv'
        /\ pc'[Idle] = pc[Idle]
    BY <1>1, <2>1, ExitLives DEF Points, InExit
  <2> QED
    BY <2>1, <2>2, UnlinkKeeps
<1> QED
  BY <1>2, <1>3, <1>4 DEF ExitStep

\* The arithmetic of a task that leaves one of the two sets that are counted.
LEMMA ExitCounts ==
  ASSUME IsFiniteSet(Task), IInv, ListInv, CountInv, NEW t \in Task,
         ExitStep(t) \/ ExitSyscall(t)
  PROVE  CountInv'
<1> SUFFICES ASSUME torn' = {} PROVE CountInv'
  BY DEF CountInv
<1>1. /\ ExitInv /\ IsFiniteSet(Live) /\ IsFiniteSet(Exiting)
      /\ Cardinality(Live) \in Nat /\ Cardinality(Exiting) \in Nat
  <2>1. Live \in SUBSET Task /\ Exiting \in SUBSET Task
    BY ChainTypes DEF Exiting
  <2> QED
    BY <2>1, FS_Subset, FS_CardinalityType DEF ListInv
<1>2. current = t /\ UNCHANGED <<current, torn, todo>> /\ t # Idle /\ torn = {}
  BY ChainTypes DEF ExitStep, ExitZombie, ExitUnlinkPrev, ExitUnlinkNext, ExitUnlinkHead,
     ExitUncount, ExitSyscall, At, boot
<1>3. pc[Idle] = "run"
  BY <1>2, ChainTypes DEF CountInv
<1>4. /\ taskCount \in Int
      /\ taskCount = 1 + (Cardinality(Live) + Cardinality(Exiting)) + 0
  BY <1>2, <1>3, ChainTypes DEF CountInv
<1>5. SUFFICES /\ pc'[Idle] = pc[Idle]
               /\ taskCount' = 1 + (Cardinality(Live') + Cardinality(Exiting')) + 0
  BY <1>3 DEF CountInv, InCreate
<1>6. pc[t] = "run" => t \in Live /\ t \notin Exiting
  BY StartedNotNew DEF Live, Exiting, InExit, IInv, Shape, PcInv
<1>7. CASE ExitZombie(t)
  <2>1. /\ pc[t] = "run" /\ pc' = [pc EXCEPT ![t] = "unlinkPrev"] /\ taskCount' = taskCount
        /\ state' = [state EXCEPT ![t] = "ZOMBIE"] /\ state'[t] = "ZOMBIE"
    BY <1>7, ChainTypes DEF ExitZombie, At, Goto, links
  <2>2. Live' = Live \ {t} /\ Exiting' = Exiting \cup {t} /\ pc'[Idle] = pc[Idle]
    BY <1>1, <1>2, <2>1, ExitLives DEF Points, InExit
  <2>3. /\ Cardinality(Live') = Cardinality(Live) - 1
        /\ Cardinality(Exiting') = Cardinality(Exiting) + 1
    BY <1>1, <1>6, <2>1, <2>2, FS_AddElement, FS_RemoveElement
  <2> QED
    BY <1>1, <1>4, <2>1, <2>2, <2>3
<1>8. CASE ExitUnlinkPrev(t) \/ ExitUnlinkNext(t) \/ ExitUnlinkHead(t)
  <2>1. PICK p \in {"unlinkNext", "unlinkHead", "uncount"} :
          /\ pc[t] \in InExit /\ pc' = [pc EXCEPT ![t] = p] /\ state' = state
          /\ taskCount' = taskCount
    BY <1>8 DEF ExitUnlinkPrev, ExitUnlinkNext, ExitUnlinkHead, At, Goto, tcb, InExit
  <2>2. /\ state'[t] = "ZOMBIE" /\ pc[t] # "none" /\ p \in Points \ {"none"}
        /\ p \in InExit /\ t \in Exiting /\ t \notin Live
    BY <1>1, <2>1 DEF ExitInv, Exiting, InExit, Points, Live
  <2>3. Live' = Live /\ Exiting' = Exiting /\ pc'[Idle] = pc[Idle]
    <3>1. Live' = Live \ {t} /\ Exiting' = Exiting \cup {t} /\ pc'[Idle] = pc[Idle]
      BY <1>1, <1>2, <2>1, <2>2, ExitLives
    <3> QED
      BY <2>2, <3>1
  <2> QED
    BY <1>4, <2>1, <2>3
<1>9. CASE ExitUncount(t)
  <2>1. /\ pc[t] \in InExit /\ pc' = [pc EXCEPT ![t] = "lastSlice"] /\ state' = state
        /\ taskCount' = taskCount - 1
    BY <1>9 DEF ExitUncount, At, Goto, tcb, InExit
  <2>2. state'[t] = "ZOMBIE" /\ pc[t] # "none" /\ t \in Exiting /\ t \notin Live
    BY <1>1, <2>1 DEF ExitInv, Exiting, InExit, Live
  <2>3. Live' = Live /\ Exiting' = Exiting \ {t} /\ pc'[Idle] = pc[Idle]
    <3>1. "lastSlice" \in Points \ {"none"} /\ "lastSlice" \notin InExit
      BY DEF Points, InExit
    <3>2. Live' = Live \ {t} /\ Exiting' = Exiting \ {t} /\ pc'[Idle] = pc[Idle]
      BY <1>1, <1>2, <2>1, <2>2, <3>1, ExitLives
    <3> QED
      BY <2>2, <3>2
  <2>4. Cardinality(Exiting') = Cardinality(Exiting) - 1
    BY <1>1, <2>2, <2>3, FS_RemoveElement
  <2> QED
    BY <1>1, <1>4, <2>1, <2>3, <2>4
<1>10. CASE ExitSyscall(t)
  <2>1. /\ pc[t] = "run" /\ pc' = [pc EXCEPT ![t] = "hlt"] /\ taskCount' = taskCount - 1
        /\ state' = [state EXCEPT ![t] = "ZOMBIE"] /\ state'[t] = "ZOMBIE"
    BY <1>10, ChainTypes DEF ExitSyscall, At, Goto
  <2>2. Live' = Live \ {t} /\ Exiting' = Exiting /\ pc'[Idle] = pc[Idle]
    <3>1. "hlt" \in Points \ {"none"} /\ "hlt" \notin InExit
      BY DEF Points, InExit
    <3>2. Live' = Live \ {t} /\ Exiting' = Exiting \ {t} /\ pc'[Idle] = pc[Idle]
      BY <1>1, <1>2, <2>1, <3>1, ExitLives
    <3> QED
      BY <1>6, <2>1, <3>2
  <2>3. Cardinality(Live') = Cardinality(Live) - 1
    BY <1>1, <1>6, <2>1, <2>2, FS_RemoveElement
  <2> QED
    BY <1>1, <1>4, <2>1, <2>2, <2>3
<1> QED
  BY <1>7, <1>8, <1>9, <1>10 DEF ExitStep

\* The thread the boot thread is creating, or is about to.
LEMMA NewRight ==
  ASSUME IInv, CreateStep
  PROVE  /\ todo # <<>> /\ New = todo[1] /\ New \in Task /\ pc[New] = "none"
         /\ current = Idle /\ UNCHANGED <<current, torn>>
         /\ state[New] = IF pc[Idle] \in InCreate \ {"tid", "tid2"} THEN "RUNNABLE" ELSE "NONE"
         /\ New \notin Live
         /\ New \in Linked <=> pc[Idle] \in {"head", "count", "count2", "push", "slot", "slotGone"}
<1>1. todo # <<>> /\ current = Idle /\ UNCHANGED <<current, torn>>
  BY DEF CreateStep, CreateAlloc, CreateTidLoad, CreateTidStore,
     CreateVruntime, CreateLink, CreateHead, CreateCountLoad, CreateCountStore,
     CreateGrow, CreateSlot, CreateSlotLate, At, InCreate, IInv, Shape, TodoInv
<1>2. 1 \in DOMAIN todo /\ New = todo[1] /\ New \in Task
  BY <1>1, ChainTypes, TodoTail
<1>3. pc[New] = "none"
      /\ state[New] = IF pc[Idle] \in InCreate \ {"tid", "tid2"} THEN "RUNNABLE" ELSE "NONE"
  BY <1>2 DEF IInv, Shape, TodoInv, Built
<1>4. New \notin Live
  BY <1>1, <1>3 DEF Live, UnderConstruction
<1>5. New \in Linked <=> pc[Idle] \in {"head", "count", "count2", "push", "slot", "slotGone"}
  BY <1>2, <1>3 DEF Linked
<1> QED
  BY <1>1, <1>2, <1>3, <1>4, <1>5

\* A step of a creation before the task is ready, or one that gives it up.
LEMMA BuildLives ==
  ASSUME IInv, ListInv, CreateStep, pc' = [pc EXCEPT ![Idle] = pc'[Idle]],
         pc'[Idle] \in InCreate \cup {"run"},
         \A t \in Task : t # New => state'[t] = state[t],
         IF pc'[Idle] \in InCreate THEN todo' = todo
                                   ELSE todo' = Tail(todo) /\ state'[New] = "NONE"
  PROVE  /\ Live' = Live /\ Exiting' = Exiting /\ ExitInv'
         /\ Linked' = IF pc'[Idle] \in {"head", "count", "count2", "push", "slot", "slotGone"}
                        THEN Linked \cup {New} ELSE Linked \ {New}
<1>1. /\ New \in Task /\ pc[New] = "none" /\ New \notin Live /\ New = todo[1] /\ todo # <<>>
      /\ UnderConstruction \subseteq {New}
  BY NewRight DEF UnderConstruction
<1>2. \A t \in Task : pc'[t] = pc[t]
  BY ChainTypes
<1>3. Exiting' = Exiting /\ ExitInv'
  <2>1. Exiting' = Exiting
    BY <1>2 DEF Exiting
  <2>2. \A t \in Exiting : t # New
    BY <1>1 DEF Exiting, InExit
  <2> QED
    BY <2>1, <2>2 DEF ListInv, ExitInv, Exiting
<1>4. \A t \in Linked : pc[t] # "none" \/ t = New
  BY <1>1 DEF Linked
<1>5. CASE pc'[Idle] \in InCreate
  <2>1. UnderConstruction' = {New}
    BY <1>1, <1>5 DEF UnderConstruction, New
  <2>2. Live' = Live
    BY <1>1, <2>1 DEF Live
  <2>3. Linked' = IF pc'[Idle] \in {"head", "count", "count2", "push", "slot", "slotGone"}
                    THEN Linked \cup {New} ELSE Linked \ {New}
    BY <1>1, <1>2, <1>4, <1>5 DEF Linked
  <2> QED
    BY <1>3, <2>2, <2>3
<1>6. CASE pc'[Idle] \notin InCreate
  <2>1. UnderConstruction' = {}
    BY <1>6 DEF UnderConstruction
  <2>2. Live' = Live
    BY <1>1, <1>6, <2>1 DEF Live
  <2>3. Linked' = Linked \ {New}
    BY <1>1, <1>2, <1>4, <1>6 DEF Linked, InCreate
  <2> QED
    BY <1>3, <1>6, <2>2, <2>3 DEF InCreate
<1> QED
  BY <1>5, <1>6

\* The last step of a creation.
LEMMA BornLives ==
  ASSUME IInv, ListInv, CreateStep, pc[Idle] \in {"push", "slot"},
         pc' = [pc EXCEPT ![Idle] = "run", ![New] = "run"],
         state' = state, todo' = Tail(todo)
  PROVE  /\ Live' = Live \cup {New} /\ Exiting' = Exiting /\ ExitInv'
         /\ Linked' = Linked /\ pc'[Idle] = "run"
<1>1. /\ New \in Task /\ pc[New] = "none" /\ New \notin Live /\ New = todo[1] /\ todo # <<>>
      /\ UnderConstruction = {New} /\ state[New] = "RUNNABLE" /\ New \in Linked
  BY NewRight DEF UnderConstruction, InCreate
<1>2. \A t \in Task : pc'[t] = IF t = New THEN "run" ELSE pc[t]
  BY <1>1, ChainTypes
<1>3. pc'[Idle] = "run"
  BY <1>1, ChainTypes
<1>4. UnderConstruction' = {}
  BY <1>3 DEF UnderConstruction, InCreate
<1>5. Live' = Live \cup {New}
  BY <1>1, <1>4 DEF Live
<1>6. Exiting' = Exiting
  <2>1. ASSUME NEW t \in Task PROVE pc'[t] \in InExit <=> pc[t] \in InExit
    <3>1. CASE t = New
      <4>1. pc[t] = "none" /\ pc'[t] = "run"
        BY <1>1, <1>2, <3>1
      <4> QED
        BY <4>1 DEF InExit
    <3>2. CASE t # New
      BY <1>2, <3>2
    <3> QED
      BY <3>1, <3>2
  <2> QED
    BY <2>1 DEF Exiting
<1>7. ExitInv'
  BY <1>6 DEF ListInv, ExitInv
<1>8. Linked' = Linked
  <2>1. Linked = {t \in Task : pc[t] # "none"} \cup {New}
    BY <1>1 DEF Linked
  <2>2. Linked' = {t \in Task : pc'[t] # "none"}
    BY <1>3 DEF Linked
  <2>3. ASSUME NEW t \in Task PROVE t \in Linked <=> t \in Linked'
    <3>1. CASE t = New
      <4>1. pc'[t] = "run"
        BY <1>2, <3>1
      <4>2. t \in Linked
        BY <1>1, <3>1
      <4> QED
        BY <2>2, <4>1, <4>2
    <3>2. CASE t # New
      <4>1. pc'[t] = pc[t]
        BY <1>2, <3>2
      <4> QED
        BY <2>1, <2>2, <3>2, <4>1
    <3> QED
      BY <3>1, <3>2
  <2>4. Linked \subseteq Task /\ Linked' \subseteq Task
    BY DEF Linked
  <2> QED
    BY <2>3, <2>4
<1> QED
  BY <1>3, <1>5, <1>6, <1>7, <1>8

\* A step that writes no link, and no number in the list.
LEMMA StillListed ==
  ASSUME IInv, TidInv, ListInv, UNCHANGED <<nextAll, prevAll, allHead>>,
         Live' = Live, Linked' = Linked, ExitInv', NewestInv',
         \A x \in Chained : tid'[x] = tid[x]
  PROVE  ListInv'
<1>1. Chained' = Chained /\ allHead \in Chained /\ Live \subseteq Chained
  BY ListTypes DEF Chained
<1>2. \A x, y \in Chained : NoneBetween(x, y) => NoneBetween(x, y)'
  BY <1>1 DEF NoneBetween
<1>3. Forward'
  BY <1>1, <1>2 DEF ListInv, Forward
<1>4. Backward'
  BY <1>1, <1>2 DEF ListInv, Backward
<1>5. HeadRight' /\ FreshInv'
  BY <1>1 DEF ListInv, HeadRight, FreshInv
<1> QED
  BY <1>3, <1>4, <1>5 DEF ListInv

\* The first store of the linking: the new task points to the list, which does
\* not point to it yet.
LEMMA LinkKeeps ==
  ASSUME IInv, TidInv, ListInv, CreateLink
  PROVE  ListInv'
<1>1. /\ pc[Idle] = "link" /\ pc' = [pc EXCEPT ![Idle] = "head"] /\ CreateStep
      /\ nextAll' = [nextAll EXCEPT ![New] = allHead]
      /\ UNCHANGED <<prevAll, allHead, tid, state, todo>> /\ New' = New
  BY DEF CreateLink, CreateStep, At, Goto, tcb, boot, New
<1>2. New \in Task \ Linked /\ New \notin Live
  BY <1>1, NewRight
<1>3. Live' = Live /\ ExitInv' /\ Linked' = Linked \cup {New} /\ pc'[Idle] = "head"
  BY <1>1, BuildLives, ChainTypes DEF InCreate
<1>4. Chained' = Chained \cup {New} /\ New \notin Chained
  BY <1>2, <1>3, ChainTypes DEF Chained
<1>5. /\ \A x \in Chained : tid[x] < tid[New]
      /\ allHead \in Chained /\ Chained \subseteq Thread
  BY <1>1, <1>4, ListTypes DEF ListInv, NewestInv, InCreate
<1>6. \A x, y : NoneBetween(x, y)' <=> NoneBetween(x, y)
  BY <1>1, <1>3 DEF NoneBetween
<1>7. nextAll'[New] = allHead /\ \A x \in Chained : nextAll'[x] = nextAll[x]
  BY <1>1, <1>2, <1>4, <1>5, ChainTypes
<1>8. prevAll[New] = Null
  BY <1>2 DEF ListInv, FreshInv
<1>9. Forward'
  <2>1. \A t \in Live : tid[t] \in Nat /\ tid[t] <= tid[allHead] /\ tid[allHead] \in Nat
    BY ListTypes DEF ListInv, HeadRight
  <2>2. \A h : h = allHead => NoneBetween(h, New)
    BY <2>1 DEF NoneBetween
  <2> SUFFICES ASSUME NEW x \in Chained \cup {New}, nextAll'[x] # Null
               PROVE  /\ nextAll'[x] \in Chained /\ tid[nextAll'[x]] < tid[x]
                      /\ \A n : n = nextAll'[x] => NoneBetween(n, x)
    BY <1>1, <1>4, <1>6 DEF Forward
  <2>3. CASE x = New
    BY <1>5, <1>7, <2>2, <2>3
  <2>4. CASE x \in Chained
    BY <1>7, <2>4 DEF ListInv, Forward
  <2> QED
    BY <2>3, <2>4
<1>10. Backward'
  BY <1>1, <1>4, <1>6, <1>8 DEF ListInv, Backward
<1>11. HeadRight' /\ FreshInv'
  BY <1>1, <1>3, <1>4 DEF ListInv, HeadRight, FreshInv
<1>12. NewestInv'
  BY <1>1, <1>3, <1>4, <1>5 DEF NewestInv, InCreate
<1> QED
  BY <1>3, <1>9, <1>10, <1>11, <1>12 DEF ListInv

\* The second: the list begins with the new task.
LEMMA HeadKeeps ==
  ASSUME IInv, TidInv, ListInv, CreateHead
  PROVE  ListInv'
<1>1. /\ pc[Idle] = "head" /\ pc' = [pc EXCEPT ![Idle] = "count"] /\ CreateStep
      /\ prevAll' = [prevAll EXCEPT ![allHead] = New] /\ allHead' = New
      /\ UNCHANGED <<nextAll, tid, state, todo>> /\ New' = New
  BY DEF CreateHead, CreateStep, At, Goto, tcb, boot, New
<1>2. New \in Linked /\ New \notin Live
  BY <1>1, NewRight
<1>3. Live' = Live /\ ExitInv' /\ Linked' = Linked /\ pc'[Idle] = "count"
  <2>1. Live' = Live /\ ExitInv' /\ Linked' = Linked \cup {New} /\ pc'[Idle] = "count"
    BY <1>1, BuildLives, ChainTypes DEF InCreate
  <2> QED
    BY <1>2, <2>1
<1>4. Chained' = Chained /\ New \in Chained
  BY <1>2, <1>3 DEF Chained
<1>5. /\ \A x \in Chained : x # New => tid[x] < tid[New]
      /\ allHead \in Chained /\ Chained \subseteq Thread /\ Live \subseteq Chained
      /\ \A x \in Chained : tid[x] \in Nat
  BY <1>1, ListTypes DEF ListInv, NewestInv, InCreate
<1>6. \A x, y : NoneBetween(x, y)' <=> NoneBetween(x, y)
  BY <1>1, <1>3 DEF NoneBetween
<1>7. allHead # New

  BY <1>1 DEF ListInv, NewestInv
<1>8. prevAll'[allHead] = New /\ \A x \in Chained \ {allHead} : prevAll'[x] = prevAll[x]
  BY <1>1, <1>5, ChainTypes
<1>9. \A t \in Live : tid[t] \in Nat /\ tid[t] <= tid[allHead] /\ tid[allHead] \in Nat
  BY <1>5 DEF ListInv, HeadRight
<1>10. Forward'
  BY <1>1, <1>4, <1>6 DEF ListInv, Forward
<1>11. Backward'
  <2> SUFFICES ASSUME NEW x \in Chained, prevAll'[x] # Null
               PROVE  /\ prevAll'[x] \in Chained /\ tid[x] < tid[prevAll'[x]]
                      /\ \A q : q = prevAll'[x] => NoneBetween(x, q)
    BY <1>1, <1>4, <1>6 DEF Backward
  <2>1. CASE x = allHead
    <3>1. NoneBetween(x, New)
      BY <1>9, <2>1 DEF NoneBetween
    <3> QED
      BY <1>4, <1>5, <1>7, <1>8, <2>1, <3>1
  <2>2. CASE x # allHead
    BY <1>8, <2>2 DEF ListInv, Backward
  <2> QED
    BY <2>1, <2>2
<1>12. HeadRight'
  <2>1. tid[allHead] < tid[New] /\ tid[New] \in Nat
    BY <1>4, <1>5, <1>7
  <2> QED
    BY <1>1, <1>3, <1>4, <1>9, <2>1 DEF HeadRight
<1>13. FreshInv'
  <2> SUFFICES ASSUME NEW s \in Task \ Linked PROVE prevAll'[s] = Null
    BY <1>3 DEF FreshInv
  <2>1. prevAll[s] = Null /\ s # allHead
    BY <1>5, ChainTypes DEF ListInv, FreshInv, Chained
  <2> QED
    BY <1>1, <2>1, ChainTypes
<1>14. NewestInv'
  BY <1>1, <1>3, <1>4, <1>5 DEF NewestInv, InCreate
<1> QED
  BY <1>3, <1>10, <1>11, <1>12, <1>13, <1>14 DEF ListInv

\* The last step of a creation makes the first in the list live.
LEMMA BornKeeps ==
  ASSUME IInv, TidInv, ListInv, CreateStep, pc[Idle] \in {"push", "slot"},
         UNCHANGED <<nextAll, prevAll, allHead, tid>>,
         Live' = Live \cup {New}, Linked' = Linked, ExitInv', pc'[Idle] = "run"
  PROVE  ListInv'
<1>1. Chained' = Chained /\ New \in Chained /\ allHead = New
  BY NewRight DEF Chained, ListInv, NewestInv
<1>2. /\ \A x \in Chained : tid[x] \in Nat /\ (x # New => tid[x] < tid[New])
  BY ListTypes DEF ListInv, NewestInv, InCreate
<1>3. \A x, y \in Chained : NoneBetween(x, y) => NoneBetween(x, y)'
  <2> SUFFICES ASSUME NEW x \in Chained, NEW y \in Chained, NoneBetween(x, y)
               PROVE  NoneBetween(x, y)'
    OBVIOUS
  <2>1. ~(tid[New] < tid[y])
    BY <1>1, <1>2
  <2> QED
    BY <2>1 DEF NoneBetween
<1>4. Forward'
  BY <1>1, <1>3 DEF ListInv, Forward
<1>5. Backward'
  BY <1>1, <1>3 DEF ListInv, Backward
<1>6. HeadRight'
  BY <1>1, <1>2 DEF ListInv, HeadRight
<1>7. FreshInv' /\ NewestInv'
  BY DEF ListInv, FreshInv, NewestInv, InCreate
<1> QED
  BY <1>4, <1>5, <1>6, <1>7 DEF ListInv

LEMMA CreateKeeps ==
  ASSUME IInv, TidInv, ListInv, CreateStep, ~CreateSlotLate
  PROVE  ListInv'
<1>1. /\ New \in Task /\ pc[New] = "none" /\ New \notin Live
      /\ New \in Linked <=> pc[Idle] \in {"head", "count", "count2", "push", "slot", "slotGone"}
      /\ state[New] = IF pc[Idle] \in InCreate \ {"tid", "tid2"} THEN "RUNNABLE" ELSE "NONE"
  BY NewRight
<1>2. CASE CreateAlloc
  <2>1. /\ UNCHANGED <<nextAll, prevAll, allHead, tid, state>> /\ pc[Idle] = "run"
        /\ pc' = [pc EXCEPT ![Idle] = pc'[Idle]]
        /\ \/ pc'[Idle] = "tid" /\ todo' = todo
           \/ pc'[Idle] = "run" /\ todo' = Tail(todo)
    BY <1>2, ChainTypes DEF CreateAlloc, At, Goto, links, tcb
  <2>2. Live' = Live /\ ExitInv' /\ Linked' = Linked
    BY <1>1, <2>1, BuildLives DEF InCreate
  <2>3. NewestInv'
    BY <2>1 DEF NewestInv, InCreate
  <2> QED
    BY <2>1, <2>2, <2>3, StillListed
<1>3. CASE CreateTidLoad
  <2>1. /\ UNCHANGED <<nextAll, prevAll, allHead, tid, state, todo>> /\ pc[Idle] = "tid"
        /\ pc' = [pc EXCEPT ![Idle] = pc'[Idle]] /\ pc'[Idle] = "tid2"
    BY <1>3, ChainTypes DEF CreateTidLoad, At, Goto, links, tcb
  <2>2. Live' = Live /\ ExitInv' /\ Linked' = Linked
    BY <1>1, <2>1, BuildLives DEF InCreate
  <2>3. NewestInv'
    BY <2>1 DEF NewestInv, InCreate
  <2> QED
    BY <2>1, <2>2, <2>3, StillListed
<1>4. CASE CreateTidStore
  <2>1. /\ UNCHANGED <<nextAll, prevAll, allHead, todo>> /\ pc[Idle] = "tid2" /\ New' = New
        /\ pc' = [pc EXCEPT ![Idle] = pc'[Idle]] /\ pc'[Idle] = "vruntime"
        /\ tid' = [tid EXCEPT ![New] = nextTid]
        /\ state' = [state EXCEPT ![New] = "RUNNABLE"]
    BY <1>4, ChainTypes DEF CreateTidStore, At, Goto, links, New, TidInv, LoadInv
  <2>2. Live' = Live /\ ExitInv' /\ Linked' = Linked
    <3>1. \A t \in Task : t # New => state'[t] = state[t]
      BY <2>1, ChainTypes
    <3>2. Live' = Live /\ ExitInv' /\ Linked' = Linked \ {New}
      BY <2>1, <3>1, BuildLives DEF InCreate
    <3> QED
      BY <1>1, <2>1, <3>2
  <2>3. New \notin Chained /\ Chained' = Chained
    BY <1>1, <2>1, <2>2, ChainTypes DEF Chained
  <2>4. \A x \in Chained : tid'[x] = tid[x] /\ tid[x] < tid'[New]
    BY <1>1, <2>1, <2>3, ListTypes, ChainTypes
  <2>5. NewestInv'
    BY <2>1, <2>3, <2>4 DEF NewestInv, InCreate
  <2> QED
    BY <2>1, <2>2, <2>4, <2>5, StillListed
<1>5. CASE CreateVruntime
  <2>1. /\ UNCHANGED <<nextAll, prevAll, allHead>> /\ pc[Idle] = "vruntime"
        /\ pc' = [pc EXCEPT ![Idle] = pc'[Idle]]
        /\ \/ pc'[Idle] = "link" /\ UNCHANGED <<todo, tid, state>>
           \/ /\ pc'[Idle] = "run" /\ todo' = Tail(todo)
              /\ state' = [state EXCEPT ![New] = "NONE"] /\ tid' = [tid EXCEPT ![New] = 0]
    BY <1>5, ChainTypes DEF CreateVruntime, At, Goto, links
  <2>2. Live' = Live /\ ExitInv' /\ Linked' = Linked
    <3>1. /\ \A t \in Task : t # New => state'[t] = state[t]
          /\ pc'[Idle] = "run" => state'[New] = "NONE"
      BY <1>1, <2>1, ChainTypes
    <3>2. IF pc'[Idle] \in InCreate THEN todo' = todo
                                    ELSE todo' = Tail(todo) /\ state'[New] = "NONE"
      BY <2>1, <3>1 DEF InCreate
    <3>3. Live' = Live /\ ExitInv' /\ Linked' = Linked \ {New}
      BY <2>1, <3>1, <3>2, BuildLives DEF InCreate
    <3> QED
      BY <1>1, <2>1, <3>3
  <2>3. New \notin Chained /\ Chained' = Chained
    BY <1>1, <2>1, <2>2, ChainTypes DEF Chained
  <2>4. \A x \in Chained : tid'[x] = tid[x]
    BY <1>1, <2>1, <2>3, ListTypes, ChainTypes
  <2>5. NewestInv'
    <3>1. CASE pc'[Idle] = "link" /\ UNCHANGED <<todo, tid, state>>
      BY <2>1, <2>3, <3>1 DEF ListInv, NewestInv, InCreate, New
    <3>2. CASE pc'[Idle] = "run"
      BY <3>2 DEF NewestInv, InCreate
    <3> QED
      BY <2>1, <3>1, <3>2
  <2> QED
    BY <2>1, <2>2, <2>4, <2>5, StillListed
<1>6. CASE CreateCountLoad \/ CreateCountStore
  <2>1. /\ UNCHANGED <<nextAll, prevAll, allHead, tid, state, todo>>
        /\ pc[Idle] \in {"count", "count2"} /\ New' = New
        /\ pc' = [pc EXCEPT ![Idle] = pc'[Idle]] /\ pc'[Idle] \in {"count2", "push"}
    BY <1>6, ChainTypes DEF CreateCountLoad, CreateCountStore, At, Goto, links, tcb, boot, New
  <2>2. Live' = Live /\ ExitInv' /\ Linked' = Linked
    BY <1>1, <2>1, BuildLives DEF InCreate
  <2>3. NewestInv'
    BY <2>1, <2>2 DEF ListInv, NewestInv, InCreate, Chained
  <2> QED
    BY <2>1, <2>2, <2>3, StillListed
<1>7. CASE CreateGrow \/ CreateSlot
  <2>1. /\ UNCHANGED <<nextAll, prevAll, allHead, tid, state>>
        /\ pc[Idle] \in {"push", "slot"}
        /\ \/ /\ pc' = [pc EXCEPT ![Idle] = "slot"] /\ todo' = todo
           \/ /\ pc' = [pc EXCEPT ![Idle] = "run", ![New] = "run"] /\ todo' = Tail(todo)
    BY <1>7 DEF CreateGrow, CreateSlot, At, Goto, links, tcb
  <2>2. CASE pc' = [pc EXCEPT ![Idle] = "slot"] /\ todo' = todo
    <3>1. pc'[Idle] = "slot" /\ New' = New
      BY <2>2, ChainTypes DEF New
    <3>2. Live' = Live /\ ExitInv' /\ Linked' = Linked
      BY <1>1, <2>1, <2>2, <3>1, BuildLives DEF InCreate
    <3>3. NewestInv'
      BY <2>1, <3>1, <3>2 DEF ListInv, NewestInv, InCreate, Chained
    <3> QED
      BY <2>1, <3>2, <3>3, StillListed
  <2>3. CASE /\ pc' = [pc EXCEPT ![Idle] = "run", ![New] = "run"] /\ todo' = Tail(todo)
    BY <2>1, <2>3, BornLives, BornKeeps
  <2> QED
    BY <2>1, <2>2, <2>3
<1> QED
  BY <1>2, <1>3, <1>4, <1>5, <1>6, <1>7, LinkKeeps, HeadKeeps DEF CreateStep

LEMMA CreateCounts ==
  ASSUME IsFiniteSet(Task), IInv, ListInv, CountInv, CreateStep, ~CreateSlotLate
  PROVE  CountInv'
<1> SUFFICES ASSUME torn' = {} PROVE CountInv'
  BY DEF CountInv
<1>1. /\ New \in Task /\ pc[New] = "none" /\ New \notin Live
      /\ current = Idle /\ current' = Idle /\ torn = {}
      /\ state[New] = IF pc[Idle] \in InCreate \ {"tid", "tid2"} THEN "RUNNABLE" ELSE "NONE"
  BY NewRight
<1>2. IsFiniteSet(Live) /\ Cardinality(Live) \in Nat /\ Cardinality(Exiting) \in Nat
  <2>1. Live \in SUBSET Task /\ Exiting \in SUBSET Task
    BY ChainTypes DEF Exiting
  <2> QED
    BY <2>1, FS_Subset, FS_CardinalityType
<1>3. /\ pc[Idle] = "count2" => reg = taskCount
      /\ taskCount = 1 + (Cardinality(Live) + Cardinality(Exiting))
                       + (IF pc[Idle] \in {"push", "slot"} THEN 1 ELSE 0)
  BY <1>1 DEF CountInv
<1>4. CASE CreateAlloc \/ CreateTidLoad \/ CreateTidStore \/ CreateVruntime \/ CreateLink
           \/ CreateHead \/ CreateCountLoad
  <2>1. /\ pc[Idle] \notin {"push", "slot"} /\ taskCount' = taskCount
        /\ pc' = [pc EXCEPT ![Idle] = pc'[Idle]]
        /\ pc'[Idle] \in {"run", "tid", "tid2", "vruntime", "link", "head", "count", "count2"}
        /\ pc'[Idle] = "count2" => reg' = taskCount
        /\ \/ pc'[Idle] # "run" /\ todo' = todo
           \/ pc'[Idle] = "run" /\ todo' = Tail(todo)
    BY <1>4, ChainTypes DEF CreateAlloc, CreateTidLoad, CreateTidStore, CreateVruntime,
       CreateLink, CreateHead, CreateCountLoad, At, Goto, links, boot
  <2>2. \/ state' = state /\ (pc'[Idle] = "run" => pc[Idle] = "run")
        \/ pc'[Idle] = "vruntime" /\ state' = [state EXCEPT ![New] = "RUNNABLE"]
        \/ pc'[Idle] = "run" /\ state' = [state EXCEPT ![New] = "NONE"]
    BY <1>4, ChainTypes DEF CreateAlloc, CreateTidLoad, CreateTidStore, CreateVruntime,
       CreateLink, CreateHead, CreateCountLoad, At, Goto, tcb
  <2>3. /\ \A t \in Task : t # New => state'[t] = state[t]
        /\ pc'[Idle] = "run" => state'[New] = "NONE"
    BY <1>1, <2>2, ChainTypes DEF InCreate
  <2>4. IF pc'[Idle] \in InCreate THEN todo' = todo
                                  ELSE todo' = Tail(todo) /\ state'[New] = "NONE"
    BY <2>1, <2>3 DEF InCreate
  <2>5. pc'[Idle] \in InCreate \cup {"run"}
    BY <2>1 DEF InCreate
  <2>6. Live' = Live /\ Exiting' = Exiting
    BY <2>1, <2>3, <2>4, <2>5, BuildLives
  <2>7. taskCount' = 1 + (Cardinality(Live') + Cardinality(Exiting')) + 0
    BY <1>3, <2>1, <2>6
  <2> QED
    BY <1>1, <2>1, <2>7 DEF CountInv
<1>5. CASE CreateCountStore
  <2>1. /\ pc[Idle] = "count2" /\ taskCount' = reg + 1
        /\ pc' = [pc EXCEPT ![Idle] = pc'[Idle]] /\ pc'[Idle] = "push"
        /\ state' = state /\ todo' = todo
    BY <1>5, ChainTypes DEF CreateCountStore, At, Goto, tcb, boot
  <2>2. Live' = Live /\ Exiting' = Exiting
    BY <2>1, BuildLives DEF InCreate
  <2>3. taskCount' = 1 + (Cardinality(Live') + Cardinality(Exiting')) + 1
    BY <1>2, <1>3, <2>1, <2>2
  <2> QED
    BY <1>1, <2>1, <2>3 DEF CountInv
<1>6. CASE CreateGrow \/ CreateSlot
  <2>1. /\ UNCHANGED <<taskCount, state>> /\ pc[Idle] \in {"push", "slot"}
        /\ \/ pc' = [pc EXCEPT ![Idle] = "slot"] /\ todo' = todo
           \/ pc' = [pc EXCEPT ![Idle] = "run", ![New] = "run"] /\ todo' = Tail(todo)
    BY <1>6 DEF CreateGrow, CreateSlot, At, Goto, links, tcb
  <2>2. CASE pc' = [pc EXCEPT ![Idle] = "slot"] /\ todo' = todo
    <3>1. pc'[Idle] = "slot"
      BY <2>2, ChainTypes
    <3>2. Live' = Live /\ Exiting' = Exiting
      BY <2>1, <2>2, <3>1, BuildLives DEF InCreate
    <3>3. taskCount' = 1 + (Cardinality(Live') + Cardinality(Exiting')) + 1
      BY <1>3, <2>1, <3>2
    <3> QED
      BY <1>1, <3>1, <3>3 DEF CountInv
  <2>3. CASE pc' = [pc EXCEPT ![Idle] = "run", ![New] = "run"] /\ todo' = Tail(todo)
    <3>1. Live' = Live \cup {New} /\ Exiting' = Exiting /\ pc'[Idle] = "run"
      BY <2>1, <2>3, BornLives
    <3>2. Cardinality(Live') = Cardinality(Live) + 1
      BY <1>1, <1>2, <3>1, FS_AddElement
    <3>3. taskCount' = 1 + (Cardinality(Live') + Cardinality(Exiting')) + 0
      BY <1>2, <1>3, <2>1, <3>1, <3>2
    <3> QED
      BY <3>1, <3>3 DEF CountInv, InCreate
  <2> QED
    BY <2>1, <2>2, <2>3
<1> QED
  BY <1>4, <1>5, <1>6 DEF CreateStep

\* A clone finds the boot thread done, and is the newest task.
LEMMA CloneLives ==
  ASSUME IInv, TidInv, ListInv, NEW u \in Task, NEW t \in Task, Clone(u, t)
  PROVE  /\ todo = <<>> /\ todo' = <<>> /\ pc[Idle] = "run" /\ pc'[Idle] = "run"
         /\ t \notin Live /\ t \notin Linked /\ tid'[t] = nextTid
         /\ \A x \in Chained : tid'[x] = tid[x]
         /\ Live' = Live \cup {t} /\ Linked' = Linked \cup {t} /\ Exiting' = Exiting /\ ExitInv'
<1>1. /\ todo = <<>> /\ todo' = todo /\ pc[t] = "none" /\ pc' = [pc EXCEPT ![t] = "run"]
      /\ state' = [state EXCEPT ![t] = "RUNNABLE"] /\ tid' = [tid EXCEPT ![t] = nextTid]
  BY DEF Clone, At, Goto, TidInv, UserLast
<1>2. pc[Idle] = "run" /\ state[t] = "NONE"
  BY <1>1 DEF IInv, Shape, TodoInv, PcInv
<1>3. pc'[Idle] = "run" /\ UnderConstruction = {} /\ UnderConstruction' = {}
  BY <1>1, <1>2, ChainTypes DEF UnderConstruction
<1>4. t \notin Live /\ Live' = Live \cup {t}
  BY <1>1, <1>2, <1>3, ChainTypes DEF Live
<1>5. t \notin Linked /\ Linked' = Linked \cup {t}
  <2>1. Linked = {s \in Task : pc[s] # "none"} /\ Linked' = {s \in Task : pc'[s] # "none"}
    BY <1>2, <1>3 DEF Linked
  <2> QED
    BY <1>1, <2>1, ChainTypes
<1>6. Exiting' = Exiting /\ t \notin Exiting
  BY <1>1, ChainTypes DEF Exiting, InExit
<1>7. ExitInv'
  BY <1>1, <1>6, ChainTypes DEF ListInv, ExitInv, Exiting
<1>8. \A x \in Chained : tid'[x] = tid[x]
  BY <1>1, <1>5, ChainTypes, ListTypes DEF Chained
<1>9. tid'[t] = nextTid
  BY <1>1, ChainTypes
<1> QED
  BY <1>1, <1>2, <1>3, <1>4, <1>5, <1>6, <1>7, <1>8, <1>9

LEMMA CloneKeeps ==
  ASSUME IInv, TidInv, ListInv, NEW u \in Task, NEW t \in Task, Clone(u, t)
  PROVE  ListInv'
<1>1. /\ nextAll' = [nextAll EXCEPT ![t] = allHead]
      /\ prevAll' = [prevAll EXCEPT ![allHead] = t] /\ allHead' = t
  BY DEF Clone
<1>2. /\ pc'[Idle] = "run" /\ t \notin Linked /\ tid'[t] = nextTid
      /\ \A x \in Chained : tid'[x] = tid[x]
      /\ Live' = Live \cup {t} /\ Linked' = Linked \cup {t} /\ ExitInv'
  BY CloneLives
<1>3. Chained' = Chained \cup {t} /\ t \notin Chained
  BY <1>2, ChainTypes DEF Chained
<1>4. /\ Chained \subseteq Thread /\ allHead \in Chained /\ Live \subseteq Chained
      /\ \A x \in Chained : tid[x] \in Nat /\ tid'[x] = tid[x] /\ tid[x] < tid'[t]
      /\ nextTid \in Nat
  BY <1>2, ListTypes
<1>5. \A x, y \in Chained : NoneBetween(x, y) => NoneBetween(x, y)'
  <2> SUFFICES ASSUME NEW x \in Chained, NEW y \in Chained, NoneBetween(x, y)
               PROVE  NoneBetween(x, y)'
    OBVIOUS
  <2>1. ~(tid'[t] < tid'[y])
    BY <1>2, <1>4
  <2> QED
    BY <1>2, <1>4, <2>1 DEF NoneBetween
<1>6. \A x \in Chained : x = allHead => NoneBetween(x, t)'
  <2> SUFFICES ASSUME NEW x \in Chained, x = allHead, NEW s \in Live'
               PROVE  ~(tid'[x] < tid'[s] /\ tid'[s] < tid'[t])
    BY DEF NoneBetween
  <2>1. CASE s = t
    BY <1>2, <1>4, <2>1
  <2>2. CASE s \in Live
    <3>1. tid[s] <= tid[x]
      BY <2>2 DEF ListInv, HeadRight
    <3> QED
      BY <1>4, <2>2, <3>1
  <2> QED
    BY <1>2, <2>1, <2>2
<1>7. /\ nextAll'[t] = allHead /\ prevAll'[t] = Null /\ prevAll'[allHead] = t
      /\ \A x \in Chained : nextAll'[x] = nextAll[x] /\ (x # allHead => prevAll'[x] = prevAll[x])
  <2>1. prevAll[t] = Null
    BY <1>2 DEF ListInv, FreshInv
  <2> QED
    BY <1>1, <1>3, <1>4, <2>1, ChainTypes
<1>8. Forward'
  <2> SUFFICES ASSUME NEW x \in Chained \cup {t}, nextAll'[x] # Null
               PROVE  /\ nextAll'[x] \in Chained \cup {t} /\ tid'[nextAll'[x]] < tid'[x]
                      /\ \A n : n = nextAll'[x] => NoneBetween(n, x)'
    BY <1>3 DEF Forward
  <2>1. CASE x = t
    BY <1>4, <1>6, <1>7, <2>1
  <2>2. CASE x \in Chained
    <3>1. nextAll'[x] = nextAll[x] /\ nextAll[x] \in Chained /\ tid[nextAll[x]] < tid[x]
          /\ NoneBetween(nextAll[x], x)
      BY <1>7, <2>2 DEF ListInv, Forward
    <3> QED
      BY <1>4, <1>5, <2>2, <3>1
  <2> QED
    BY <2>1, <2>2
<1>9. Backward'
  <2> SUFFICES ASSUME NEW x \in Chained \cup {t}, prevAll'[x] # Null
               PROVE  /\ prevAll'[x] \in Chained \cup {t} /\ tid'[x] < tid'[prevAll'[x]]
                      /\ \A q : q = prevAll'[x] => NoneBetween(x, q)'
    BY <1>3 DEF Backward
  <2>1. CASE x = allHead
    BY <1>4, <1>6, <1>7, <2>1
  <2>2. CASE x \in Chained /\ x # allHead
    <3>1. prevAll'[x] = prevAll[x] /\ prevAll[x] \in Chained /\ tid[x] < tid[prevAll[x]]
          /\ NoneBetween(x, prevAll[x])
      BY <1>7, <2>2 DEF ListInv, Backward
    <3> QED
      BY <1>4, <1>5, <2>2, <3>1
  <2> QED
    BY <1>7, <2>1, <2>2
<1>10. HeadRight'
  <2>1. \A s \in Live : tid'[s] < tid'[t] /\ tid'[s] \in Nat
    BY <1>4
  <2> QED
    BY <1>1, <1>2, <1>3, <1>4, <2>1 DEF HeadRight
<1>11. FreshInv'
  <2> SUFFICES ASSUME NEW s \in Task \ Linked, s # t PROVE prevAll'[s] = Null
    BY <1>2 DEF FreshInv
  <2>1. prevAll[s] = Null /\ s # allHead
    BY <1>4, ChainTypes DEF ListInv, FreshInv, Chained
  <2> QED
    BY <1>1, <2>1, ChainTypes
<1>12. NewestInv'
  BY <1>2 DEF NewestInv, InCreate
<1> QED
  BY <1>2, <1>8, <1>9, <1>10, <1>11, <1>12 DEF ListInv

LEMMA CloneCounts ==
  ASSUME IsFiniteSet(Task), IInv, TidInv, ListInv, CountInv,
         NEW u \in Task, NEW t \in Task, Clone(u, t)
  PROVE  CountInv'
<1> SUFFICES ASSUME torn' = {} PROVE CountInv'
  BY DEF CountInv
<1>1. /\ pc[Idle] = "run" /\ pc'[Idle] = "run" /\ t \notin Live
      /\ Live' = Live \cup {t} /\ Exiting' = Exiting
  BY CloneLives
<1>2. IsFiniteSet(Live) /\ Cardinality(Live) \in Nat /\ Cardinality(Exiting) \in Nat
  <2>1. Live \in SUBSET Task /\ Exiting \in SUBSET Task
    BY ChainTypes DEF Exiting
  <2> QED
    BY <2>1, FS_Subset, FS_CardinalityType
<1>3. taskCount' = taskCount + 1 /\ torn = {}
  BY DEF Clone
<1>4. taskCount = 1 + (Cardinality(Live) + Cardinality(Exiting)) + 0
  BY <1>1, <1>3 DEF CountInv
<1>5. Cardinality(Live') = Cardinality(Live) + 1
  BY <1>1, <1>2, FS_AddElement
<1>6. taskCount' = 1 + (Cardinality(Live') + Cardinality(Exiting')) + 0
  BY <1>1, <1>2, <1>3, <1>4, <1>5
<1> QED
  BY <1>1, <1>6 DEF CountInv, InCreate

LEMMA ListNext ==
  IInv /\ TidInv /\ ("queue" \notin torn => ListInv) /\ [Next]_vars
    => ("queue" \notin torn => ListInv)'
<1> SUFFICES ASSUME IInv, TidInv, "queue" \notin torn => ListInv, [Next]_vars,
                    "queue" \notin torn'
             PROVE  ListInv'
  OBVIOUS
<1>0. /\ ListInv /\ "queue" \notin torn /\ ~CreateSlotLate
      /\ \A d \in TickLens : Tick(d) => pc[Idle] # "slot"
  BY NoHole
<1>1. UNCHANGED vars => Unmoved
  BY DEF vars, Unmoved, Live, UnderConstruction, New, Exiting, Linked
<1>2. ASSUME Unmoved PROVE ListInv'
  BY <1>0, <1>2, UnmovedKeeps
<1>3. ExitInv
  BY <1>0 DEF ListInv
<1> QED
  BY <1>0, <1>1, <1>2, <1>3, QuietUnmoved, WakeUnmoved, TickUnmoved, CreateKeeps, CloneKeeps, ExitKeeps
     DEF Next

LEMMA CountNext ==
  ASSUME IsFiniteSet(Task)
  PROVE  IInv /\ TidInv /\ ("queue" \notin torn => ListInv) /\ CountInv /\ [Next]_vars
           => CountInv'
<1> SUFFICES ASSUME IInv, TidInv, "queue" \notin torn => ListInv, CountInv, [Next]_vars,
                    torn' = {}
             PROVE  CountInv'
  BY DEF CountInv
<1>0. /\ ListInv /\ "queue" \notin torn /\ ~CreateSlotLate
      /\ \A d \in TickLens : Tick(d) => pc[Idle] # "slot"
  BY NoHole
<1>1. UNCHANGED vars => Unmoved
  BY DEF vars, Unmoved, Live, UnderConstruction, New, Exiting, Linked
<1>2. ASSUME Unmoved PROVE CountInv'
  BY <1>2, UnmovedCounts
<1>3. ExitInv
  BY <1>0 DEF ListInv
<1> QED
  BY <1>0, <1>1, <1>2, <1>3, QuietUnmoved, WakeUnmoved, TickUnmoved, CreateCounts, CloneCounts,
     ExitCounts DEF Next

-----------------------------------------------------------------------------
(* The walk from all_head meets every live task                            *)

\* What is true of 0, and of k when it is true of k - 1, is true up to N: the
\* set of those it is true of stands for the formula.
LEMMA UpTo ==
  ASSUME NEW N \in Nat, NEW T, 0 \in T,
         \A k \in 1 .. N : k - 1 \in T => k \in T
  PROVE  \A k \in 0 .. N : k \in T
<1> DEFINE Without == {k \in 0 .. N : k \notin T}
<1>1. SUFFICES ASSUME Without # {} PROVE FALSE
  OBVIOUS
<1>2. PICK k \in Without : \A l \in Without : k <= l
  <2>1. Without \in SUBSET Nat
    OBVIOUS
  <2> HIDE DEF Without
  <2> QED
    BY <1>1, <2>1, LeastNat
<1>3. k \in 1 .. N /\ k - 1 \in 0 .. N /\ ~(k <= k - 1)
  OBVIOUS
<1>4. k - 1 \in T
  BY <1>2, <1>3
<1> QED
  BY <1>3, <1>4

Steps(N, S) == [1 .. N -> [S -> S]]
IsRun(f, N, S, a, g) ==
  f \in [0 .. N -> S] /\ f[0] = a /\ \A k \in 1 .. N : f[k] = g[k][f[k - 1]]

\* A step can be iterated: there is the function that begins with a and takes
\* the k-th step from its value at k - 1.
LEMMA Iterated ==
  ASSUME NEW N \in Nat, NEW S, NEW a \in S, NEW g \in Steps(N, S)
  PROVE  \E f : IsRun(f, N, S, a, g)
<1> DEFINE Runs(f, n) == f[0] = a /\ \A k \in 1 .. n : f[k] = g[k][f[k - 1]]
           T == {n \in 0 .. N : \E f \in [0 .. n -> S] : Runs(f, n)}
<1> USE DEF Steps
<1>1. 0 \in T
  <2>1. [k \in 0 .. 0 |-> a] \in [0 .. 0 -> S] /\ Runs([k \in 0 .. 0 |-> a], 0)
    OBVIOUS
  <2>2. 0 \in 0 .. N
    OBVIOUS
  <2> QED
    BY <2>1, <2>2
<1>2. ASSUME NEW n \in 1 .. N, n - 1 \in T
      PROVE  n \in T
  <2>1. PICK f \in [0 .. n - 1 -> S] : Runs(f, n - 1)
    BY <1>2
  <2>2. n - 1 \in 0 .. n - 1 /\ g[n][f[n - 1]] \in S
    OBVIOUS
  <2> DEFINE h == [k \in 0 .. n |-> IF k = n THEN g[n][f[n - 1]] ELSE f[k]]
  <2>3. h \in [0 .. n -> S]
    BY <2>2
  <2>4. \A k \in 0 .. n - 1 : h[k] = f[k]
    OBVIOUS
  <2>5. h[n] = g[n][h[n - 1]]
    <3>1. n \in 0 .. n /\ h[n - 1] = f[n - 1]
      BY <2>2, <2>4
    <3>2. h[n] = g[n][f[n - 1]]
      BY <3>1
    <3> HIDE DEF h
    <3> QED
      BY <3>1, <3>2
  <2> HIDE DEF h
  <2>6. h[0] = a
    BY <2>1, <2>4
  <2>7. ASSUME NEW k \in 1 .. n
        PROVE  h[k] = g[k][h[k - 1]]
    <3>1. CASE k = n
      BY <2>5, <3>1
    <3>2. CASE k # n
      <4>1. k \in 1 .. n - 1 /\ k \in 0 .. n - 1 /\ k - 1 \in 0 .. n - 1
        BY <3>2
      <4> QED
        BY <2>1, <2>4, <4>1
    <3> QED
      BY <3>1, <3>2
  <2> QED
    BY <2>3, <2>6, <2>7
<1>3. N \in T
  <2> HIDE DEF T
  <2>1. \A k \in 0 .. N : k \in T
    BY <1>1, <1>2, UpTo
  <2> QED
    BY <2>1
<1>4. PICK f \in [0 .. N -> S] : Runs(f, N)
  <2> HIDE DEF Runs
  <2> QED
    BY <1>3
<1> QED
  BY <1>4 DEF IsRun


\* What the walk has met after n steps, for n up to N.
IsReach(N, r) ==
  r = [n \in 0 .. N |-> IF n = 0 THEN {allHead}
                        ELSE r[n - 1] \cup {nextAll[t] : t \in r[n - 1] \ {Null}}]

Pointer == Thread \cup {Null}

LEMMA ReachExists ==
  ASSUME IInv, NEW N \in Nat
  PROVE  \E r \in [0 .. N -> SUBSET Pointer] : IsReach(N, r)
<1> DEFINE a == {allHead}
           step(R) == R \cup {nextAll[t] : t \in R \ {Null}}
           g == [k \in 1 .. N |-> [R \in SUBSET Pointer |-> step(R)]]
<1>1. a \in SUBSET Pointer
  BY DEF IInv, TypeOK, Pointer
<1>2. ASSUME NEW R \in SUBSET Pointer
      PROVE  step(R) \in SUBSET Pointer
  BY ChainTypes DEF Pointer
<1>3. g \in Steps(N, SUBSET Pointer)
  <2> HIDE DEF step
  <2> QED
    BY <1>2 DEF Steps
<1>4. PICK r : IsRun(r, N, SUBSET Pointer, a, g)
  <2> HIDE DEF g, a
  <2> QED
    BY <1>1, <1>3, Iterated
<1>5. r \in [0 .. N -> SUBSET Pointer] /\ r[0] = a
  BY <1>4 DEF IsRun
<1>6. \A k \in 1 .. N : r[k] = step(r[k - 1])
  <2> SUFFICES ASSUME NEW k \in 1 .. N PROVE r[k] = step(r[k - 1])
    OBVIOUS
  <2>1. r[k] = g[k][r[k - 1]]
    <3> HIDE DEF g
    <3> QED
      BY <1>4 DEF IsRun
  <2>2. r[k - 1] \in SUBSET Pointer
    <3>1. k - 1 \in 0 .. N
      OBVIOUS
    <3> QED
      BY <1>5, <3>1
  <2> HIDE DEF step
  <2> QED
    BY <2>1, <2>2
<1>7. \A k \in 0 .. N : r[k] = IF k = 0 THEN a ELSE step(r[k - 1])
  <2> HIDE DEF step, a
  <2> QED
    BY <1>5, <1>6
<1>8. r = [k \in 0 .. N |-> IF k = 0 THEN a ELSE step(r[k - 1])]
  <2> HIDE DEF step, a
  <2> QED
    BY <1>5, <1>7
<1> QED
  BY <1>5, <1>8 DEF IsReach

LEMMA ListedReach ==
  ASSUME IsFiniteSet(Task), IInv
  PROVE  \E r : /\ IsReach(Cardinality(Thread), r)
                /\ r \in [0 .. Cardinality(Thread) -> SUBSET Pointer]
                /\ Listed = r[Cardinality(Thread)] \ {Null}
<1> DEFINE N == Cardinality(Thread)
           r == CHOOSE r : IsReach(N, r)
<1>1. N \in Nat
  <2>1. Thread = Task \cup {Idle}
    BY ChainTypes
  <2> QED
    BY <2>1, FS_AddElement, FS_CardinalityType
<1> HIDE DEF N
<1>2. PICK q \in [0 .. N -> SUBSET Pointer] : IsReach(N, q)
  BY <1>1, ReachExists
<1>3. IsReach(N, r)
  BY <1>2
<1>4. Listed = r[N] \ {Null}
  BY DEF Listed, IsReach, N
<1> HIDE DEF r
<1>5. \A k \in 0 .. N : r[k] = q[k]
  <2> DEFINE T == {k \in 0 .. N : r[k] = q[k]}
  <2>1. 0 \in T
    BY <1>1, <1>2, <1>3 DEF IsReach
  <2>2. ASSUME NEW k \in 1 .. N, k - 1 \in T
        PROVE  k \in T
    <3>1. r[k] = r[k - 1] \cup {nextAll[t] : t \in r[k - 1] \ {Null}}
      BY <1>1, <1>3 DEF IsReach
    <3>2. q[k] = q[k - 1] \cup {nextAll[t] : t \in q[k - 1] \ {Null}}
      BY <1>1, <1>2 DEF IsReach
    <3>3. r[k - 1] = q[k - 1]
      BY <2>2
    <3>4. r[k] = q[k]
      BY <3>1, <3>2, <3>3, Zenon
    <3>5. k \in 0 .. N
      BY <1>1
    <3> QED
      BY <3>4, <3>5
  <2> HIDE DEF T
  <2>3. \A k \in 0 .. N : k \in T
    BY <1>1, <2>1, <2>2, UpTo
  <2> QED
    BY <2>3 DEF T
<1>6. r \in [0 .. N -> SUBSET Pointer]
  <2>1. DOMAIN r = 0 .. N /\ r = [k \in 0 .. N |-> r[k]]
    BY <1>3 DEF IsReach
  <2> QED
    BY <1>2, <1>5, <2>1
<1> QED
  BY <1>3, <1>4, <1>6 DEF N

\* A walk that still meets new threads meets one in every step, so when it has
\* done as many steps as there are threads it is at the end.
LEMMA ListedCloses ==
  ASSUME IsFiniteSet(Task), IInv
  PROVE  /\ allHead \in Listed
         /\ \A x \in Listed : nextAll[x] = Null \/ nextAll[x] \in Listed
<1> DEFINE N == Cardinality(Thread)
<1>1. /\ IsFiniteSet(Thread) /\ N \in Nat /\ Null \notin Thread
      /\ IsFiniteSet(Pointer) /\ Cardinality(Pointer) = N + 1
  <2>1. Thread = Task \cup {Idle} /\ Null \notin Thread
    BY ChainTypes
  <2>2. IsFiniteSet(Thread)
    BY <2>1, FS_AddElement
  <2> QED
    BY <2>1, <2>2, FS_AddElement, FS_CardinalityType DEF Pointer
<1>2. PICK r \in [0 .. N -> SUBSET Pointer] : IsReach(N, r) /\ Listed = r[N] \ {Null}
  BY ListedReach
<1> DEFINE step(R) == {nextAll[t] : t \in R \ {Null}}
           Shut(R) == step(R) \subseteq R
           T == {k \in 0 .. N : allHead \in r[k] /\ (Shut(r[k]) \/ Cardinality(r[k]) >= k + 1)}
<1> HIDE DEF N
<1>3. \A k \in 0 .. N : /\ r[k] \subseteq Pointer /\ IsFiniteSet(r[k])
                        /\ Cardinality(r[k]) \in Nat /\ Cardinality(r[k]) <= N + 1
  <2> SUFFICES ASSUME NEW k \in 0 .. N
               PROVE  /\ r[k] \subseteq Pointer /\ IsFiniteSet(r[k])
                      /\ Cardinality(r[k]) \in Nat /\ Cardinality(r[k]) <= N + 1
    OBVIOUS
  <2>1. r[k] \in SUBSET Pointer
    OBVIOUS
  <2> QED
    BY <1>1, <2>1, FS_Subset, FS_CardinalityType
<1>4. ASSUME NEW k \in 1 .. N
      PROVE  r[k] = r[k - 1] \cup step(r[k - 1]) /\ k \in 0 .. N /\ k - 1 \in 0 .. N
  BY <1>1, <1>2 DEF IsReach
<1>5. 0 \in T
  <2>1. 0 \in 0 .. N
    BY <1>1
  <2>2. r[0] = {allHead}
    BY <1>2, <2>1 DEF IsReach
  <2>3. Cardinality(r[0]) = 1
    BY <2>2, FS_Singleton
  <2>4. allHead \in r[0] /\ Cardinality(r[0]) >= 0 + 1
    BY <2>2, <2>3
  <2> QED
    BY <2>1, <2>4
<1> HIDE DEF step
<1>6. ASSUME NEW k \in 1 .. N, k - 1 \in T
      PROVE  k \in T
  <2>1. allHead \in r[k]
    BY <1>4, <1>6
  <2>2. CASE Shut(r[k - 1])
    <3>1. r[k] = r[k - 1]
      BY <1>4, <2>2
    <3>2. Shut(r[k])
      BY <2>2, <3>1, Zenon
    <3> QED
      BY <1>4, <2>1, <3>2
  <2>3. CASE ~Shut(r[k - 1])
    <3>1. r[k - 1] \subseteq r[k] /\ r[k - 1] # r[k]
      BY <1>4, <2>3
    <3>2. Cardinality(r[k - 1]) < Cardinality(r[k])
      <4>1. IsFiniteSet(r[k])
        BY <1>3, <1>4
      <4>2. Cardinality(r[k - 1]) <= Cardinality(r[k])
        BY <3>1, <4>1, FS_Subset
      <4>3. Cardinality(r[k - 1]) # Cardinality(r[k])
        BY <3>1, <4>1, FS_Subset
      <4> QED
        BY <1>3, <1>4, <4>2, <4>3
    <3>3. Cardinality(r[k - 1]) >= k - 1 + 1
      BY <1>6, <2>3
    <3>4. Cardinality(r[k]) >= k + 1
      BY <1>3, <1>4, <3>2, <3>3
    <3> QED
      BY <1>4, <2>1, <3>4
  <2> QED
    BY <2>2, <2>3
<1>7. N \in T
  <2> HIDE DEF T
  <2>1. \A k \in 0 .. N : k \in T
    BY <1>1, <1>5, <1>6, UpTo
  <2> QED
    BY <1>1, <2>1
<1>8. Shut(r[N])
  <2>1. CASE Cardinality(r[N]) >= N + 1
    <3>1. r[N] \subseteq Pointer /\ Cardinality(r[N]) = Cardinality(Pointer)
      BY <1>1, <1>3, <2>1
    <3>2. r[N] = Pointer
      BY <1>1, <3>1, FS_Subset
    <3>3. Shut(Pointer)
      BY ChainTypes DEF step, Pointer
    <3> QED
      BY <3>2, <3>3, Zenon
  <2> QED
    BY <1>7, <2>1
<1>9. allHead \in r[N] /\ allHead # Null
  BY <1>1, <1>7 DEF IInv, TypeOK
<1>10. \A x \in r[N] \ {Null} : nextAll[x] \in r[N]
  BY <1>8 DEF step
<1> QED
  BY <1>2, <1>9, <1>10

\* The walk cannot step over a live task: the last one it meets that is not
\* older leads to an older one, with nobody live in between.
LEMMA LiveMet ==
  ASSUME IsFiniteSet(Task), IInv, TidInv, ListInv, NEW t \in Live
  PROVE  t \in Listed
<1> SUFFICES ASSUME t \notin Listed PROVE FALSE
  OBVIOUS
<1> DEFINE Ahead == {x \in Listed \cap Chained : tid[x] >= tid[t]}
           Ages == {tid[x] : x \in Ahead}
<1>1. /\ allHead \in Listed
      /\ \A x \in Listed : nextAll[x] = Null \/ nextAll[x] \in Listed
  BY ListedCloses
<1>2. t \in Chained /\ t \in Task /\ tid[t] \in Nat /\ \A x \in Chained : tid[x] \in Nat
  BY ListTypes, ChainTypes
<1>3. allHead \in Ahead
  <2>1. tid[t] <= tid[allHead] /\ allHead \in Chained
    BY DEF ListInv, HeadRight
  <2> QED
    BY <1>1, <1>2, <2>1
<1>4. PICK x \in Ahead : \A y \in Ahead : tid[x] <= tid[y]
  <2>1. Ages # {} /\ Ages \in SUBSET Nat
    BY <1>2, <1>3
  <2>2. PICK m \in Ages : \A n \in Ages : m <= n
    <3> HIDE DEF Ages
    <3> QED
      BY <2>1, LeastNat
  <2> QED
    BY <2>2
<1>5. x \in Chained /\ x \in Listed /\ x # t /\ tid[t] < tid[x]
  <2>1. x \in Chained /\ x \in Listed /\ x # t /\ tid[t] <= tid[x]
    BY <1>2, <1>4
  <2>2. tid[x] # tid[t]
    BY <1>2, <2>1, ListTypes
  <2> QED
    BY <1>2, <2>1, <2>2
<1>6. nextAll[x] # Null
  <2>1. x # Idle
    BY <1>2, <1>5 DEF TidInv, NumberInv
  <2> QED
    BY <1>5, <2>1, ChainTypes DEF Chained, IInv, LinkInv
<1>7. nextAll[x] \in Chained /\ tid[nextAll[x]] < tid[x] /\ NoneBetween(nextAll[x], x)
  BY <1>5, <1>6 DEF ListInv, Forward
<1>8. nextAll[x] \in Listed /\ nextAll[x] \notin Ahead /\ tid[nextAll[x]] \in Nat
  BY <1>1, <1>2, <1>4, <1>5, <1>6, <1>7
<1>9. tid[nextAll[x]] < tid[t]
  BY <1>2, <1>7, <1>8
<1> QED
  BY <1>5, <1>7, <1>9 DEF NoneBetween

\* However ticks cut the creations and the exits (but between the two stores of a
\* rq_push), the walk of sched_find and sched_wake meets every live task, and
\* task_count is right until a cut.
THEOREM EveryLiveIsListed ==
  ASSUME IsFiniteSet(Task),
         \A i \in DOMAIN Boot : Boot[i] \in User => i = Len(Boot)
  PROVE  Spec => []LiveListed
<1>1. IInv /\ TidInv /\ ("queue" \notin torn => ListInv) /\ CountInv => LiveListed
  <2> SUFFICES ASSUME IInv, TidInv, "queue" \notin torn => ListInv, CountInv
               PROVE  LiveListed
    OBVIOUS
  <2>1. "queue" \notin torn => \A t \in Live : t \in Listed
    BY LiveMet
  <2>2. ASSUME torn = {}, pc[Idle] \notin {"push", "slot"}
        PROVE  taskCount = 1 + Cardinality(Live) + Cardinality(Exiting)
    <3>1. Cardinality(Live) \in Nat /\ Cardinality(Exiting) \in Nat
      <4>1. Live \in SUBSET Task /\ Exiting \in SUBSET Task
        BY ChainTypes DEF Exiting
      <4> QED
        BY <4>1, FS_Subset, FS_CardinalityType
    <3> QED
      BY <2>2, <3>1 DEF CountInv
  <2> QED
    BY <2>1, <2>2 DEF LiveListed, Exiting
<1>2. IInv /\ TidInv /\ [Next]_vars => TidInv'
  BY TidNext
<1>3. IInv /\ TidInv /\ ("queue" \notin torn => ListInv) /\ [Next]_vars
        => ("queue" \notin torn => ListInv)'
  BY ListNext
<1>4. IInv /\ TidInv /\ ("queue" \notin torn => ListInv) /\ CountInv /\ [Next]_vars
        => CountInv'
  BY CountNext
<1>5. Init => TidInv /\ ListInv /\ CountInv
  BY TidInit, ChainInit, TallyInit
<1> QED
  BY <1>1, <1>2, <1>3, <1>4, <1>5, AlwaysIInv, PTL DEF Spec
=============================================================================
