------------------------------ MODULE Scheduler ------------------------------
(***************************************************************************)
(* The CFS-like scheduler of Scheduler.c on the single CPU it runs on.     *)
(*                                                                         *)
(* Only the thread that is g_sched.current executes, and the timer         *)
(* interrupt may arrive between any two of its instructions: kernel        *)
(* threads run with IF=1 (setup_kstack puts 0x202 in rflags) and           *)
(* spinlock_acquire is "pushfq; cli; popfq", which gives IF back its old   *)
(* value, so it masks nothing.  An API call made by a kernel thread is     *)
(* therefore a sequence of steps, split wherever a tick in between can be  *)
(* told apart.  The same call made from a system call (IF=0, MSR_SFMASK)   *)
(* is one step, and a hlt it reaches stops the machine.  The tick itself   *)
(* enters through an interrupt gate and is one step.                       *)
(*                                                                         *)
(* The run queue is the set of queued tasks: RunQueue shows that the array *)
(* heap behind it behaves as this set, as long as a task is queued at most *)
(* once and its vruntime does not change while it is queued.  CurrentApart *)
(* and QueuedKeysFrozen are that contract.                                 *)
(***************************************************************************)
EXTENDS Integers, Sequences, FiniteSets

CONSTANTS
  Task,       \* TCBs that may be allocated, the idle one excepted
  Idle,       \* the idle TCB; the boot thread runs as it
  Null,       \* the null pointer
  Boot,       \* the kernel threads the boot thread creates, in order
  User,       \* tasks that call the scheduler from system calls (IF=0)
  Ops,        \* the API calls the tasks make
  Weight,     \* prio_to_w of each task
  Nice0,      \* NICE_0_WEIGHT
  Slice,      \* SCHED_TIMESLICE_NS
  Cap,        \* SCHED_MAX_TASKS
  TickLens,   \* time that may pass between two ticks
  StartTime,  \* TSC when sched_init runs
  MaxTime,    \* bound of the model: TSC up to which ticks are explored
  MaxTid      \* bound of the model: tid up to which a failed clone is explored

ASSUME TaskAssumption ==
  /\ Idle \notin Task /\ Null \notin Task /\ Idle # Null
  /\ Boot \in Seq(Task)
  /\ \A i, j \in DOMAIN Boot : i # j => Boot[i] # Boot[j]
  /\ User \subseteq Task
  /\ Ops \subseteq {"exit", "yield", "sleep", "wake", "clone"}

ASSUME NumberAssumption ==
  /\ Weight \in [Task -> Nat \ {0}]
  /\ Nice0 \in Nat \ {0} /\ Slice \in Nat \ {0} /\ Cap \in Nat
  \* A full slice is charged even at the largest weight of prio_to_weight.
  /\ \A t \in Task : Slice * Nice0 >= Weight[t]
  /\ TickLens \subseteq Nat \ {0}
  /\ StartTime \in Nat \ {0} /\ MaxTime \in Nat /\ MaxTid \in Nat

VARIABLES
  state,      \* task_t.state; "NONE" before the TCB exists
  vruntime,   \* task_t.vruntime
  runtime,    \* task_t.total_runtime
  tid,        \* task_t.tid
  nextAll,    \* task_t.next_all
  prevAll,    \* task_t.prev_all
  allHead,    \* g_sched.all_head
  taskCount,  \* g_sched.task_count
  nextTid,    \* g_sched.next_tid
  minVruntime,\* g_sched.min_vruntime
  sliceStart, \* g_sched.slice_start_tsc
  rq,         \* the tasks in g_sched.rq
  current,    \* g_sched.current
  now,        \* the TSC, in nanoseconds
  pc,         \* where each thread is
  todo,       \* threads the boot thread has still to create
  reg,        \* register of the boot thread in a read-modify-write
  used,       \* history: time each task really had the CPU
  torn,       \* history: critical sections a context switch has cut in two
  halted      \* the CPU executes no further instruction

links   == <<nextAll, prevAll, allHead, taskCount>>
tcb     == <<state, vruntime, runtime, tid>>
boot    == <<todo, reg, nextTid>>
clock   == <<now, used>>
vars    == <<state, vruntime, runtime, tid, nextAll, prevAll, allHead,
             taskCount, nextTid, minVruntime, sliceStart, rq, current, now,
             pc, todo, reg, used, torn, halted>>

Thread  == Task \cup {Idle}
States  == {"NONE", "RUNNING", "RUNNABLE", "SLEEPING", "ZOMBIE"}

\* Program points of sched_create_kthread, in the boot thread.
InCreate == {"tid", "tid2", "vruntime", "link", "head", "count", "count2",
             "push", "slot", "slotGone"}
\* Program points of sched_exit whose effects are lost if it never resumes.
InExit   == {"unlinkPrev", "unlinkNext", "unlinkHead", "uncount"}
Points   == InCreate \cup InExit
              \cup {"none", "run", "slice", "lastSlice", "hlt", "doze", "asleep"}

-----------------------------------------------------------------------------
(* Helpers of Scheduler.c                                                  *)

\* rq_min_vruntime of a non-empty queue, under the vruntimes v.
QueueMin(v) == CHOOSE m \in {v[t] : t \in rq} : \A t \in rq : m <= v[t]

\* Mutant of UpdatedMin: the queue is not looked at.
UpdatedMinOfCurrent(v) ==
  IF current # Idle /\ v[current] > minVruntime THEN v[current] ELSE minVruntime

\* update_min_vruntime: the value of min_vruntime under the vruntimes v.
UpdatedMin(v) ==
  LET mine == IF current = Idle THEN minVruntime ELSE v[current]
      low  == IF rq # {} /\ (mine = 0 \/ QueueMin(v) < mine)
                THEN QueueMin(v) ELSE mine
  IN  IF low > minVruntime THEN low ELSE minVruntime

\* Mutant of Full: the last slot is never used.
FullTooSoon(q) == Cardinality(q) >= Cap - 1

\* rq_push: the queue q with t added, unless it is full.
Full(q) == Cardinality(q) >= Cap
Pushed(q, t) == IF Full(q) THEN q ELSE q \cup {t}

\* Mutants of Best and Popped: any task is picked; it is not taken off.
AnyQueued(q, v) == q
NotPopped(q, t) == q

\* rq_pop: the tasks at the root of the heap q, and the heap without one.
Best(q, v) == {t \in q : \A u \in q : v[t] <= v[u]}
Popped(q, t) == q \ {t}

\* The tasks sched_find and sched_wake meet from all_head on.
Listed ==
  LET reach[n \in 0 .. Cardinality(Thread)] ==
        IF n = 0 THEN {allHead}
        ELSE reach[n - 1] \cup {nextAll[t] : t \in reach[n - 1] \ {Null}}
  IN  reach[Cardinality(Thread)] \ {Null}

\* Thread t executes at program point p.
At(t, p) == current = t /\ pc[t] = p /\ ~halted
Goto(t, p) == pc' = [pc EXCEPT ![t] = p]

-----------------------------------------------------------------------------
(* sched_init, with the boot thread running as the idle task               *)

Init ==
  /\ state = [t \in Thread |-> IF t = Idle THEN "RUNNABLE" ELSE "NONE"]
  /\ vruntime = [t \in Thread |-> 0]
  /\ runtime = [t \in Thread |-> 0]
  /\ tid = [t \in Thread |-> 0]
  /\ nextAll = [t \in Thread |-> Null]
  /\ prevAll = [t \in Thread |-> Null]
  /\ allHead = Idle
  /\ taskCount = 1
  /\ nextTid = 1
  /\ minVruntime = 0
  /\ sliceStart = 0
  /\ rq = {}
  /\ current = Idle
  /\ now = StartTime
  /\ pc = [t \in Thread |-> IF t = Idle THEN "run" ELSE "none"]
  /\ todo = Boot
  /\ reg = 0
  /\ used = [t \in Thread |-> 0]
  /\ torn = {}
  /\ halted = FALSE

-----------------------------------------------------------------------------
(* sched_create_kthread in the boot thread, one step per shared access     *)

New == Head(todo)

\* alloc_task; on failure the call returns -1 and the boot thread goes on.
CreateAlloc ==
  /\ At(Idle, "run") /\ todo # <<>>
  /\ \/ Goto(Idle, "tid") /\ UNCHANGED todo
     \/ todo' = Tail(todo) /\ UNCHANGED pc
  /\ UNCHANGED <<tcb, links, nextTid, minVruntime, sliceStart, rq, current,
                 reg, clock, torn, halted>>

\* next_tid++ is a load and a store.
CreateTidLoad ==
  /\ At(Idle, "tid") /\ Goto(Idle, "tid2")
  /\ reg' = nextTid
  /\ UNCHANGED <<tcb, links, nextTid, minVruntime, sliceStart, rq, current,
                 todo, clock, torn, halted>>

CreateTidStore ==
  /\ At(Idle, "tid2") /\ Goto(Idle, "vruntime")
  /\ nextTid' = reg + 1
  /\ tid' = [tid EXCEPT ![New] = reg]
  /\ state' = [state EXCEPT ![New] = "RUNNABLE"]
  /\ UNCHANGED <<vruntime, runtime, links, minVruntime, sliceStart, rq,
                 current, todo, reg, clock, torn, halted>>

\* update_min_vruntime and setup_kstack; without a stack the TCB is freed,
\* its tid stays spent and the call returns -1.  A cut inside this step only
\* makes the min_vruntime it stores older, which no property of a creation
\* that was cut depends on.
CreateVruntime ==
  /\ At(Idle, "vruntime")
  /\ minVruntime' = UpdatedMin(vruntime)
  /\ \/ /\ vruntime' = [vruntime EXCEPT ![New] = minVruntime']
        /\ Goto(Idle, "link")
        /\ UNCHANGED <<state, tid, todo>>
     \/ /\ state' = [state EXCEPT ![New] = "NONE"]
        /\ tid' = [tid EXCEPT ![New] = 0]
        /\ todo' = Tail(todo)
        /\ Goto(Idle, "run")
        /\ UNCHANGED vruntime
  /\ UNCHANGED <<runtime, links, nextTid, sliceStart, rq, current, reg,
                 clock, torn, halted>>

CreateLink ==
  /\ At(Idle, "link") /\ Goto(Idle, "head")
  /\ nextAll' = [nextAll EXCEPT ![New] = allHead]
  /\ UNCHANGED <<tcb, prevAll, allHead, taskCount, boot, minVruntime,
                 sliceStart, rq, current, clock, torn, halted>>

CreateHead ==
  /\ At(Idle, "head") /\ Goto(Idle, "count")
  /\ prevAll' = [prevAll EXCEPT ![allHead] = New]
  /\ allHead' = New
  /\ UNCHANGED <<tcb, nextAll, taskCount, boot, minVruntime, sliceStart, rq,
                 current, clock, torn, halted>>

CreateCountLoad ==
  /\ At(Idle, "count") /\ Goto(Idle, "count2")
  /\ reg' = taskCount
  /\ UNCHANGED <<tcb, links, nextTid, todo, minVruntime, sliceStart, rq,
                 current, clock, torn, halted>>

CreateCountStore ==
  /\ At(Idle, "count2") /\ Goto(Idle, "push")
  /\ taskCount' = reg + 1
  /\ UNCHANGED <<tcb, nextAll, prevAll, allHead, boot, minVruntime,
                 sliceStart, rq, current, clock, torn, halted>>

\* rq_push: size is read, and grows, before the slot is filled; what a tick at
\* "slot" makes of it is SwitchOnHole.  A full queue drops the task, which is
\* in the list and RUNNABLE all the same.
CreateGrow ==
  /\ At(Idle, "push")
  /\ IF Full(rq)
       THEN /\ pc' = [pc EXCEPT ![Idle] = "run", ![New] = "run"]
            /\ todo' = Tail(todo)
       ELSE /\ Goto(Idle, "slot") /\ UNCHANGED todo
  /\ UNCHANGED <<tcb, links, nextTid, reg, minVruntime, sliceStart, rq,
                 current, clock, torn, halted>>

\* The slot is filled; the new thread may run from its first instruction.
\* heap_up, which follows, swaps nothing: a tick switches away from the boot
\* thread whenever the queue is not empty and it resumes only when the queue
\* is, so what is queued it pushed itself in one stay on the CPU, with keys
\* taken from a min_vruntime that grows.  heap_up cut by a tick goes on when
\* the queue is empty and compares slots that are no longer in use.
CreateSlot ==
  /\ At(Idle, "slot")
  /\ rq' = rq \cup {New}
  /\ pc' = [pc EXCEPT ![Idle] = "run", ![New] = "run"]
  /\ todo' = Tail(todo)
  /\ UNCHANGED <<tcb, links, nextTid, reg, minVruntime, sliceStart, current,
                 clock, torn, halted>>

\* The same store when a switch has taken the slot off the queue meanwhile: the
\* boot thread resumes with an empty queue, so the slot is no longer in use,
\* and the task is in the list, RUNNABLE, and never dispatched.
CreateSlotLate ==
  /\ At(Idle, "slotGone")
  /\ pc' = [pc EXCEPT ![Idle] = "run", ![New] = "run"]
  /\ todo' = Tail(todo)
  /\ UNCHANGED <<tcb, links, nextTid, reg, minVruntime, sliceStart, rq,
                 current, clock, torn, halted>>

CreateStep ==
  \/ CreateAlloc \/ CreateTidLoad \/ CreateTidStore \/ CreateVruntime
  \/ CreateLink \/ CreateHead \/ CreateCountLoad \/ CreateCountStore
  \/ CreateGrow \/ CreateSlot \/ CreateSlotLate

\* sched_create_kthread from a system call (clone, execve): one step.
Clone(u, t) ==
  /\ "clone" \in Ops /\ u \in User /\ At(u, "run")
  /\ pc[t] = "none" /\ \A i \in DOMAIN todo : todo[i] # t
  /\ state' = [state EXCEPT ![t] = "RUNNABLE"]
  /\ tid' = [tid EXCEPT ![t] = nextTid]
  /\ nextTid' = nextTid + 1
  /\ minVruntime' = UpdatedMin(vruntime)
  /\ vruntime' = [vruntime EXCEPT ![t] = minVruntime']
  /\ nextAll' = [nextAll EXCEPT ![t] = allHead]
  /\ prevAll' = [prevAll EXCEPT ![allHead] = t]
  /\ allHead' = t
  /\ taskCount' = taskCount + 1
  /\ rq' = Pushed(rq, t)
  /\ Goto(t, "run")
  /\ UNCHANGED <<runtime, sliceStart, current, todo, reg, clock, torn, halted>>

\* The same call when there is no memory for the stack: the tid stays spent.
CloneFails(u) ==
  /\ "clone" \in Ops /\ u \in User /\ At(u, "run")
  /\ nextTid < MaxTid
  /\ nextTid' = nextTid + 1
  /\ minVruntime' = UpdatedMin(vruntime)
  /\ UNCHANGED <<tcb, links, sliceStart, rq, current, todo, reg, clock, pc,
                 torn, halted>>

-----------------------------------------------------------------------------
(* sched_exit: in a kernel thread each store may be the last one           *)

\* What the three unlinking statements write, in the order of the source.
SkipForward(nx, t) == IF prevAll[t] = Null THEN nx
                      ELSE [nx EXCEPT ![prevAll[t]] = nx[t]]
SkipBackward(pv, t) == IF nextAll[t] = Null THEN pv
                       ELSE [pv EXCEPT ![nextAll[t]] = pv[t]]
\* Mutant of HeadWithout: the head moves whoever exits.
HeadAfter(t) == nextAll[t]
HeadWithout(t) == IF allHead = t THEN nextAll[t] ELSE allHead

ExitZombie(t) ==
  /\ "exit" \in Ops /\ t \notin User /\ At(t, "run")
  /\ state' = [state EXCEPT ![t] = "ZOMBIE"]
  /\ Goto(t, "unlinkPrev")
  /\ UNCHANGED <<vruntime, runtime, tid, links, boot, minVruntime,
                 sliceStart, rq, current, clock, torn, halted>>

ExitUnlinkPrev(t) ==
  /\ At(t, "unlinkPrev") /\ Goto(t, "unlinkNext")
  /\ nextAll' = SkipForward(nextAll, t)
  /\ UNCHANGED <<tcb, prevAll, allHead, taskCount, boot, minVruntime,
                 sliceStart, rq, current, clock, torn, halted>>

ExitUnlinkNext(t) ==
  /\ At(t, "unlinkNext") /\ Goto(t, "unlinkHead")
  /\ prevAll' = SkipBackward(prevAll, t)
  /\ UNCHANGED <<tcb, nextAll, allHead, taskCount, boot, minVruntime,
                 sliceStart, rq, current, clock, torn, halted>>

ExitUnlinkHead(t) ==
  /\ At(t, "unlinkHead") /\ Goto(t, "uncount")
  /\ allHead' = HeadWithout(t)
  /\ UNCHANGED <<tcb, nextAll, prevAll, taskCount, boot, minVruntime,
                 sliceStart, rq, current, clock, torn, halted>>

ExitUncount(t) ==
  /\ At(t, "uncount") /\ Goto(t, "lastSlice")
  /\ taskCount' = taskCount - 1
  /\ UNCHANGED <<tcb, nextAll, prevAll, allHead, boot, minVruntime,
                 sliceStart, rq, current, clock, torn, halted>>

ExitStep(t) ==
  \/ ExitZombie(t) \/ ExitUnlinkPrev(t) \/ ExitUnlinkNext(t)
  \/ ExitUnlinkHead(t) \/ ExitUncount(t)

\* The exit system call runs the same stores with IF=0, then halts the CPU.
ExitSyscall(u) ==
  /\ "exit" \in Ops /\ u \in User /\ At(u, "run")
  /\ state' = [state EXCEPT ![u] = "ZOMBIE"]
  /\ nextAll' = SkipForward(nextAll, u)
  /\ prevAll' = SkipBackward(prevAll, u)
  /\ allHead' = HeadWithout(u)
  /\ taskCount' = taskCount - 1
  /\ sliceStart' = 0
  /\ Goto(u, "hlt")
  /\ halted' = TRUE
  /\ UNCHANGED <<vruntime, runtime, tid, boot, minVruntime, rq, current,
                 clock, torn>>

-----------------------------------------------------------------------------
(* sched_yield, sched_sleep_ns, sched_wake                                 *)

\* sched_yield: the hlt that follows ends at the next interrupt, unless the
\* caller is a system call, whose IF=0 makes it the last instruction.
Yield(t) ==
  /\ "yield" \in Ops /\ t # Idle /\ At(t, "run")
  /\ sliceStart' = 0
  /\ halted' = (t \in User)
  /\ Goto(t, "doze")
  /\ UNCHANGED <<tcb, links, boot, minVruntime, rq, current, clock, torn>>

\* sched_sleep_ns: the state first, then the slice, then the waiting loop.
SleepMark(t) ==
  /\ "sleep" \in Ops /\ t \notin User /\ t # Idle /\ At(t, "run")
  /\ state' = [state EXCEPT ![t] = "SLEEPING"]
  /\ Goto(t, "slice")
  /\ UNCHANGED <<vruntime, runtime, tid, links, boot, minVruntime,
                 sliceStart, rq, current, clock, torn, halted>>

\* slice_start_tsc = 0, at the end of sched_exit and of sched_sleep_ns.
ZeroSlice(t) ==
  /\ \/ At(t, "lastSlice") /\ Goto(t, "hlt")
     \/ At(t, "slice") /\ Goto(t, "asleep")
  /\ sliceStart' = 0
  /\ UNCHANGED <<tcb, links, boot, minVruntime, rq, current, clock, torn,
                 halted>>

SleepReturn(t) ==
  /\ At(t, "asleep") /\ state[t] # "SLEEPING"
  /\ Goto(t, "run")
  /\ UNCHANGED <<tcb, links, boot, minVruntime, sliceStart, rq, current,
                 clock, torn, halted>>

\* sched_wake with interrupts off, called by a thread that runs (no caller in
\* the repository: nothing ends the sleep of sched_sleep_ns but this call).
\* Bound of the model: a sleeper that SwitchOnHole has put into the queue is not
\* woken, which would queue it twice.
Wake(t) ==
  /\ "wake" \in Ops /\ ~halted
  /\ t \in Listed \ rq /\ state[t] = "SLEEPING"
  /\ current # Idle /\ pc[current] = "run"
  /\ state' = [state EXCEPT ![t] = "RUNNABLE"]
  /\ minVruntime' = UpdatedMin(vruntime)
  /\ vruntime' = [vruntime EXCEPT ![t] =
                    IF @ < minVruntime' THEN minVruntime' ELSE @]
  /\ rq' = Pushed(rq, t)
  /\ UNCHANGED <<runtime, tid, links, boot, sliceStart, current, clock, pc,
                 torn, halted>>

-----------------------------------------------------------------------------
(* sched_tick and context_switch                                           *)

\* A hlt ends with the interrupt; the slot counted by a cut rq_push is gone.
Resumed(p) == [p EXCEPT ![current] = IF @ = "doze" THEN "run"
                                     ELSE IF @ = "slot" THEN "slotGone" ELSE @]

\* Mutant of Delta: slice_start_tsc is not subtracted.
DeltaSinceBoot(n) == n

\* The time charged to the current task when it is switched out at time n.
Delta(n) == n - sliceStart

\* Mutant of Requeued: a task that sleeps or has exited is queued too.
RequeuedAnyState == IF current # Idle THEN Pushed(rq, current) ELSE rq

\* The queue after context_switch has put the current task back.
Requeued == IF state[current] = "RUNNING" /\ current # Idle
              THEN Pushed(rq, current) ELSE rq

\* context_switch at time n, the current task being charged since sliceStart.
ContextSwitch(n) ==
  LET prev    == current
      charged == IF prev = Idle THEN vruntime
                 ELSE [vruntime EXCEPT ![prev] =
                         @ + (Delta(n) * Nice0) \div Weight[prev]]
      parked  == IF state[prev] = "RUNNING"
                   THEN [state EXCEPT ![prev] = "RUNNABLE"] ELSE state
  IN  /\ vruntime' = charged
      /\ runtime' = IF prev = Idle THEN runtime
                    ELSE [runtime EXCEPT ![prev] = @ + Delta(n)]
      /\ minVruntime' = UpdatedMin(charged)
      /\ \E next \in IF Requeued = {} THEN {Idle} ELSE Best(Requeued, charged) :
           /\ rq' = Popped(Requeued, next)
           /\ state' = [parked EXCEPT ![next] = "RUNNING"]
           /\ current' = next
           /\ torn' = torn
                \cup {s \in {"create"} : next # Idle /\ pc[Idle] \in InCreate}
                \cup {s \in {"exit"} : next # prev /\ pc[prev] \in InExit}
      /\ sliceStart' = n
      /\ UNCHANGED halted

\* What the slot rq_push has counted but not filled may still hold: a task that
\* was queued before.  Which one, and whether a slot behind the first was used
\* before at all, is left open.
Leftover == {t \in Task \ rq : pc[t] # "none"}

\* context_switch when the tick has cut the boot thread's rq_push between the
\* store of size and the store of the slot.  rq_pop takes the root and moves
\* what the last slot holds in its place; in an empty queue that slot is the
\* root.  A task left over there comes back whatever its state, a ZOMBIE too.
\* Of a slot that was never used the code reads a null pointer, in
\* update_min_vruntime or in rq_pop: page 0 is not mapped (vmm_init), and the
\* page fault handler stops the machine.
SwitchOnHole(n) ==
  /\ torn' = torn \cup {"create", "queue"}
  /\ sliceStart' = n
  /\ \/ /\ rq # {} \/ Leftover = {}
        /\ halted' = TRUE
        /\ UNCHANGED <<minVruntime, rq, state, current>>
     \/ \E left \in Leftover :
        \E next \in IF rq = {} THEN {left} ELSE Best(rq, vruntime) :
          /\ minVruntime' = IF rq # {} THEN UpdatedMin(vruntime)
                            ELSE IF minVruntime = 0 THEN vruntime[left]
                            ELSE minVruntime
          /\ rq' = Popped(rq \cup {left}, next)
          /\ state' = [state EXCEPT ![Idle] = "RUNNABLE", ![next] = "RUNNING"]
          /\ current' = next
          /\ UNCHANGED halted
  /\ UNCHANGED <<vruntime, runtime>>

\* Whether sched_tick, at time n, calls context_switch.
NeedSwitch(n) ==
  \/ n - sliceStart >= Slice
  \/ /\ rq # {} /\ current # Idle
     /\ vruntime[current] - QueueMin(vruntime) > Slice
  \/ current = Idle /\ rq # {}

\* sched_tick; a slot that is counted is enough for it to switch.
Tick(d) ==
  /\ ~halted /\ now + d <= MaxTime
  /\ now' = now + d
  /\ used' = [used EXCEPT ![current] = @ + d]
  /\ pc' = Resumed(pc)
  /\ IF pc[Idle] = "slot" THEN SwitchOnHole(now + d)
     ELSE IF NeedSwitch(now + d) THEN ContextSwitch(now + d)
     ELSE UNCHANGED <<vruntime, runtime, minVruntime, rq, state, current,
                      torn, halted, sliceStart>>
  /\ UNCHANGED <<tid, links, boot>>

Next ==
  \/ CreateStep
  \/ \E u, t \in Task : Clone(u, t)
  \/ \E t \in Task : CloneFails(t) \/ ExitStep(t) \/ ExitSyscall(t)
                     \/ Yield(t) \/ SleepMark(t) \/ ZeroSlice(t) \/ SleepReturn(t)
                     \/ Wake(t)
  \/ \E d \in TickLens : Tick(d)

Spec == Init /\ [][Next]_vars


-----------------------------------------------------------------------------
(* Properties                                                              *)

\* The TCB sched_create_kthread is filling in for the boot thread.
UnderConstruction == IF pc[Idle] \in InCreate /\ todo # <<>> THEN {New} ELSE {}

\* Tasks that have been created and have not exited.
Live == {t \in Task : state[t] \in {"RUNNING", "RUNNABLE", "SLEEPING"}}
                    \ UnderConstruction

\* Every variable holds a value of the type the code declares for it.
TypeOK ==
  /\ state \in [Thread -> States]
  /\ vruntime \in [Thread -> Nat] /\ runtime \in [Thread -> Nat]
  /\ tid \in [Thread -> Nat]
  /\ nextAll \in [Thread -> Thread \cup {Null}]
  /\ prevAll \in [Thread -> Thread \cup {Null}]
  /\ allHead \in Thread /\ taskCount \in Int
  /\ nextTid \in Nat /\ minVruntime \in Nat /\ sliceStart \in Nat
  /\ rq \subseteq Task /\ current \in Thread
  /\ now \in Nat /\ sliceStart <= now
  /\ pc \in [Thread -> Points] /\ todo \in Seq(Task) /\ reg \in Int
  /\ used \in [Thread -> Nat]
  /\ torn \subseteq {"create", "exit", "queue"} /\ halted \in BOOLEAN

\* What the queue holds can be dispatched: a queued task is not the one on the
\* CPU, whose vruntime still grows, and is RUNNABLE, which the comment at
\* context_switch asks for ("SLEEPING / ZOMBIE are not queued"); the latter as
\* long as no tick has come between the two stores of a rq_push.
CurrentApart ==
  \A t \in rq : t # current /\ ("queue" \notin torn => state[t] = "RUNNABLE")

\* No runnable task is forgotten: Scheduler.h calls RUNNABLE "ready, in the
\* queue", and a task that is ready but not queued never runs again.  A tick
\* between the two stores of a rq_push does lose one.
NoLostTask == "queue" \notin torn =>
  \A t \in Task : state[t] = "RUNNABLE" =>
                    t \in rq \/ t = current \/ t \in UnderConstruction

\* The heap is ordered by a key that is changed in place by context_switch
\* and sched_wake: never while the task is in it, unless a rq_push was cut.
QueuedKeysFrozen ==
  [][\A t \in rq \cap rq' : "queue" \notin torn => vruntime'[t] = vruntime[t]]_vars

\* A task that has exited never gets the CPU again, whatever switch finds it
\* half way through sched_exit; only a tick between the two stores of a
\* rq_push can bring it back (see ExitedStaysZombie).
ZombieStaysDead ==
  [][\A t \in Task : state[t] = "ZOMBIE" /\ "queue" \notin torn' =>
       state'[t] = "ZOMBIE" /\ (current' = t => current = t)]_vars

\* The comment at the end of sched_exit, of a task that only waits to be switched
\* out: "we are a ZOMBIE already, we shall not return to the queue".  Not so when
\* a rq_push is cut: the slot it has counted may still hold the task that
\* exited, which is dispatched, and queued again at the end of each slice.
ExitedStaysZombie == \A t \in Task : pc[t] = "hlt" => state[t] = "ZOMBIE"

\* sched_find and sched_wake reach every live task from all_head, even when
\* the unlinking of others was cut in two by a switch (but not a task that a
\* cut rq_push brought back); as long as nothing was cut, task_count is the
\* idle task, the live ones and the exiting one until it is uncounted.
LiveListed ==
  /\ "queue" \notin torn => \A t \in Live : t \in Listed
  /\ torn = {} /\ pc[Idle] \notin {"push", "slot"} =>
       taskCount = 1 + Cardinality(Live)
                     + Cardinality({t \in Task : pc[t] \in InExit})

\* min_vruntime is a lower bound of what runnable tasks have, so a newcomer,
\* which starts from it, is never behind them in the queue by more than it.
MinIsFloor == "create" \notin torn =>
  \A t \in Live : state[t] \in {"RUNNING", "RUNNABLE"} =>
                    minVruntime <= vruntime[t]

\* total_runtime is the time the task really had the CPU, short of what it
\* has had since the last switch (unless a cut rq_push brings a task back that
\* exited and was charged all the time since boot, sched_exit zeroing the start).
AccountingExact == "queue" \notin torn =>
  \A t \in Live :
    runtime[t] + (IF t = current THEN now - sliceStart ELSE 0) = used[t]

\* The most one stay on the CPU can add to a vruntime.
MaxCharge(maxTick, minWeight) ==
  ((Slice - 1 + maxTick) * Nice0) \div minWeight

\* The promise of CFS: among runnable tasks none is ahead of another in
\* weighted CPU time by more than one stay on the CPU.
FairShare == "create" \notin torn =>
  \A s, t \in {u \in Live : state[u] \in {"RUNNING", "RUNNABLE"}} :
    \E d \in TickLens : \E u \in Task :
      vruntime[s] - vruntime[t] <= MaxCharge(d, Weight[u])

=============================================================================
