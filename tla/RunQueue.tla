------------------------------ MODULE RunQueue ------------------------------
(***************************************************************************)
(* The run queue of Scheduler.c: a binary min-heap of task pointers in an  *)
(* array, ordered by vruntime, with the index of each task kept in its TCB.*)
(* A call is its first step followed by the iterations of heap_up and      *)
(* heap_down; calls do not overlap (the tick masks interrupts, and the     *)
(* comment at Scheduler!CreateSlot says why the boot thread's push may be  *)
(* treated so once its slot is filled).                                    *)
(*                                                                         *)
(* Callers keep the contract Scheduler checks and proves: a task is pushed *)
(* only when it is not queued (CurrentApart) and its vruntime does not     *)
(* change while it is (QueuedKeysFrozen).                                  *)
(***************************************************************************)
EXTENDS Integers, FiniteSets

CONSTANTS
  Task,   \* the TCBs
  Key,    \* values of vruntime
  Cap,    \* SCHED_MAX_TASKS
  Null    \* the null pointer

ASSUME QueueAssumption ==
  /\ Null \notin Task
  /\ Key \subseteq Nat
  /\ Cap \in Nat \ {0}

VARIABLES
  data,   \* run_queue_t.data; Null in the slots no task is in, which the code
          \* leaves stale and does not read
  size,   \* run_queue_t.size
  idx,    \* task_t.heap_idx
  key,    \* task_t.vruntime
  op,     \* the loop that runs: heap_up, heap_down or none
  at,     \* its index i
  from,   \* rq_remove: where heap_down starts after heap_up; -1 in rq_push
  out     \* what the last rq_pop returned

vars == <<data, size, idx, key, op, at, from, out>>

Slot == 0 .. Cap - 1

Parent(i) == (i - 1) \div 2
Left(i)   == 2 * i + 1
Right(i)  == 2 * i + 2

Queued == {data[i] : i \in 0 .. size - 1}
K(i)   == key[data[i]]

Init ==
  /\ data = [i \in Slot |-> Null]
  /\ size = 0
  /\ idx = [t \in Task |-> -1]
  /\ key \in [Task -> Key]
  /\ op = "none" /\ at = 0 /\ from = -1
  /\ out = Null

-----------------------------------------------------------------------------
(* heap_swap, heap_up and heap_down                                        *)

Swap(a, b) ==
  /\ data' = [data EXCEPT ![a] = data[b], ![b] = data[a]]
  /\ idx' = [idx EXCEPT ![data[a]] = b, ![data[b]] = a]

\* Mutant of Rises: the sift stops one level early.
RisesBelow(i) == Parent(i) > 0 /\ K(Parent(i)) > K(i)

Rises(i) == i > 0 /\ K(Parent(i)) > K(i)

HeapUp ==
  /\ op = "up"
  /\ IF Rises(at)
       THEN Swap(Parent(at), at) /\ at' = Parent(at) /\ UNCHANGED <<op, from>>
       ELSE /\ op' = IF from >= 0 THEN "down" ELSE "none"
            /\ at' = IF from >= 0 THEN from ELSE at
            /\ from' = -1
            /\ UNCHANGED <<data, idx>>
  /\ UNCHANGED <<size, key, out>>

\* Mutant of Smallest: the left child is taken without looking at the right.
SmallestLeft(i) == IF Left(i) < size /\ K(Left(i)) < K(i) THEN Left(i) ELSE i

\* The smallest of slot i and its children, the earlier one when equal.
Smallest(i) ==
  LET l == IF Left(i) < size /\ K(Left(i)) < K(i) THEN Left(i) ELSE i
  IN  IF Right(i) < size /\ K(Right(i)) < K(l) THEN Right(i) ELSE l

HeapDown ==
  /\ op = "down"
  /\ IF Smallest(at) # at
       THEN Swap(at, Smallest(at)) /\ at' = Smallest(at) /\ UNCHANGED op
       ELSE op' = "none" /\ UNCHANGED <<data, idx, at>>
  /\ UNCHANGED <<size, key, from, out>>

-----------------------------------------------------------------------------
(* rq_push, rq_pop, rq_remove                                              *)

HasRoom == size < Cap

Push(t) ==
  /\ op = "none" /\ t \notin Queued /\ HasRoom
  /\ data' = [data EXCEPT ![size] = t]
  /\ idx' = [idx EXCEPT ![t] = size]
  /\ size' = size + 1
  /\ op' = "up" /\ at' = size /\ from' = -1
  /\ UNCHANGED <<key, out>>

PushFull(t) ==
  /\ op = "none" /\ t \notin Queued /\ ~HasRoom
  /\ UNCHANGED vars

PopEmpty ==
  /\ op = "none" /\ size = 0
  /\ out' = Null
  /\ UNCHANGED <<data, size, idx, key, op, at, from>>

\* Mutant of Vacate: heap_idx of the task that moves is not updated.
VacateOnly(t, i) ==
  LET last == size - 1
  IN  /\ size' = last
      /\ data' = [data EXCEPT ![i] = data[last], ![last] = Null]
      /\ idx' = [idx EXCEPT ![t] = -1]

\* What taking task t out of slot i writes before any sift: the last task
\* moves into the hole.
Vacate(t, i) ==
  LET last == size - 1
  IN  /\ size' = last
      /\ data' = [data EXCEPT ![i] = data[last], ![last] = Null]
      /\ idx' = [idx EXCEPT ![data[last]] = i, ![t] = -1]

Pop ==
  /\ op = "none" /\ size > 0
  /\ out' = data[0]
  /\ Vacate(data[0], 0)
  /\ IF size > 1 THEN op' = "down" /\ at' = 0 ELSE UNCHANGED <<op, at>>
  /\ UNCHANGED <<key, from>>

\* rq_remove, which nothing calls yet (it is marked unused): a task that is
\* not queued has heap_idx -1 and is left alone.
Remove(t) ==
  /\ op = "none" /\ idx[t] >= 0 /\ idx[t] < size
  /\ Vacate(t, idx[t])
  /\ IF idx[t] < size - 1
       THEN op' = "up" /\ at' = idx[t] /\ from' = idx[t]
       ELSE UNCHANGED <<op, at, from>>
  /\ UNCHANGED <<key, out>>

\* The vruntime of a task that is not queued: context_switch, sched_wake and
\* sched_create_kthread set it before they push.
Charge(t, k) ==
  /\ op = "none" /\ t \notin Queued
  /\ key' = [key EXCEPT ![t] = k]
  /\ UNCHANGED <<data, size, idx, op, at, from, out>>

Next ==
  \/ HeapUp \/ HeapDown \/ PopEmpty \/ Pop
  \/ \E t \in Task : Push(t) \/ PushFull(t) \/ Remove(t)
                     \/ \E k \in Key : Charge(t, k)

Spec == Init /\ [][Next]_vars

-----------------------------------------------------------------------------
(* Properties                                                              *)

\* Every variable holds a value of its type, and no slot in use is empty.
TypeOK ==
  /\ data \in [Slot -> Task \cup {Null}]
  /\ size \in 0 .. Cap
  /\ \A i \in Slot : data[i] = Null <=> i >= size
  /\ idx \in [Task -> -1 .. Cap - 1]
  /\ key \in [Task -> Key]
  /\ op \in {"none", "up", "down"}
  /\ at \in Slot /\ (op # "none" => at < size)
  /\ from \in -1 .. Cap - 1 /\ (from >= 0 => op = "up" /\ from < size)
  /\ out \in Task \cup {Null}

\* heap_idx is where the task is, at every step of every sift, and -1 for a
\* task that is not queued: rq_remove trusts it.
IndexRight ==
  /\ \A i \in 0 .. size - 1 : idx[data[i]] = i
  /\ \A t \in Task : t \notin Queued => idx[t] = -1

\* Between calls the root, which rq_pop returns and rq_min_vruntime reads, is
\* a task of least vruntime.
RootIsLeast ==
  op = "none" => \A i \in 0 .. size - 1 : K(0) <= K(i)

\* The array heap is the set the scheduler takes it for.
PQ == INSTANCE PriorityQueue WITH queue <- Queued
RefinesPriorityQueue == PQ!Spec
=============================================================================
