---------------------------- MODULE PriorityQueue ----------------------------
(***************************************************************************)
(* What the scheduler takes its run queue for: a set of tasks, at most Cap *)
(* of them, that gives back one whose key is least.                        *)
(***************************************************************************)
EXTENDS Integers, FiniteSets

CONSTANTS Task, Key, Cap, Null

VARIABLES queue,  \* the tasks in the queue
          key,    \* the key of every task
          out     \* what the last removal returned; Null when nothing was there

Init ==
  /\ queue = {}
  /\ key \in [Task -> Key]
  /\ out = Null

\* A full queue drops the newcomer.
Add(t) ==
  /\ t \notin queue
  /\ Cardinality(queue) < Cap /\ queue' = queue \cup {t}
  /\ UNCHANGED <<key, out>>

TakeMin ==
  \/ /\ queue = {} /\ out' = Null
     /\ UNCHANGED <<queue, key>>
  \/ \E t \in queue :
       /\ \A u \in queue : key[t] <= key[u]
       /\ queue' = queue \ {t}
       /\ out' = t
       /\ UNCHANGED key

Drop(t) ==
  /\ t \in queue /\ queue' = queue \ {t}
  /\ UNCHANGED <<key, out>>

\* Only the key of a task outside the queue may change.
Rekey(t, k) ==
  /\ t \notin queue
  /\ key' = [key EXCEPT ![t] = k]
  /\ UNCHANGED <<queue, out>>

Next ==
  \/ TakeMin
  \/ \E t \in Task : Add(t) \/ Drop(t) \/ \E k \in Key : Rekey(t, k)

Spec == Init /\ [][Next]_<<queue, key, out>>
=============================================================================
