----------------------------- MODULE MCScheduler -----------------------------
(* Small instances of Scheduler for TLC.                                     *)
EXTENDS Scheduler

CONSTANTS a, b, c

\* main.c creates worker_a and worker_b, of priorities 0 and -5; the weights
\* keep their order and the rounding of the division.
BootABC == <<a, b, c>>
BootAC  == <<a, c>>
WeightOf == [t \in Task |-> IF t = b THEN 3 ELSE 2]
OnlyC == {c}
=============================================================================
