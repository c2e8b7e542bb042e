\* The kernel threads of main.c: they compute and exit.
SPECIFICATION Spec
CONSTANTS
  a = a
  b = b
  c = c
  Idle = Idle
  Null = Null
  Task = {a, b, c}
  Boot <- BootABC
  User = {}
  Ops = {"exit"}
  Weight <- WeightOf
  Nice0 = 2
  Slice = 2
  Cap = 3
  TickLens = {1, 3}
  StartTime = 2
  MaxTime = 9
  MaxTid = 3
INVARIANTS NoLostTask LiveListed MinIsFloor AccountingExact FairShare
PROPERTIES ZombieStaysDead
CHECK_DEADLOCK FALSE
