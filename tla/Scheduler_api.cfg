\* Kernel threads that yield, sleep and exit, woken by threads; system calls
\* of c create, exit and yield.
SPECIFICATION Spec
CONSTANTS
  a = a
  b = b
  c = c
  Idle = Idle
  Null = Null
  Task = {a, b, c}
  Boot <- BootAC
  User <- OnlyC
  Ops = {"exit", "yield", "sleep", "wake", "clone"}
  Weight <- WeightOf
  Nice0 = 2
  Slice = 2
  Cap = 3
  TickLens = {1, 2}
  StartTime = 2
  MaxTime = 10
  MaxTid = 3
INVARIANTS CurrentApart
PROPERTIES QueuedKeysFrozen
CHECK_DEADLOCK FALSE
