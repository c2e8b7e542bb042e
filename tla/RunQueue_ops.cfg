\* Seven tasks and six slots: a queue of three levels that fills up, where
\* rq_remove can move a task down or up.
SPECIFICATION Spec
CONSTANTS
  a = a
  b = b
  c = c
  d = d
  e = e
  f = f
  g = g
  Task = {a, b, c, d, e, f, g}
  Null = Null
  Key = {0, 1}
  Cap = 6
SYMMETRY Symmetry
INVARIANTS IndexRight RootIsLeast
PROPERTIES RefinesPriorityQueue
