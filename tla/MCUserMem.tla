------------------------------ MODULE MCUserMem ------------------------------
EXTENDS UserMem, TLC
CONSTANTS p1, p2

Two == {p1, p2}
Swap == Permutations(Two)
TwoLevels == <<16, 8>>
OneName == {"shared"}
Asked == {0, 1, 2, 14}
Hints == {0, 3, 12}
S(at, n, bad) == [p |-> at, n |-> n, bad |-> bad]
\* One of two segments, one with a bad segment, one that leaves user space.
Files == {
  [dyn |-> TRUE,  segs |-> <<S(0, 1, FALSE), S(5, 0, TRUE), S(3, 1, FALSE)>>],
  [dyn |-> FALSE, segs |-> <<S(0, 1, FALSE), S(1, 1, TRUE)>>],
  [dyn |-> FALSE, segs |-> <<S(1, 1, FALSE), S(12, 2, FALSE)>>],
  [dyn |-> FALSE, segs |-> <<S(0, 1, FALSE), S(0, 1, FALSE), S(1, 1, FALSE)>>],
  [dyn |-> FALSE, segs |-> <<S(0, 0, FALSE)>>]}
=============================================================================
