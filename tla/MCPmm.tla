------------------------------- MODULE MCPmm -------------------------------
(* A small instance of Pmm for TLC.                                        *)
EXTENDS Pmm

\* Usable with the bitmap at address 0, reserved, usable.
DescsLow == << [start |-> 0, pages |-> 2, usable |-> TRUE],
               [start |-> 2, pages |-> 1, usable |-> FALSE],
               [start |-> 3, pages |-> 3, usable |-> TRUE] >>

\* The thread maps pages and grows the heap, and may be given the bitmap's own
\* frame; the interrupt does disk I/O (DMA buffers from frame 3 on).
AskBoth == [x \in Context |->
              IF x = "thread" THEN {[n |-> 1, align |-> 1, min |-> 0],
                                    [n |-> 2, align |-> 1, min |-> 0]}
              ELSE {[n |-> 2, align |-> 2, min |-> 3]}]
=============================================================================
