------------------------------ MODULE MCKHeap ------------------------------
(* A small instance of KHeap for TLC: the unit is a header.                  *)
EXTENDS KHeap
=============================================================================
