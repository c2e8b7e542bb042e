----------------------------- MODULE MCRunQueue -----------------------------
(* A small instance of RunQueue for TLC.                                     *)
EXTENDS RunQueue, TLC

CONSTANTS a, b, c, d, e, f, g

Symmetry == Permutations({a, b, c, d, e, f, g})
=============================================================================
