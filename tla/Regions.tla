------------------------------ MODULE Regions ------------------------------
(***************************************************************************)
(* What kmalloc and kfree promise: disjoint regions of memory, each at     *)
(* least as long as what was asked for, which stay until they are freed.   *)
(***************************************************************************)
EXTENDS Integers

CONSTANTS
  Limit,    \* the addresses are those below
  Request   \* the sizes that may be asked for

VARIABLE regions  \* records [at, len, asked]

Region == [at : 0 .. Limit, len : 0 .. Limit, asked : Request]
Apart(r, s) == r.at + r.len <= s.at \/ s.at + s.len <= r.at

Init == regions = {}

Give ==
  \E r \in Region :
    /\ r.len >= r.asked /\ r.at + r.len <= Limit
    /\ \A s \in regions : Apart(r, s)
    /\ regions' = regions \cup {r}

Take == \E r \in regions : regions' = regions \ {r}

Spec == Init /\ [][Give \/ Take]_regions
=============================================================================
