------------------------------- MODULE KHeap -------------------------------
(***************************************************************************)
(* The kernel heap of MemoryControl.c: blocks with a header in front, one  *)
(* doubly linked list of free blocks per size class, and a physical link   *)
(* from every block to the one before it.                                  *)
(*                                                                         *)
(* A call is one step, as it is from a system call or from the timer       *)
(* interrupt (IF=0).  Addresses count from the start of the heap.          *)
(***************************************************************************)
EXTENDS Integers, FiniteSets, FiniteSetsExt

CONSTANTS
  Header,   \* sizeof(km_block_t)
  MinSize,  \* KM_MIN_SIZE
  Classes,  \* KM_SIZE_CLASSES
  Align,    \* what kmalloc rounds a size up to (16)
  Page,     \* PAGE_SIZE
  Limit,    \* bound: where the heap ends when the frames are used up
  Request,  \* the sizes that are asked for
  Null

ASSUME SizeAssumption ==
  /\ Header \in Nat \ {0} /\ MinSize \in Nat \ {0} /\ Classes \in Nat \ {0}
  /\ Align \in Nat \ {0} /\ Page \in Nat \ {0} /\ Limit \in Nat
  /\ MinSize <= Align /\ Page > Header + MinSize
  /\ Request \subseteq Nat \ {0}
  /\ Null \notin Nat

VARIABLES
  heap,   \* g_km, and in heap.blk the header of every block by its address
  asked,  \* history: what was asked for the blocks in use
  seams   \* history: where km_expand has added a block

vars == <<heap, asked, seams>>

-----------------------------------------------------------------------------
(* Helpers of MemoryControl.c, on a heap h                                 *)

RoundUp(n, a) == ((n + a - 1) \div a) * a
ClassSize(c) == MinSize * 2^c
Class(sz) ==
  Min({c \in 0 .. Classes - 1 :
         c = Classes - 1 \/ ClassSize(c) >= RoundUp(sz, MinSize)})

After(h, b) == b + Header + h.blk[b].size

\* f with the value v for x.
With(f, x, v) == [y \in DOMAIN f \cup {x} |-> IF y = x THEN v ELSE f[y]]

\* p and n become neighbours in a free list; either may be null.
Joined(blk, p, n) ==
  [x \in DOMAIN blk |-> IF x = p THEN [blk[x] EXCEPT !.next = n]
                   ELSE IF x = n THEN [blk[x] EXCEPT !.prev = p] ELSE blk[x]]

InsertFree(h, b) ==
  LET c == Class(h.blk[b].size) IN
  [h EXCEPT !.lists[c] = b,
            !.blk = [Joined(@, b, h.lists[c]) EXCEPT ![b].free = TRUE,
                                                     ![b].prev = Null]]

\* Mutant of Unlink: the successor keeps its prev.
UnlinkForward(h, b) ==
  LET c == Class(h.blk[b].size)
      p == h.blk[b].prev
      n == h.blk[b].next
  IN [h EXCEPT !.lists[c] = IF p = Null /\ @ = b THEN n ELSE @,
               !.blk = [x \in DOMAIN @ |->
                          IF x = p THEN [@[x] EXCEPT !.next = n]
                     ELSE IF x = b THEN [@[x] EXCEPT !.next = Null, !.prev = Null]
                     ELSE @[x]]]

\* km_list_unlink: b's size must still be the one it was inserted with.
Unlink(h, b) ==
  LET c == Class(h.blk[b].size)
      p == h.blk[b].prev
      n == h.blk[b].next
  IN [h EXCEPT !.lists[c] = IF p = Null /\ @ = b THEN n ELSE @,
               !.blk = [Joined(@, p, n) EXCEPT ![b].next = Null, ![b].prev = Null]]

\* Mutant of Follow: only last_block is kept.
FollowLast(h, at, b) == IF at < h.end THEN h ELSE [h EXCEPT !.last = b]

\* The block at "at", if there is one, now comes physically after b;
\* otherwise b is the last.
Follow(h, at, b) ==
  IF at < h.end THEN [h EXCEPT !.blk[at].phys = b] ELSE [h EXCEPT !.last = b]

\* The blocks on list c, from its head on.
OnList(h, c) ==
  LET reach[n \in 0 .. Cardinality(DOMAIN h.blk)] ==
        IF n = 0 THEN {h.lists[c]} \ {Null}
        ELSE reach[n - 1] \cup ({h.blk[b].next : b \in reach[n - 1]} \ {Null})
  IN reach[Cardinality(DOMAIN h.blk)]

-----------------------------------------------------------------------------
(* kmalloc                                                                 *)

Init ==
  /\ heap = [lists |-> [c \in 0 .. Classes - 1 |-> Null], end |-> 0,
             used |-> 0, last |-> Null, blk |-> <<>>]
  /\ asked = <<>> /\ seams = {}

\* Mutant of Fits: the size is not compared.
FitsClass(h, b, req) == h.blk[b].free

Fits(h, b, req) == h.blk[b].free /\ h.blk[b].size >= req

\* The blocks km_find_best may return: those that fit best on the lists it
\* walks.  Of several it takes the first it meets.
Best(h, req) ==
  LET fit == {b \in UNION {OnList(h, c) : c \in Class(req) .. Classes - 1} :
                Fits(h, b, req)}
  IN {b \in fit : \A d \in fit : h.blk[b].size <= h.blk[d].size}

Splittable(sz, req) == sz >= req + Header + MinSize

\* The remainder becomes a free block of its own.
Split(h, b, req) ==
  LET rem == b + Header + req
      sz  == h.blk[b].size
      new == [size |-> sz - Header - req, free |-> TRUE,
              next |-> Null, prev |-> Null, phys |-> b]
      cut == [h EXCEPT !.blk = With([@ EXCEPT ![b].size = req], rem, new)]
  IN InsertFree(Follow(cut, b + Header + sz, rem), rem)

Found(h, b, req) ==
  LET u == Unlink(h, b)
      s == IF Splittable(h.blk[b].size, req) THEN Split(u, b, req) ELSE u
  IN [s EXCEPT !.blk[b].free = FALSE]

Charged(h, b, req) == [h EXCEPT !.used = @ + h.blk[b].size + Header]

\* km_expand: a block of whole pages behind the last one.
Grown(req) == RoundUp(req + Header, Page)
Expanded(h, req) ==
  LET new == [size |-> Grown(req) - Header, free |-> TRUE,
              next |-> Null, prev |-> Null, phys |-> h.last]
      h1  == [h EXCEPT !.blk = With(@, h.end, new), !.last = h.end]
  IN [InsertFree(h1, h.end) EXCEPT !.end = @ + Grown(req)]

\* The call returns a block of h for a request of n.
Give(h, n) ==
  LET req == RoundUp(n, Align) IN
  \E b \in Best(h, req) :
    /\ heap' = Charged(Found(h, b, req), b, req)
    /\ asked' = With(asked, b, n)

Kmalloc(n) ==
  /\ Best(heap, RoundUp(n, Align)) # {}
  /\ Give(heap, n)
  /\ UNCHANGED seams

\* No block fits: the heap grows, and the search is repeated.  The expansion
\* may fail for lack of frames or page tables: nothing has changed then.
KmallocExpand(n) ==
  LET req == RoundUp(n, Align) IN
  /\ Best(heap, req) = {}
  /\ heap.end + Grown(req) <= Limit
  /\ Give(Expanded(heap, req), n)
  /\ seams' = seams \cup {heap.end}

-----------------------------------------------------------------------------
(* kfree                                                                   *)

\* a takes in the block b that follows it.
Absorb(h, a, b) ==
  LET grown == [h EXCEPT !.blk[a].size = @ + Header + h.blk[b].size]
      rest  == [x \in DOMAIN h.blk \ {b} |-> grown.blk[x]]
  IN Follow([grown EXCEPT !.blk = rest], After(h, b), a)

MergeNext(h, b) ==
  LET n == After(h, b) IN
  IF n < h.end /\ h.blk[n].free THEN Absorb(Unlink(h, n), b, n) ELSE h

\* Mutant of MergesPrev: only the block behind is merged with.
MergesPrevNever(h, b) == FALSE

MergesPrev(h, b) == h.blk[b].phys # Null /\ h.blk[h.blk[b].phys].free

MergePrev(h, b) ==
  LET p == h.blk[b].phys IN
  IF MergesPrev(h, b) THEN InsertFree(Absorb(Unlink(h, p), p, b), p)
                      ELSE InsertFree(h, b)

\* The caller owns the block.  A second kfree returns at once, a stutter, as
\* long as the old header has not been handed out again.
Kfree(b) ==
  LET freed == [heap EXCEPT !.blk[b].free = TRUE,
                            !.used = @ - (heap.blk[b].size + Header)]
  IN /\ heap' = MergePrev(MergeNext(freed, b), b)
     /\ asked' = [x \in DOMAIN asked \ {b} |-> asked[x]]
     /\ UNCHANGED seams

Next ==
  \/ \E n \in Request : Kmalloc(n) \/ KmallocExpand(n)
  \/ \E b \in DOMAIN asked : Kfree(b)

Spec == Init /\ [][Next]_vars

-----------------------------------------------------------------------------
(* Properties                                                              *)

Block == DOMAIN heap.blk
Used == {b \in Block : ~heap.blk[b].free}

\* The blocks tile the heap: each begins where the one before it ends, and
\* phys_prev and last_block say so: a wrong link merges a block into memory
\* somebody owns.  None is too small to be worth a header, and heap_used counts
\* the bytes of the blocks in use, headers included.
Tiles ==
  /\ heap.end > 0 => 0 \in Block /\ heap.blk[0].phys = Null
  /\ \A b \in Block :
       IF After(heap, b) = heap.end THEN heap.last = b
       ELSE After(heap, b) \in Block /\ heap.blk[After(heap, b)].phys = b
  /\ \A b \in Block : ~\E d \in Block : b < d /\ d < After(heap, b)
  /\ \A b \in Block : heap.blk[b].size >= MinSize
  /\ heap.used = Cardinality(UNION {b .. After(heap, b) - 1 : b \in Used})

\* The free blocks are on the list of their class and only there, each linked
\* back to the one before it: a block in use is on none.
ListsRight ==
  /\ \A c \in 0 .. Classes - 1 :
       OnList(heap, c) = {b \in Block \ Used : Class(heap.blk[b].size) = c}
  /\ \A b \in Block : LET n == heap.blk[b].next IN
                        n # Null => heap.blk[n].prev = b
  /\ \A c \in 0 .. Classes - 1 :
       heap.lists[c] # Null => heap.blk[heap.lists[c]].prev = Null

\* Free neighbours are merged, except across a place where the heap grew:
\* km_expand does not look at the block before, and kfree merges once in each
\* direction.
Coalesced ==
  \A b \in Block \ Used : LET n == After(heap, b) IN
    n < heap.end /\ heap.blk[n].free => n \in seams

\* What the heap is for: regions that never overlap, never shrink and are as
\* long as what was asked for.
Owned == {[at |-> b + Header, len |-> heap.blk[b].size, asked |-> asked[b]] :
            b \in Used}
Heap == INSTANCE Regions WITH regions <- Owned
RefinesRegions == Heap!Spec
=============================================================================
