---------------------------- MODULE KHeapProofs ----------------------------
(***************************************************************************)
(* For every size of header and page, every set of requests and every      *)
(* sequence of calls: the blocks tile the heap, the free lists hold the    *)
(* free blocks, free neighbours are merged except where the heap grew, and *)
(* the callers have disjoint regions as long as they asked for.            *)
(***************************************************************************)
EXTENDS KHeap, FiniteSetTheorems, WellFoundedInduction, TLAPS

Ptr == Nat \cup {Null}
Rec == [size : Nat, free : BOOLEAN, next : Ptr, prev : Ptr, phys : Ptr]
ClassIndex == 0 .. Classes - 1

\* The heaps whose blocks are at the addresses D.
HeapOn(D) == [lists : [ClassIndex -> Ptr], end : Nat, used : Int, last : Ptr,
              blk : [D -> Rec]]

-----------------------------------------------------------------------------
(* Numbers: the least of a set, rounding, size classes                     *)

LEMMA LeastNat ==
  ASSUME NEW S \in SUBSET Nat, S # {}
  PROVE  \E m \in S : \A n \in S : m <= n
<1> DEFINE R == {p \in Nat \X Nat : p[1] < p[2]}
<1>1. IsWellFoundedOn(R, Nat)
  BY NatLessThanWellFounded, Zenon DEF OpToRel
<1>2. PICK m \in S : \A n \in S : <<n, m>> \notin R
  <2> HIDE DEF R
  <2> QED
    BY <1>1, WFMin
<1>3. \A n \in S : m <= n
  <2> SUFFICES ASSUME NEW n \in S, n < m PROVE FALSE
    OBVIOUS
  <2>1. <<n, m>> \in Nat \X Nat /\ <<n, m>>[1] < <<n, m>>[2]
    OBVIOUS
  <2>2. <<n, m>> \in R
    BY <2>1
  <2> QED
    BY <1>2, <2>2
<1> QED
  BY <1>3

LEMMA NatConstants ==
  /\ Header \in Nat \ {0} /\ MinSize \in Nat \ {0} /\ Classes \in Nat \ {0}
  /\ Align \in Nat \ {0} /\ Page \in Nat \ {0} /\ Limit \in Nat
  /\ MinSize <= Align /\ Request \subseteq Nat \ {0} /\ Null \notin Nat
  BY SizeAssumption

\* Rounding up loses nothing, and a size that is asked for becomes a whole unit.
LEMMA RoundUpRight ==
  ASSUME NEW n \in Nat \ {0}, NEW a \in Nat \ {0}
  PROVE  RoundUp(n, a) \in Nat /\ n <= RoundUp(n, a) /\ a <= RoundUp(n, a)
<1> DEFINE q == ((n + a) - 1) \div a
<1>1. q \in Nat /\ q # 0
  OBVIOUS
<1>2. n <= q * a
  OBVIOUS
<1>3. q * a \in Nat
  BY <1>1
<1>4. a <= q * a
  <2> HIDE DEF q
  <2>1. PICK r \in Nat : q = r + 1
    <3>1. q - 1 \in Nat /\ q = (q - 1) + 1
      BY <1>1
    <3> QED
      BY <3>1
  <2>2. q * a = r * a + a
    BY <2>1
  <2>3. r * a \in Nat
    OBVIOUS
  <2> QED
    BY <2>2, <2>3
<1> QED
  BY <1>2, <1>3, <1>4 DEF RoundUp

LEMMA ClassRight == \A sz \in Nat : Class(sz) \in ClassIndex
<1> SUFFICES ASSUME NEW sz \in Nat PROVE Class(sz) \in ClassIndex
  OBVIOUS
<1> DEFINE P(c) == c = Classes - 1 \/ ClassSize(c) >= RoundUp(sz, MinSize)
           S == {c \in 0 .. Classes - 1 : P(c)}
<1>1. Classes - 1 \in S
  BY NatConstants
<1>2. S \in SUBSET Nat
  OBVIOUS
<1>3. Class(sz) = Min(S)
  BY DEF Class
<1> HIDE DEF S
<1>4. \E m \in S : \A n \in S : m <= n
  BY <1>1, <1>2, LeastNat
<1>5. Min(S) \in S
  BY <1>4 DEF Min
<1> QED
  BY <1>3, <1>5 DEF S, ClassIndex

-----------------------------------------------------------------------------
(* What the helpers do to each field                                       *)

\* The heaps h and u, both with the blocks D, differ in their lists at most.
SameBlocks(D, h, u) ==
  /\ u \in HeapOn(D) /\ u.end = h.end /\ u.used = h.used /\ u.last = h.last
  /\ \A x \in D : u.blk[x].size = h.blk[x].size /\ u.blk[x].phys = h.blk[x].phys

JoinedTo(D, blk, p, n, j) ==
  /\ j \in [D -> Rec]
  /\ \A x \in D :
       /\ j[x].size = blk[x].size /\ j[x].phys = blk[x].phys /\ j[x].free = blk[x].free
       /\ j[x].next = IF x = p THEN n ELSE blk[x].next
       /\ j[x].prev = IF x = n /\ x # p THEN p ELSE blk[x].prev

LEMMA JoinedFields ==
  ASSUME NEW D \in SUBSET Nat, NEW blk \in [D -> Rec], NEW p \in Ptr, NEW n \in Ptr
  PROVE  JoinedTo(D, blk, p, n, Joined(blk, p, n))
<1>1. ASSUME NEW x \in D
      PROVE  /\ [blk[x] EXCEPT !.next = n] \in Rec /\ [blk[x] EXCEPT !.prev = p] \in Rec
             /\ blk[x] \in Rec
  BY DEF Rec
<1>2. DOMAIN blk = D
  OBVIOUS
<1>3. Joined(blk, p, n) = [x \in D |-> IF x = p THEN [blk[x] EXCEPT !.next = n]
                             ELSE IF x = n THEN [blk[x] EXCEPT !.prev = p] ELSE blk[x]]
  BY <1>2 DEF Joined
<1>4. Joined(blk, p, n) \in [D -> Rec]
  BY <1>1, <1>3
<1>5. ASSUME NEW x \in D
      PROVE  LET r == Joined(blk, p, n)[x] IN
              /\ r.size = blk[x].size /\ r.phys = blk[x].phys /\ r.free = blk[x].free
              /\ r.next = IF x = p THEN n ELSE blk[x].next
              /\ r.prev = IF x = n /\ x # p THEN p ELSE blk[x].prev
  BY <1>1, <1>3 DEF Rec
<1> QED
  BY <1>4, <1>5 DEF JoinedTo

\* b leaves the list of class c, where it stood between p and n.
Unlinked(D, h, b, c, p, n, u) ==
  /\ SameBlocks(D, h, u)
  /\ \A x \in D :
       /\ u.blk[x].free = h.blk[x].free
       /\ u.blk[x].next = IF x = b THEN Null ELSE IF x = p THEN n ELSE h.blk[x].next
       /\ u.blk[x].prev = IF x = b THEN Null ELSE IF x = n THEN p ELSE h.blk[x].prev
  /\ \A d \in ClassIndex :
       u.lists[d] = IF d = c /\ p = Null /\ h.lists[d] = b THEN n ELSE h.lists[d]

LEMMA FlagRecord ==
  ASSUME NEW q \in Rec, NEW v
  PROVE  [q EXCEPT !.free = v]
           = [size |-> q.size, free |-> v, next |-> q.next, prev |-> q.prev, phys |-> q.phys]
  BY DEF Rec

LEMMA HeadRecord ==
  ASSUME NEW q \in Rec
  PROVE  [q EXCEPT !.prev = Null]
           = [size |-> q.size, free |-> q.free, next |-> q.next, prev |-> Null, phys |-> q.phys]
  BY DEF Rec

LEMMA AloneRecord ==
  ASSUME NEW q \in Rec
  PROVE  [q EXCEPT !.next = Null, !.prev = Null]
           = [size |-> q.size, free |-> q.free, next |-> Null, prev |-> Null, phys |-> q.phys]
<1>1. PICK q1 \in Rec :
        /\ q1.size = q.size /\ q1.free = q.free /\ q1.next = Null /\ q1.phys = q.phys
        /\ q1 = [q EXCEPT !.next = Null]
  <2> DEFINE q1 == [q EXCEPT !.next = Null]
  <2>1. q1 \in Rec /\ q1.size = q.size /\ q1.free = q.free /\ q1.next = Null /\ q1.phys = q.phys
    BY DEF Rec, Ptr
  <2> HIDE DEF q1
  <2>2. q1 = q1
    OBVIOUS
  <2> USE DEF q1
  <2> QED
    BY <2>1, <2>2
<1>2. [q EXCEPT !.next = Null, !.prev = Null] = [q1 EXCEPT !.prev = Null]
  BY <1>1
<1> QED
  BY <1>1, <1>2, HeadRecord

LEMMA UnlinkFields ==
  ASSUME NEW D \in SUBSET Nat, NEW h \in HeapOn(D), NEW b \in D,
         h.blk[b].prev # b, h.blk[b].next # b,
         h.blk[b].prev = h.blk[b].next => h.blk[b].prev = Null
  PROVE  Unlinked(D, h, b, Class(h.blk[b].size), h.blk[b].prev, h.blk[b].next,
                  Unlink(h, b))
<1> DEFINE p == h.blk[b].prev
           n == h.blk[b].next
           c == Class(h.blk[b].size)
           j == Joined(h.blk, p, n)
           k == [j EXCEPT ![b].next = Null, ![b].prev = Null]
           u == Unlink(h, b)
           lists == [h.lists EXCEPT ![c] = IF p = Null /\ @ = b THEN n ELSE @]
<1>1. /\ h.blk \in [D -> Rec] /\ h.lists \in [ClassIndex -> Ptr] /\ h.blk[b] \in Rec
      /\ h.end \in Nat /\ h.used \in Int /\ h.last \in Ptr
  BY DEF HeapOn
<1>2. p \in Ptr /\ n \in Ptr /\ c \in ClassIndex
  BY <1>1, ClassRight DEF Rec
<1>3. /\ j \in [D -> Rec]
      /\ \A x \in D :
              /\ j[x].size = h.blk[x].size /\ j[x].phys = h.blk[x].phys
              /\ j[x].free = h.blk[x].free
              /\ j[x].next = IF x = p THEN n ELSE h.blk[x].next
              /\ j[x].prev = IF x = n /\ x # p THEN p ELSE h.blk[x].prev
  <2> HIDE DEF p, n, j
  <2>1. JoinedTo(D, h.blk, p, n, j)
    <3> USE DEF j
    <3> HIDE DEF p, n
    <3> QED
      BY <1>1, <1>2, JoinedFields
  <2> QED
    BY <2>1 DEF JoinedTo
<1>4. u = [h EXCEPT !.lists = lists, !.blk = k]
  BY DEF Unlink
<1>5. /\ k \in [D -> Rec]
      /\ \A x \in D : /\ k[x].size = j[x].size /\ k[x].phys = j[x].phys
                      /\ k[x].free = j[x].free
                      /\ k[x].next = IF x = b THEN Null ELSE j[x].next
                      /\ k[x].prev = IF x = b THEN Null ELSE j[x].prev
  <2> HIDE DEF j
  <2> DEFINE r == [size |-> j[b].size, free |-> j[b].free, next |-> Null,
                   prev |-> Null, phys |-> j[b].phys]
  <2>1. j \in [D -> Rec] /\ j[b] \in Rec
    BY <1>3
  <2>2. k = [j EXCEPT ![b] = r]
    <3>1. k = [j EXCEPT ![b] = [j[b] EXCEPT !.next = Null, !.prev = Null]]
      BY <2>1
    <3>2. [j[b] EXCEPT !.next = Null, !.prev = Null] = r
      BY <2>1, AloneRecord
    <3> HIDE DEF k, r
    <3> QED
      BY <3>1, <3>2
  <2>3. r \in Rec
    BY <2>1 DEF Rec, Ptr
  <2>4. /\ r.size = j[b].size /\ r.phys = j[b].phys /\ r.free = j[b].free
        /\ r.next = Null /\ r.prev = Null
    OBVIOUS
  <2> HIDE DEF k, r
  <2>5. /\ k \in [D -> Rec] /\ k[b] = r
        /\ \A x \in D : x # b => k[x] = j[x]
    BY <2>1, <2>2, <2>3
  <2> QED
    BY <2>4, <2>5
<1>6. lists \in [ClassIndex -> Ptr]
  BY <1>1, <1>2
<1>7. /\ u.lists = lists /\ u.blk = k /\ u.end = h.end /\ u.used = h.used
      /\ u.last = h.last /\ u \in HeapOn(D)
  <2> HIDE DEF lists, k, u
  <2> QED
    BY <1>1, <1>4, <1>5, <1>6 DEF HeapOn
<1>8. \A d \in ClassIndex :
        lists[d] = IF d = c /\ p = Null /\ h.lists[d] = b THEN n ELSE h.lists[d]
  <2> HIDE DEF p, n, c
  <2> QED
    BY <1>1, <1>2
<1>9. SameBlocks(D, h, u)
  <2> HIDE DEF lists, k, u, j
  <2> QED
    BY <1>3, <1>5, <1>7 DEF SameBlocks
<1>10. \A x \in D :
          /\ u.blk[x].free = h.blk[x].free
          /\ u.blk[x].next = IF x = b THEN Null ELSE IF x = p THEN n ELSE h.blk[x].next
          /\ u.blk[x].prev = IF x = b THEN Null ELSE IF x = n THEN p ELSE h.blk[x].prev
  <2>1. p = n => p = Null
    OBVIOUS
  <2>2. Null \notin D
    BY NatConstants
  <2> HIDE DEF lists, k, u, j, p, n
  <2> QED
    BY <1>3, <1>5, <1>7, <2>1, <2>2
<1> QED
  <2> SUFFICES Unlinked(D, h, b, c, p, n, u)
    OBVIOUS
  <2>1. u.lists = lists
    BY <1>7
  <2> HIDE DEF lists, k, u, j, c, p, n
  <2> QED
    BY <2>1, <1>8, <1>9, <1>10 DEF Unlinked

\* b becomes the head of the list of class c, before n.
Inserted(D, h, b, c, n, u) ==
  /\ SameBlocks(D, h, u)
  /\ \A x \in D :
       /\ u.blk[x].free = IF x = b THEN TRUE ELSE h.blk[x].free
       /\ u.blk[x].next = IF x = b THEN n ELSE h.blk[x].next
       /\ u.blk[x].prev = IF x = b THEN Null ELSE IF x = n THEN b ELSE h.blk[x].prev
  /\ \A d \in ClassIndex : u.lists[d] = IF d = c THEN b ELSE h.lists[d]

LEMMA FreedRecord ==
  ASSUME NEW q \in Rec
  PROVE  [q EXCEPT !.free = TRUE, !.prev = Null]
           = [size |-> q.size, free |-> TRUE, next |-> q.next, prev |-> Null, phys |-> q.phys]
<1>1. PICK q1 \in Rec :
        /\ q1.size = q.size /\ q1.free = TRUE /\ q1.next = q.next /\ q1.phys = q.phys
        /\ q1 = [q EXCEPT !.free = TRUE]
  <2> DEFINE q1 == [q EXCEPT !.free = TRUE]
  <2>1. q1 \in Rec /\ q1.size = q.size /\ q1.free = TRUE /\ q1.next = q.next /\ q1.phys = q.phys
    BY DEF Rec
  <2> HIDE DEF q1
  <2>2. q1 = q1
    OBVIOUS
  <2> USE DEF q1
  <2> QED
    BY <2>1, <2>2
<1>2. [q EXCEPT !.free = TRUE, !.prev = Null] = [q1 EXCEPT !.prev = Null]
  BY <1>1
<1> QED
  BY <1>1, <1>2, HeadRecord

LEMMA InsertFields ==
  ASSUME NEW D \in SUBSET Nat, NEW h \in HeapOn(D), NEW b \in D,
         h.lists[Class(h.blk[b].size)] # b
  PROVE  Inserted(D, h, b, Class(h.blk[b].size), h.lists[Class(h.blk[b].size)],
                  InsertFree(h, b))
<1> DEFINE c == Class(h.blk[b].size)
           n == h.lists[c]
           j == Joined(h.blk, b, n)
           k == [j EXCEPT ![b].free = TRUE, ![b].prev = Null]
           u == InsertFree(h, b)
           lists == [h.lists EXCEPT ![c] = b]
<1>1. /\ h.blk \in [D -> Rec] /\ h.lists \in [ClassIndex -> Ptr] /\ h.blk[b] \in Rec
      /\ h.end \in Nat /\ h.used \in Int /\ h.last \in Ptr
  BY DEF HeapOn
<1>2. n \in Ptr /\ b \in Ptr /\ c \in ClassIndex
  <2>1. c \in ClassIndex
    BY <1>1, ClassRight DEF Rec
  <2> QED
    BY <1>1, <2>1 DEF Ptr
<1>3. /\ j \in [D -> Rec]
      /\ \A x \in D :
              /\ j[x].size = h.blk[x].size /\ j[x].phys = h.blk[x].phys
              /\ j[x].free = h.blk[x].free
              /\ j[x].next = IF x = b THEN n ELSE h.blk[x].next
              /\ j[x].prev = IF x = n /\ x # b THEN b ELSE h.blk[x].prev
  <2> HIDE DEF n, j
  <2>1. JoinedTo(D, h.blk, b, n, j)
    <3> USE DEF j
    <3> HIDE DEF n
    <3> QED
      BY <1>1, <1>2, JoinedFields
  <2> QED
    BY <2>1 DEF JoinedTo
<1>4. u = [h EXCEPT !.lists = lists, !.blk = k]
  BY DEF InsertFree
<1>5. /\ k \in [D -> Rec]
      /\ \A x \in D : /\ k[x].size = j[x].size /\ k[x].phys = j[x].phys
                      /\ k[x].free = IF x = b THEN TRUE ELSE j[x].free
                      /\ k[x].next = j[x].next
                      /\ k[x].prev = IF x = b THEN Null ELSE j[x].prev
  <2> HIDE DEF j
  <2> DEFINE r == [size |-> j[b].size, free |-> TRUE, next |-> j[b].next,
                   prev |-> Null, phys |-> j[b].phys]
  <2>1. j \in [D -> Rec] /\ j[b] \in Rec
    BY <1>3
  <2>2. k = [j EXCEPT ![b] = r]
    <3>1. k = [j EXCEPT ![b] = [j[b] EXCEPT !.free = TRUE, !.prev = Null]]
      BY <2>1
    <3>2. [j[b] EXCEPT !.free = TRUE, !.prev = Null] = r
      BY <2>1, FreedRecord
    <3> HIDE DEF k, r
    <3> QED
      BY <3>1, <3>2
  <2>3. r \in Rec
    BY <2>1 DEF Rec, Ptr
  <2>4. /\ r.size = j[b].size /\ r.phys = j[b].phys /\ r.free = TRUE
        /\ r.next = j[b].next /\ r.prev = Null
    OBVIOUS
  <2> HIDE DEF k, r
  <2>5. /\ k \in [D -> Rec] /\ k[b] = r
        /\ \A x \in D : x # b => k[x] = j[x]
    BY <2>1, <2>2, <2>3
  <2> QED
    BY <2>4, <2>5
<1>6. lists \in [ClassIndex -> Ptr]
  BY <1>1, <1>2
<1>7. /\ u.lists = lists /\ u.blk = k /\ u.end = h.end /\ u.used = h.used
      /\ u.last = h.last /\ u \in HeapOn(D)
  <2> HIDE DEF lists, k, u
  <2> QED
    BY <1>1, <1>4, <1>5, <1>6 DEF HeapOn
<1>8. \A d \in ClassIndex : lists[d] = IF d = c THEN b ELSE h.lists[d]
  <2> HIDE DEF c
  <2> QED
    BY <1>1, <1>2
<1>9. SameBlocks(D, h, u)
  <2> HIDE DEF lists, k, u, j
  <2>1. ASSUME NEW x \in D
        PROVE  u.blk[x].size = h.blk[x].size /\ u.blk[x].phys = h.blk[x].phys
    <3>1. k[x].size = j[x].size /\ k[x].phys = j[x].phys
      BY <1>5
    <3>2. j[x].size = h.blk[x].size /\ j[x].phys = h.blk[x].phys
      BY <1>3
    <3>3. u.blk = k
      BY <1>7
    <3> QED
      BY <3>1, <3>2, <3>3
  <2> QED
    BY <1>7, <2>1 DEF SameBlocks
<1>10. \A x \in D :
          /\ u.blk[x].free = IF x = b THEN TRUE ELSE h.blk[x].free
          /\ u.blk[x].next = IF x = b THEN n ELSE h.blk[x].next
          /\ u.blk[x].prev = IF x = b THEN Null ELSE IF x = n THEN b ELSE h.blk[x].prev
  <2> HIDE DEF lists, k, u, j, n
  <2> SUFFICES ASSUME NEW x \in D
               PROVE  /\ u.blk[x].free = IF x = b THEN TRUE ELSE h.blk[x].free
                      /\ u.blk[x].next = IF x = b THEN n ELSE h.blk[x].next
                      /\ u.blk[x].prev = IF x = b THEN Null
                                         ELSE IF x = n THEN b ELSE h.blk[x].prev
    OBVIOUS
  <2>1. /\ k[x].free = IF x = b THEN TRUE ELSE j[x].free
        /\ k[x].next = j[x].next
        /\ k[x].prev = IF x = b THEN Null ELSE j[x].prev
    BY <1>5
  <2>2. /\ j[x].free = h.blk[x].free
        /\ j[x].next = IF x = b THEN n ELSE h.blk[x].next
        /\ j[x].prev = IF x = n /\ x # b THEN b ELSE h.blk[x].prev
    BY <1>3
  <2>3. u.blk = k
    BY <1>7
  <2> QED
    BY <2>1, <2>2, <2>3
<1> QED
  <2> SUFFICES Inserted(D, h, b, c, n, u)
    OBVIOUS
  <2>1. u.lists = lists
    BY <1>7
  <2> HIDE DEF lists, k, u, j, c, n
  <2> QED
    BY <2>1, <1>8, <1>9, <1>10 DEF Inserted

-----------------------------------------------------------------------------
(* The free lists                                                          *)

Cls(h, b) == Class(h.blk[b].size)

NextRight(h, F) ==
  \A b \in F : LET n == h.blk[b].next IN
    n # Null => n \in F /\ h.blk[n].prev = b /\ Cls(h, n) = Cls(h, b)

PrevRight(h, F) ==
  \A b \in F : LET p == h.blk[b].prev IN
    IF p = Null THEN h.lists[Cls(h, b)] = b ELSE p \in F /\ h.blk[p].next = b

HeadsRight(h, F) ==
  \A c \in ClassIndex : LET b == h.lists[c] IN
    b # Null => b \in F /\ Cls(h, b) = c /\ h.blk[b].prev = Null

RestAlone(D, h, F) == \A b \in D \ F : h.blk[b].next = Null /\ h.blk[b].prev = Null

\* Going back along a list one leaves every set of blocks at last.
NoLoop(h, F) == \A X \in SUBSET F : X # {} => \E b \in X : h.blk[b].prev \notin X

\* The blocks F, and no others, are on the lists.
Linked(D, h, F) ==
  /\ F \subseteq D
  /\ NextRight(h, F) /\ PrevRight(h, F) /\ HeadsRight(h, F)
  /\ RestAlone(D, h, F) /\ NoLoop(h, F)

LEMMA HeapFields ==
  ASSUME NEW D \in SUBSET Nat, NEW h \in HeapOn(D)
  PROVE  /\ h.lists \in [ClassIndex -> Ptr] /\ h.end \in Nat /\ h.used \in Int
         /\ h.last \in Ptr /\ h.blk \in [D -> Rec]
         /\ \A x \in D : /\ h.blk[x].size \in Nat /\ h.blk[x].free \in BOOLEAN
                         /\ h.blk[x].next \in Ptr /\ h.blk[x].prev \in Ptr
                         /\ h.blk[x].phys \in Ptr /\ Cls(h, x) \in ClassIndex
                         /\ After(h, x) \in Nat /\ x < After(h, x)
<1>1. /\ h.lists \in [ClassIndex -> Ptr] /\ h.end \in Nat /\ h.used \in Int
      /\ h.last \in Ptr /\ h.blk \in [D -> Rec]
  BY DEF HeapOn
<1>2. ASSUME NEW x \in D
      PROVE  /\ h.blk[x].size \in Nat /\ h.blk[x].free \in BOOLEAN
             /\ h.blk[x].next \in Ptr /\ h.blk[x].prev \in Ptr /\ h.blk[x].phys \in Ptr
  <2>1. h.blk[x] \in Rec
    BY <1>1
  <2> QED
    BY <2>1 DEF Rec
<1>3. ASSUME NEW x \in D
      PROVE  Cls(h, x) \in ClassIndex /\ After(h, x) \in Nat /\ x < After(h, x)
  <2>1. h.blk[x].size \in Nat
    BY <1>2
  <2>2. Cls(h, x) \in ClassIndex
    BY <2>1, ClassRight DEF Cls
  <2> QED
    BY <2>1, <2>2, NatConstants DEF After
<1> QED
  BY <1>1, <1>2, <1>3

\* Where a listed block stands.
LEMMA Neighbours ==
  ASSUME NEW D \in SUBSET Nat, NEW h \in HeapOn(D), NEW F, Linked(D, h, F), NEW b \in F
  PROVE  LET p == h.blk[b].prev
             n == h.blk[b].next
         IN p # b /\ n # b /\ (p = n => p = Null)
<1> DEFINE p == h.blk[b].prev
           n == h.blk[b].next
<1>1. p # b
  <2>1. \E x \in {b} : h.blk[x].prev \notin {b}
    BY DEF Linked, NoLoop
  <2> QED
    BY <2>1
<1>2. n # b
  <2>1. n # Null => h.blk[n].prev = b
    BY DEF Linked, NextRight
  <2>2. b # Null
    BY NatConstants DEF Linked
  <2> QED
    BY <1>1, <2>1, <2>2
<1>3. ASSUME p = n, p # Null
      PROVE  FALSE
  <2>1. n \in F /\ h.blk[n].prev = b
    BY <1>3 DEF Linked, NextRight
  <2>2. {b, n} \in SUBSET F /\ {b, n} # {}
    BY <2>1
  <2>3. \E x \in {b, n} : h.blk[x].prev \notin {b, n}
    BY <2>2 DEF Linked, NoLoop
  <2> QED
    BY <1>3, <2>1, <2>3
<1> QED
  BY <1>1, <1>2, <1>3

LEMMA UnlinkRight ==
  ASSUME NEW D \in SUBSET Nat, NEW h \in HeapOn(D), NEW F, Linked(D, h, F), NEW b \in F
  PROVE  /\ Unlinked(D, h, b, Cls(h, b), h.blk[b].prev, h.blk[b].next, Unlink(h, b))
         /\ Linked(D, Unlink(h, b), F \ {b})
<1> DEFINE p == h.blk[b].prev
           n == h.blk[b].next
           c == Cls(h, b)
           u == Unlink(h, b)
           G == F \ {b}
<1>1. F \subseteq D /\ b \in D /\ Null \notin D
  BY NatConstants DEF Linked
<1>2. p # b /\ n # b /\ (p = n => p = Null)
  BY Neighbours
<1>3. Unlinked(D, h, b, c, p, n, u)
  BY <1>1, <1>2, UnlinkFields DEF Cls
<1>4. /\ n # Null => n \in F /\ h.blk[n].prev = b /\ Cls(h, n) = c
      /\ IF p = Null THEN h.lists[c] = b ELSE p \in F /\ h.blk[p].next = b
  BY DEF Linked, NextRight, PrevRight
<1>5. ASSUME p # Null
      PROVE  Cls(h, p) = c
  <2>1. p \in F /\ h.blk[p].next = b /\ b # Null
    BY <1>1, <1>4, <1>5
  <2>2. NextRight(h, F)
    BY DEF Linked
  <2> HIDE DEF p, c
  <2>3. Cls(h, b) = Cls(h, p)
    BY <2>1, <2>2 DEF NextRight
  <2> QED
    BY <2>3 DEF c
<1>6. c \in ClassIndex
  BY <1>1, HeapFields
<1> HIDE DEF u, p, n, c
<1>7. /\ u \in HeapOn(D)
      /\ \A x \in D : Cls(u, x) = Cls(h, x)
  BY <1>3 DEF Unlinked, SameBlocks, Cls
<1>8. /\ \A x \in G : u.blk[x].next = IF x = p THEN n ELSE h.blk[x].next
      /\ \A x \in G : u.blk[x].prev = IF x = n THEN p ELSE h.blk[x].prev
      /\ u.blk[b].next = Null /\ u.blk[b].prev = Null
      /\ \A x \in D \ F : /\ u.blk[x].next = IF x = p THEN n ELSE h.blk[x].next
                          /\ u.blk[x].prev = IF x = n THEN p ELSE h.blk[x].prev
      /\ \A d \in ClassIndex :
           u.lists[d] = IF d = c /\ p = Null /\ h.lists[d] = b THEN n ELSE h.lists[d]
  BY <1>1, <1>3 DEF Unlinked
<1>9. NextRight(u, G)
  <2> SUFFICES ASSUME NEW x \in G, u.blk[x].next # Null
               PROVE  /\ u.blk[x].next \in G /\ u.blk[u.blk[x].next].prev = x
                      /\ Cls(u, u.blk[x].next) = Cls(u, x)
    BY DEF NextRight
  <2>1. CASE x = p
    <3>1. u.blk[x].next = n /\ n \in G /\ u.blk[n].prev = p
      BY <1>2, <1>4, <1>8, <2>1
    <3> QED
      BY <1>1, <1>4, <1>5, <1>7, <2>1, <3>1
  <2>2. CASE x # p
    <3>1. u.blk[x].next = h.blk[x].next
      BY <1>8, <2>2
    <3>2. PICK m : m = h.blk[x].next
      OBVIOUS
    <3>3. m \in F /\ h.blk[m].prev = x /\ Cls(h, m) = Cls(h, x)
      BY <3>1, <3>2 DEF Linked, NextRight
    <3>4. m # b
      BY <2>2, <3>3 DEF p
    <3>5. m # n
      BY <1>1, <1>4, <3>3
    <3>6. u.blk[m].prev = x
      BY <1>8, <3>3, <3>4, <3>5
    <3> QED
      BY <1>1, <1>7, <3>1, <3>2, <3>3, <3>4, <3>6
  <2> QED
    BY <2>1, <2>2
<1>10. PrevRight(u, G)
  <2> SUFFICES ASSUME NEW x \in G
               PROVE  IF u.blk[x].prev = Null THEN u.lists[Cls(u, x)] = x
                      ELSE u.blk[x].prev \in G /\ u.blk[u.blk[x].prev].next = x
    BY DEF PrevRight
  <2>1. CASE x = n
    <3>1. u.blk[x].prev = p
      BY <1>8, <2>1
    <3>2. CASE p = Null
      BY <1>1, <1>4, <1>6, <1>7, <1>8, <2>1, <3>1, <3>2
    <3>3. CASE p # Null
      BY <1>2, <1>4, <1>8, <2>1, <3>1, <3>3
    <3> QED
      BY <3>2, <3>3
  <2>2. CASE x # n
    <3>1. PICK m : m = h.blk[x].prev
      OBVIOUS
    <3>2. u.blk[x].prev = m
      BY <1>8, <2>2, <3>1
    <3>3. IF m = Null THEN h.lists[Cls(h, x)] = x ELSE m \in F /\ h.blk[m].next = x
      BY <3>1 DEF Linked, PrevRight
    <3>4. CASE m = Null
      <4>1. Cls(h, x) \in ClassIndex
        BY <1>1, HeapFields
      <4> QED
        BY <1>1, <1>7, <1>8, <3>2, <3>3, <3>4, <4>1
    <3>5. CASE m # Null
      <4>1. m # b
        BY <2>2, <3>3, <3>5 DEF n
      <4>2. m # p
        BY <1>4, <3>3, <3>5
      <4> QED
        BY <1>8, <3>2, <3>3, <3>5, <4>1, <4>2
    <3> QED
      BY <3>4, <3>5
  <2> QED
    BY <2>1, <2>2
<1>11. HeadsRight(u, G)
  <2> SUFFICES ASSUME NEW d \in ClassIndex, u.lists[d] # Null
               PROVE  /\ u.lists[d] \in G /\ Cls(u, u.lists[d]) = d
                      /\ u.blk[u.lists[d]].prev = Null
    BY DEF HeadsRight
  <2>1. CASE d = c /\ p = Null /\ h.lists[d] = b
    <3>1. u.lists[d] = n
      BY <1>8, <2>1
    <3>2. n \in G /\ Cls(h, n) = d
      BY <1>2, <1>4, <2>1, <3>1
    <3>3. u.blk[n].prev = Null
      BY <1>8, <2>1, <3>2
    <3> QED
      BY <1>1, <1>7, <3>1, <3>2, <3>3
  <2>2. CASE ~(d = c /\ p = Null /\ h.lists[d] = b)
    <3>1. PICK m : m = h.lists[d]
      OBVIOUS
    <3>2. u.lists[d] = m
      BY <1>8, <2>2, <3>1
    <3>3. m \in F /\ Cls(h, m) = d /\ h.blk[m].prev = Null
      BY <3>1, <3>2 DEF Linked, HeadsRight
    <3>4. m # b
      BY <2>2, <3>1, <3>3 DEF c, p
    <3>5. m # n
      BY <1>1, <1>4, <3>3
    <3> QED
      BY <1>1, <1>7, <1>8, <3>2, <3>3, <3>4, <3>5
  <2> QED
    BY <2>1, <2>2
<1>12. RestAlone(D, u, G)
  <2> SUFFICES ASSUME NEW x \in D \ G
               PROVE  u.blk[x].next = Null /\ u.blk[x].prev = Null
    BY DEF RestAlone
  <2>1. CASE x = b
    BY <1>8, <2>1
  <2>2. CASE x # b
    <3>1. x \in D \ F /\ h.blk[x].next = Null /\ h.blk[x].prev = Null
      BY <2>2 DEF Linked, RestAlone
    <3>2. x # p /\ x # n
      BY <1>1, <1>4, <3>1
    <3> QED
      BY <1>8, <3>1, <3>2
  <2> QED
    BY <2>1, <2>2
<1>13. NoLoop(u, G)
  <2> SUFFICES ASSUME NEW X \in SUBSET G, X # {}
               PROVE  \E x \in X : u.blk[x].prev \notin X
    BY DEF NoLoop
  <2>1. CASE n \in X
    <3>1. X \cup {b} \in SUBSET F /\ X \cup {b} # {}
      OBVIOUS
    <3>2. PICK y \in X \cup {b} : h.blk[y].prev \notin X \cup {b}
      BY <3>1 DEF Linked, NoLoop
    <3>3. CASE y = b
      <4>1. u.blk[n].prev = p
        BY <1>8, <2>1
      <4>2. p \notin X
        BY <3>2, <3>3 DEF p
      <4> QED
        BY <2>1, <4>1, <4>2
    <3>4. CASE y # b
      <4>1. y # n
        BY <1>1, <1>4, <3>2, <3>4
      <4> QED
        BY <1>8, <3>2, <3>4, <4>1
    <3> QED
      BY <3>3, <3>4
  <2>2. CASE n \notin X
    <3>1. PICK y \in X : h.blk[y].prev \notin X
      BY DEF Linked, NoLoop
    <3> QED
      BY <1>8, <2>2, <3>1
  <2> QED
    BY <2>1, <2>2
<1>14. Linked(D, u, G)
  BY <1>1, <1>9, <1>10, <1>11, <1>12, <1>13 DEF Linked
<1> QED
  BY <1>3, <1>14 DEF u, p, n, c

LEMMA InsertRight ==
  ASSUME NEW D \in SUBSET Nat, NEW h \in HeapOn(D), NEW F, Linked(D, h, F), NEW b \in D \ F
  PROVE  /\ Inserted(D, h, b, Cls(h, b), h.lists[Cls(h, b)], InsertFree(h, b))
         /\ Linked(D, InsertFree(h, b), F \cup {b})
<1> DEFINE c == Cls(h, b)
           n == h.lists[c]
           u == InsertFree(h, b)
           G == F \cup {b}
<1>1. F \subseteq D /\ Null \notin D /\ c \in ClassIndex
  BY NatConstants, HeapFields DEF Linked
<1>2. n # Null => n \in F /\ Cls(h, n) = c /\ h.blk[n].prev = Null
  BY <1>1 DEF Linked, HeadsRight
<1>3. n # b
  BY <1>1, <1>2
<1>4. Inserted(D, h, b, c, n, u)
  BY <1>3, InsertFields DEF Cls
<1> HIDE DEF u, n, c
<1>5. u \in HeapOn(D) /\ \A x \in D : Cls(u, x) = Cls(h, x)
  BY <1>4 DEF Inserted, SameBlocks, Cls
<1>6. /\ \A x \in D : u.blk[x].next = IF x = b THEN n ELSE h.blk[x].next
      /\ \A x \in D :
           u.blk[x].prev = IF x = b THEN Null ELSE IF x = n THEN b ELSE h.blk[x].prev
      /\ \A d \in ClassIndex : u.lists[d] = IF d = c THEN b ELSE h.lists[d]
  BY <1>4 DEF Inserted
<1>7. Cls(h, b) = c
  BY DEF c
<1>8. NextRight(u, G)
  <2> SUFFICES ASSUME NEW x \in G, u.blk[x].next # Null
               PROVE  /\ u.blk[x].next \in G /\ u.blk[u.blk[x].next].prev = x
                      /\ Cls(u, u.blk[x].next) = Cls(u, x)
    BY DEF NextRight
  <2>1. CASE x = b
    <3>1. u.blk[x].next = n
      BY <1>6, <2>1
    <3>2. u.blk[n].prev = b
      BY <1>1, <1>2, <1>3, <1>6, <3>1
    <3> QED
      BY <1>1, <1>2, <1>5, <1>7, <2>1, <3>1, <3>2
  <2>2. CASE x # b
    <3>1. PICK m : m = h.blk[x].next
      OBVIOUS
    <3>2. u.blk[x].next = m
      BY <1>1, <1>6, <2>2, <3>1
    <3>3. m \in F /\ h.blk[m].prev = x /\ Cls(h, m) = Cls(h, x)
      BY <2>2, <3>1, <3>2 DEF Linked, NextRight
    <3>4. m # b /\ m # n
      BY <1>1, <1>2, <3>3
    <3>5. u.blk[m].prev = x
      BY <1>1, <1>6, <3>3, <3>4
    <3> QED
      BY <1>1, <1>5, <3>2, <3>3, <3>5
  <2> QED
    BY <2>1, <2>2
<1>9. PrevRight(u, G)
  <2> SUFFICES ASSUME NEW x \in G
               PROVE  IF u.blk[x].prev = Null THEN u.lists[Cls(u, x)] = x
                      ELSE u.blk[x].prev \in G /\ u.blk[u.blk[x].prev].next = x
    BY DEF PrevRight
  <2>1. CASE x = b
    BY <1>1, <1>5, <1>6, <1>7, <2>1
  <2>2. CASE x = n
    <3>1. u.blk[x].prev = b /\ u.blk[b].next = x
      BY <1>1, <1>3, <1>6, <2>2
    <3> QED
      BY <1>1, <3>1
  <2>3. CASE x # n /\ x # b
    <3>1. PICK m : m = h.blk[x].prev
      OBVIOUS
    <3>2. u.blk[x].prev = m
      BY <1>1, <1>6, <2>3, <3>1
    <3>3. IF m = Null THEN h.lists[Cls(h, x)] = x ELSE m \in F /\ h.blk[m].next = x
      BY <2>3, <3>1 DEF Linked, PrevRight
    <3>4. CASE m = Null
      <4>1. Cls(h, x) \in ClassIndex /\ Cls(h, x) # c
        BY <1>1, <2>3, <3>3, <3>4, HeapFields DEF n
      <4> QED
        BY <1>1, <1>5, <1>6, <3>2, <3>3, <3>4, <4>1
    <3>5. CASE m # Null
      <4>1. m \in D /\ m # b
        BY <1>1, <3>3, <3>5
      <4> QED
        BY <1>6, <3>2, <3>3, <3>5, <4>1
    <3> QED
      BY <3>4, <3>5
  <2> QED
    BY <2>1, <2>2, <2>3
<1>10. HeadsRight(u, G)
  <2> SUFFICES ASSUME NEW d \in ClassIndex, u.lists[d] # Null
               PROVE  /\ u.lists[d] \in G /\ Cls(u, u.lists[d]) = d
                      /\ u.blk[u.lists[d]].prev = Null
    BY DEF HeadsRight
  <2>1. CASE d = c
    <3>1. u.lists[d] = b
      BY <1>6, <2>1
    <3> QED
      BY <1>5, <1>6, <1>7, <2>1, <3>1
  <2>2. CASE d # c
    <3>1. PICK m : m = h.lists[d]
      OBVIOUS
    <3>2. u.lists[d] = m
      BY <1>6, <2>2, <3>1
    <3>3. m \in F /\ Cls(h, m) = d /\ h.blk[m].prev = Null
      BY <3>1, <3>2 DEF Linked, HeadsRight
    <3>4. m # b /\ m # n
      BY <1>1, <1>2, <2>2, <3>3
    <3> QED
      BY <1>1, <1>5, <1>6, <3>2, <3>3, <3>4
  <2> QED
    BY <2>1, <2>2
<1>11. RestAlone(D, u, G)
  <2> SUFFICES ASSUME NEW x \in D \ G
               PROVE  u.blk[x].next = Null /\ u.blk[x].prev = Null
    BY DEF RestAlone
  <2>1. h.blk[x].next = Null /\ h.blk[x].prev = Null
    BY DEF Linked, RestAlone
  <2>2. x # n /\ x # b
    BY <1>1, <1>2
  <2> QED
    BY <1>6, <2>1, <2>2
<1>12. NoLoop(u, G)
  <2> SUFFICES ASSUME NEW X \in SUBSET G, X # {}
               PROVE  \E x \in X : u.blk[x].prev \notin X
    BY DEF NoLoop
  <2>1. CASE b \in X
    BY <1>1, <1>6, <2>1
  <2>2. CASE b \notin X
    <3>1. X \in SUBSET F
      BY <2>2
    <3>2. PICK y \in X : h.blk[y].prev \notin X
      BY <3>1 DEF Linked, NoLoop
    <3> QED
      BY <1>1, <1>6, <2>2, <3>1, <3>2
  <2> QED
    BY <2>1, <2>2
<1>13. Linked(D, u, G)
  BY <1>1, <1>8, <1>9, <1>10, <1>11, <1>12 DEF Linked
<1> QED
  BY <1>4, <1>13 DEF u, n, c

\* Blocks that come, go or change size outside the lists leave the lists right.
LEMMA LinkedSame ==
  ASSUME NEW D, NEW E, NEW h, NEW g, NEW F \in SUBSET E, Linked(D, h, F),
         g.lists = h.lists,
         \A x \in F : /\ g.blk[x].next = h.blk[x].next /\ g.blk[x].prev = h.blk[x].prev
                      /\ g.blk[x].size = h.blk[x].size,
         \A x \in E \ F : g.blk[x].next = Null /\ g.blk[x].prev = Null
  PROVE  Linked(E, g, F)
<1>1. \A x \in F : Cls(g, x) = Cls(h, x)
  BY DEF Cls
<1>2. NextRight(g, F)
  BY <1>1 DEF Linked, NextRight
<1>3. PrevRight(g, F)
  BY <1>1 DEF Linked, PrevRight
<1>4. HeadsRight(g, F)
  BY <1>1 DEF Linked, HeadsRight
<1>5. RestAlone(E, g, F)
  BY DEF RestAlone
<1>6. NoLoop(g, F)
  BY DEF Linked, NoLoop
<1> QED
  BY <1>2, <1>3, <1>4, <1>5, <1>6 DEF Linked

-----------------------------------------------------------------------------
(* Blocks cut in two and blocks taken in                                   *)

\* at now comes physically after b.
Followed(D, h, at, b, u) ==
  /\ u \in HeapOn(D) /\ u.lists = h.lists /\ u.end = h.end /\ u.used = h.used
  /\ u.last = IF at < h.end THEN h.last ELSE b
  /\ \A x \in D :
       /\ u.blk[x].size = h.blk[x].size /\ u.blk[x].free = h.blk[x].free
       /\ u.blk[x].next = h.blk[x].next /\ u.blk[x].prev = h.blk[x].prev
       /\ u.blk[x].phys = IF x = at /\ at < h.end THEN b ELSE h.blk[x].phys

LEMMA FollowFields ==
  ASSUME NEW D \in SUBSET Nat, NEW h \in HeapOn(D), NEW at \in Nat, NEW b \in Nat,
         at < h.end => at \in D
  PROVE  Followed(D, h, at, b, Follow(h, at, b))
<1> DEFINE u == Follow(h, at, b)
<1>1. /\ h.blk \in [D -> Rec] /\ h.lists \in [ClassIndex -> Ptr]
      /\ h.end \in Nat /\ h.used \in Int /\ h.last \in Ptr /\ b \in Ptr
  BY DEF HeapOn, Ptr
<1>2. CASE at < h.end
  <2> DEFINE k == [h.blk EXCEPT ![at].phys = b]
  <2>1. u = [h EXCEPT !.blk = k]
    BY <1>2 DEF Follow
  <2>2. at \in D
    BY <1>2
  <2>3. h.blk[at] \in Rec
    BY <1>1, <2>2
  <2> DEFINE r == [size |-> h.blk[at].size, free |-> h.blk[at].free,
                   next |-> h.blk[at].next, prev |-> h.blk[at].prev, phys |-> b]
  <2>4. [h.blk[at] EXCEPT !.phys = b] = r
    BY <2>3 DEF Rec
  <2>5. r \in Rec
    BY <1>1, <2>3 DEF Rec
  <2>6. /\ r.size = h.blk[at].size /\ r.free = h.blk[at].free
        /\ r.next = h.blk[at].next /\ r.prev = h.blk[at].prev /\ r.phys = b
    OBVIOUS
  <2>7. k = [h.blk EXCEPT ![at] = r]
    <3> HIDE DEF r
    <3> QED
      BY <2>4
  <2> HIDE DEF r, k, u
  <2>8. /\ k \in [D -> Rec] /\ k[at] = r
        /\ \A x \in D : x # at => k[x] = h.blk[x]
    BY <1>1, <2>2, <2>5, <2>7
  <2>9. /\ u \in HeapOn(D) /\ u.blk = k /\ u.lists = h.lists /\ u.end = h.end
        /\ u.used = h.used /\ u.last = h.last
    BY <1>1, <2>1, <2>8 DEF HeapOn
  <2>10. ASSUME NEW x \in D
         PROVE  /\ u.blk[x].size = h.blk[x].size /\ u.blk[x].free = h.blk[x].free
                /\ u.blk[x].next = h.blk[x].next /\ u.blk[x].prev = h.blk[x].prev
                /\ u.blk[x].phys = IF x = at THEN b ELSE h.blk[x].phys
    <3>1. CASE x = at
      BY <2>6, <2>8, <2>9, <3>1
    <3>2. CASE x # at
      BY <2>8, <2>9, <3>2
    <3> QED
      BY <3>1, <3>2
  <2> QED
    BY <1>2, <2>9, <2>10 DEF u, Followed
<1>3. CASE ~(at < h.end)
  <2>1. u = [h EXCEPT !.last = b]
    BY <1>3 DEF Follow
  <2>2. /\ u \in HeapOn(D) /\ u.blk = h.blk /\ u.lists = h.lists /\ u.end = h.end
        /\ u.used = h.used /\ u.last = b
    <3> HIDE DEF u
    <3> QED
      BY <1>1, <2>1 DEF HeapOn
  <2> HIDE DEF u
  <2> QED
    BY <1>3, <2>2 DEF u, Followed
<1> QED
  BY <1>2, <1>3

\* b keeps req of its bytes, and the rest becomes the block rem.
Cut(D, h, b, req, rem, s) ==
  /\ s \in HeapOn(D \cup {rem}) /\ s.lists = h.lists /\ s.end = h.end /\ s.used = h.used
  /\ s.last = IF After(h, b) < h.end THEN h.last ELSE rem
  /\ \A x \in D :
       /\ s.blk[x].size = IF x = b THEN req ELSE h.blk[x].size
       /\ s.blk[x].free = h.blk[x].free
       /\ s.blk[x].next = h.blk[x].next /\ s.blk[x].prev = h.blk[x].prev
       /\ s.blk[x].phys = IF x = After(h, b) /\ After(h, b) < h.end THEN rem
                          ELSE h.blk[x].phys
  /\ s.blk[rem].size = (h.blk[b].size - Header) - req /\ s.blk[rem].free = TRUE
  /\ s.blk[rem].next = Null /\ s.blk[rem].prev = Null /\ s.blk[rem].phys = b

LEMMA CutFields ==
  ASSUME NEW D \in SUBSET Nat, NEW h \in HeapOn(D), NEW b \in D, NEW req \in Nat,
         Splittable(h.blk[b].size, req), (b + Header) + req \notin D,
         After(h, b) < h.end => After(h, b) \in D
  PROVE  LET rem == b + Header + req IN
         \E s : Cut(D, h, b, req, rem, s) /\ Split(h, b, req) = InsertFree(s, rem)
<1> DEFINE rem == b + Header + req
           sz  == h.blk[b].size
           new == [size |-> sz - Header - req, free |-> TRUE,
                   next |-> Null, prev |-> Null, phys |-> b]
           f   == [h.blk EXCEPT ![b].size = req]
           k   == With(f, rem, new)
           cut == [h EXCEPT !.blk = k]
           E   == D \cup {rem}
           at  == b + Header + sz
           s   == Follow(cut, at, rem)
<1>1. /\ h.blk \in [D -> Rec] /\ h.lists \in [ClassIndex -> Ptr]
      /\ h.end \in Nat /\ h.used \in Int /\ h.last \in Ptr
      /\ h.blk[b] \in Rec
  BY DEF HeapOn
<1>2. sz \in Nat /\ sz >= (req + Header) + MinSize
  BY <1>1 DEF Rec, Splittable
<1>3. /\ rem \in Nat /\ rem \notin D /\ rem # b /\ rem < at /\ at = After(h, b) /\ at \in Nat
      /\ sz - Header - req = (sz - Header) - req /\ (sz - Header) - req \in Nat
  BY <1>2, NatConstants DEF After
<1>4. E \in SUBSET Nat
  BY <1>3
<1>5. new \in Rec
  <2> HIDE DEF sz
  <2> QED
    BY <1>3 DEF Rec, Ptr
<1>6. /\ f \in [D -> Rec]
      /\ \A x \in D :
           /\ f[x].size = IF x = b THEN req ELSE h.blk[x].size
           /\ f[x].free = h.blk[x].free /\ f[x].phys = h.blk[x].phys
           /\ f[x].next = h.blk[x].next /\ f[x].prev = h.blk[x].prev
  <2> DEFINE r == [size |-> req, free |-> h.blk[b].free,
                   next |-> h.blk[b].next, prev |-> h.blk[b].prev, phys |-> h.blk[b].phys]
  <2>1. [h.blk[b] EXCEPT !.size = req] = r
    BY <1>1 DEF Rec
  <2>2. r \in Rec
    BY <1>1 DEF Rec
  <2>3. /\ r.size = req /\ r.free = h.blk[b].free
        /\ r.next = h.blk[b].next /\ r.prev = h.blk[b].prev /\ r.phys = h.blk[b].phys
    OBVIOUS
  <2>4. f = [h.blk EXCEPT ![b] = r]
    <3> HIDE DEF r
    <3> QED
      BY <2>1
  <2> HIDE DEF r, f
  <2>5. /\ f \in [D -> Rec] /\ f[b] = r /\ \A x \in D : x # b => f[x] = h.blk[x]
    BY <1>1, <2>2, <2>4
  <2> QED
    BY <2>3, <2>5
<1>7. k \in [E -> Rec] /\ k[rem] = new /\ \A x \in D : k[x] = f[x]
  <2> HIDE DEF f, new, rem
  <2>1. k = [y \in E |-> IF y = rem THEN new ELSE f[y]]
    BY <1>6 DEF With
  <2> HIDE DEF k
  <2> QED
    BY <1>3, <1>5, <1>6, <2>1
<1>8. /\ cut \in HeapOn(E) /\ cut.blk = k /\ cut.lists = h.lists /\ cut.end = h.end
      /\ cut.used = h.used /\ cut.last = h.last
  <2> HIDE DEF k, E
  <2> QED
    BY <1>1, <1>7 DEF HeapOn
<1>9. Split(h, b, req) = InsertFree(s, rem)
  BY DEF Split
<1>10. Followed(E, cut, at, rem, s)
  <2>1. at < cut.end => at \in E
    BY <1>3, <1>8
  <2> HIDE DEF cut, E, at, rem
  <2> QED
    BY <1>3, <1>4, <1>8, <2>1, FollowFields
<1>11. /\ new.size = (sz - Header) - req /\ new.free = TRUE /\ new.next = Null
       /\ new.prev = Null /\ new.phys = b
  <2> HIDE DEF sz
  <2> QED
    BY <1>3
<1> HIDE DEF s, cut, k, f, new, rem, at
<1>12. /\ s \in HeapOn(D \cup {rem}) /\ s.lists = h.lists /\ s.end = h.end /\ s.used = h.used
       /\ s.last = IF After(h, b) < h.end THEN h.last ELSE rem
  BY <1>3, <1>8, <1>10 DEF Followed
<1>13. ASSUME NEW x \in D
       PROVE  /\ s.blk[x].size = IF x = b THEN req ELSE h.blk[x].size
              /\ s.blk[x].free = h.blk[x].free
              /\ s.blk[x].next = h.blk[x].next /\ s.blk[x].prev = h.blk[x].prev
              /\ s.blk[x].phys = IF x = After(h, b) /\ After(h, b) < h.end THEN rem
                                 ELSE h.blk[x].phys
  <2>1. cut.blk[x] = f[x]
    BY <1>7, <1>8
  <2>2. /\ s.blk[x].size = f[x].size /\ s.blk[x].free = f[x].free
        /\ s.blk[x].next = f[x].next /\ s.blk[x].prev = f[x].prev
        /\ s.blk[x].phys = IF x = at /\ at < h.end THEN rem ELSE f[x].phys
    BY <1>8, <1>10, <2>1 DEF Followed
  <2> QED
    BY <1>3, <1>6, <2>2
<1>14. /\ s.blk[rem].size = (h.blk[b].size - Header) - req /\ s.blk[rem].free = TRUE
       /\ s.blk[rem].next = Null /\ s.blk[rem].prev = Null /\ s.blk[rem].phys = b
  <2>1. cut.blk[rem] = new /\ rem # at /\ rem \in E
    BY <1>3, <1>7, <1>8
  <2>2. /\ s.blk[rem].size = new.size /\ s.blk[rem].free = new.free
        /\ s.blk[rem].next = new.next /\ s.blk[rem].prev = new.prev
        /\ s.blk[rem].phys = new.phys
    BY <1>10, <2>1 DEF Followed
  <2> QED
    BY <1>11, <2>2
<1>15. Cut(D, h, b, req, rem, s)
  BY <1>12, <1>13, <1>14 DEF Cut
<1> QED
  BY <1>9, <1>15 DEF rem

\* a takes in the block b behind it.
Absorbed(D, h, a, b, u) ==
  /\ u \in HeapOn(D \ {b}) /\ u.lists = h.lists /\ u.end = h.end /\ u.used = h.used
  /\ u.last = IF After(h, b) < h.end THEN h.last ELSE a
  /\ \A x \in D \ {b} :
       /\ u.blk[x].size = IF x = a THEN (h.blk[a].size + Header) + h.blk[b].size
                          ELSE h.blk[x].size
       /\ u.blk[x].free = h.blk[x].free
       /\ u.blk[x].next = h.blk[x].next /\ u.blk[x].prev = h.blk[x].prev
       /\ u.blk[x].phys = IF x = After(h, b) /\ After(h, b) < h.end THEN a
                          ELSE h.blk[x].phys

LEMMA AbsorbFields ==
  ASSUME NEW D \in SUBSET Nat, NEW h \in HeapOn(D), NEW a \in D, NEW b \in D, a # b,
         After(h, b) < h.end => After(h, b) \in D \ {b}
  PROVE  Absorbed(D, h, a, b, Absorb(h, a, b))
<1> DEFINE sz   == (h.blk[a].size + Header) + h.blk[b].size
           f    == [h.blk EXCEPT ![a].size = sz]
           E    == D \ {b}
           k    == [x \in E |-> f[x]]
           g    == [h EXCEPT !.blk = k]
           at   == After(h, b)
           u    == Absorb(h, a, b)
<1>1. /\ h.blk \in [D -> Rec] /\ h.lists \in [ClassIndex -> Ptr]
      /\ h.end \in Nat /\ h.used \in Int /\ h.last \in Ptr
      /\ h.blk[a] \in Rec /\ h.blk[b] \in Rec
  BY DEF HeapOn
<1>2. h.blk[a].size \in Nat /\ h.blk[b].size \in Nat /\ sz \in Nat
  BY <1>1, NatConstants DEF Rec
<1>3. at \in Nat /\ E \in SUBSET Nat
  BY HeapFields
<1>4. u = Follow(g, at, a)
  <2> DEFINE grown == [h EXCEPT !.blk[a].size = @ + Header + h.blk[b].size]
             rest  == [x \in DOMAIN h.blk \ {b} |-> grown.blk[x]]
  <2>1. h.blk[a].size + Header + h.blk[b].size = sz
    BY <1>2, NatConstants
  <2>2. grown = [h EXCEPT !.blk = f]
    <3>1. grown = [h EXCEPT !.blk = [h.blk EXCEPT ![a].size = @ + Header + h.blk[b].size]]
      BY Zenon
    <3>2. [h.blk EXCEPT ![a].size = @ + Header + h.blk[b].size] = f
      <4> HIDE DEF sz
      <4> QED
        BY <1>1, <2>1
    <3> HIDE DEF f, grown
    <3> QED
      BY <3>1, <3>2
  <2>3. grown.blk = f /\ [grown EXCEPT !.blk = rest] = [h EXCEPT !.blk = rest]
    <3> HIDE DEF f, rest, grown
    <3> QED
      BY <1>1, <2>2 DEF HeapOn
  <2>4. rest = k
    <3> HIDE DEF f, grown
    <3> QED
      BY <1>1, <2>3
  <2>5. u = Follow([grown EXCEPT !.blk = rest], at, a)
    BY DEF Absorb
  <2> HIDE DEF grown, rest, k, u, at
  <2> QED
    BY <2>3, <2>4, <2>5
<1>5. /\ f \in [D -> Rec]
      /\ \A x \in D :
           /\ f[x].size = IF x = a THEN sz ELSE h.blk[x].size
           /\ f[x].free = h.blk[x].free /\ f[x].phys = h.blk[x].phys
           /\ f[x].next = h.blk[x].next /\ f[x].prev = h.blk[x].prev
  <2> DEFINE r == [size |-> sz, free |-> h.blk[a].free,
                   next |-> h.blk[a].next, prev |-> h.blk[a].prev, phys |-> h.blk[a].phys]
  <2> HIDE DEF sz
  <2>1. [h.blk[a] EXCEPT !.size = sz] = r
    BY <1>1 DEF Rec
  <2>2. r \in Rec
    BY <1>1, <1>2 DEF Rec
  <2>3. /\ r.size = sz /\ r.free = h.blk[a].free
        /\ r.next = h.blk[a].next /\ r.prev = h.blk[a].prev /\ r.phys = h.blk[a].phys
    OBVIOUS
  <2>4. f = [h.blk EXCEPT ![a] = r]
    <3> HIDE DEF r
    <3> QED
      BY <2>1
  <2> HIDE DEF r, f
  <2>5. /\ f \in [D -> Rec] /\ f[a] = r /\ \A x \in D : x # a => f[x] = h.blk[x]
    BY <1>1, <2>2, <2>4
  <2> QED
    BY <2>3, <2>5
<1>6. k \in [E -> Rec] /\ \A x \in E : k[x] = f[x]
  <2> HIDE DEF f
  <2> QED
    BY <1>5
<1>7. /\ g \in HeapOn(E) /\ g.blk = k /\ g.lists = h.lists /\ g.end = h.end
      /\ g.used = h.used /\ g.last = h.last
  <2> HIDE DEF k, E
  <2> QED
    BY <1>1, <1>6 DEF HeapOn
<1>8. Followed(E, g, at, a, u)
  <2>1. at < g.end => at \in E
    BY <1>7
  <2> HIDE DEF g, E, at, u
  <2> QED
    BY <1>3, <1>4, <1>7, <2>1, FollowFields
<1> HIDE DEF u, g, k, f, at, E, sz
<1>9. /\ u \in HeapOn(E) /\ u.lists = h.lists /\ u.end = h.end /\ u.used = h.used
      /\ u.last = IF at < h.end THEN h.last ELSE a
  BY <1>7, <1>8 DEF Followed
<1>10. ASSUME NEW x \in E
       PROVE  /\ u.blk[x].size = IF x = a THEN sz ELSE h.blk[x].size
              /\ u.blk[x].free = h.blk[x].free
              /\ u.blk[x].next = h.blk[x].next /\ u.blk[x].prev = h.blk[x].prev
              /\ u.blk[x].phys = IF x = at /\ at < h.end THEN a ELSE h.blk[x].phys
  <2>1. g.blk[x] = f[x] /\ x \in D
    BY <1>6, <1>7 DEF E
  <2>2. /\ u.blk[x].size = f[x].size /\ u.blk[x].free = f[x].free
        /\ u.blk[x].next = f[x].next /\ u.blk[x].prev = f[x].prev
        /\ u.blk[x].phys = IF x = at /\ at < h.end THEN a ELSE f[x].phys
    BY <1>7, <1>8, <2>1 DEF Followed
  <2> QED
    BY <1>5, <2>1, <2>2
<1> QED
  BY <1>9, <1>10 DEF Absorbed, u, at, E, sz

-----------------------------------------------------------------------------
(* The blocks tile the heap                                                *)

\* What holds of each block b.
Placed(D, h, b) ==
  /\ h.blk[b].size >= MinSize /\ After(h, b) <= h.end
  /\ IF After(h, b) = h.end THEN h.last = b
     ELSE After(h, b) \in D /\ h.blk[After(h, b)].phys = b
  /\ IF h.blk[b].phys = Null THEN b = 0
     ELSE h.blk[b].phys \in D /\ After(h, h.blk[b].phys) = b
  /\ \A d \in D : ~(b < d /\ d < After(h, b))

Tiled(D, h) ==
  /\ h.end > 0 => 0 \in D /\ h.blk[0].phys = Null
  /\ IF h.last = Null THEN h.end = 0 ELSE h.last \in D /\ After(h, h.last) = h.end
  /\ \A b \in D : Placed(D, h, b)

LEMMA TiledSame ==
  ASSUME NEW D \in SUBSET Nat, NEW h \in HeapOn(D), NEW u, Tiled(D, h), SameBlocks(D, h, u)
  PROVE  Tiled(D, u)
<1>1. /\ \A x \in D : After(u, x) = After(h, x) /\ u.blk[x].size = h.blk[x].size
                      /\ u.blk[x].phys = h.blk[x].phys
      /\ u.end = h.end /\ u.last = h.last
  BY DEF SameBlocks, After
<1>2. ASSUME NEW b \in D
      PROVE  Placed(D, u, b)
  <2>1. Placed(D, h, b)
    BY DEF Tiled
  <2> QED
    BY <1>1, <2>1 DEF Placed
<1> QED
  BY <1>1, <1>2 DEF Tiled

\* A place is in one block only.
LEMMA BlocksApart ==
  ASSUME NEW D \in SUBSET Nat, NEW h \in HeapOn(D), Tiled(D, h),
         NEW b \in D, NEW d \in D, b # d
  PROVE  After(h, b) <= d \/ After(h, d) <= b
<1>1. Placed(D, h, b) /\ Placed(D, h, d)
  BY DEF Tiled
<1>2. b \in Nat /\ d \in Nat /\ After(h, b) \in Nat /\ After(h, d) \in Nat
  BY HeapFields
<1> QED
  BY <1>1, <1>2 DEF Placed

Behind(b, req) == (b + Header) + req

LEMMA CutTiled ==
  ASSUME NEW D \in SUBSET Nat, NEW h \in HeapOn(D), Tiled(D, h), NEW b \in D,
         NEW req \in Nat, req >= MinSize, Splittable(h.blk[b].size, req), NEW rem,
         rem = Behind(b, req), NEW s, Cut(D, h, b, req, rem, s)
  PROVE  rem \in Nat \ D /\ Tiled(D \cup {rem}, s)
<1> DEFINE E == D \cup {rem}
           end == After(h, b)
<1>1. end \in Nat /\ b \in Nat /\ rem \in Nat /\ b < rem /\ rem < end
  <2>1. h.blk[b].size \in Nat /\ end = (b + Header) + h.blk[b].size /\ b \in Nat
    BY HeapFields DEF After
  <2> HIDE DEF end
  <2> QED
    BY <2>1, NatConstants DEF Splittable, Behind
<1>2. \A x \in D : Placed(D, h, x) /\ x \in Nat /\ After(h, x) \in Nat /\ x < After(h, x)
  BY HeapFields DEF Tiled
<1>3. b < end
  BY <1>1
<1>4. rem \notin D
  BY <1>1, <1>2, <1>3 DEF Placed
<1>5. /\ s.end = h.end /\ h.end \in Nat
      /\ s.last = IF end < h.end THEN h.last ELSE rem
      /\ After(s, b) = rem /\ After(s, rem) = end
      /\ \A x \in D \ {b} : After(s, x) = After(h, x)
      /\ \A x \in D : s.blk[x].phys = IF x = end /\ end < h.end THEN rem ELSE h.blk[x].phys
      /\ s.blk[rem].phys = b
      /\ s.blk[b].size = req /\ s.blk[rem].size >= MinSize
      /\ \A x \in D \ {b} : s.blk[x].size = h.blk[x].size
  <2> HIDE DEF end
  <2>0. h.blk[b].size \in Nat /\ end = (b + Header) + h.blk[b].size
    BY HeapFields DEF After, end
  <2>1. s.blk[rem].size = (h.blk[b].size - Header) - req /\ s.blk[b].size = req
    BY DEF Cut
  <2>2. s.blk[rem].size \in Nat /\ s.blk[rem].size >= MinSize
    BY <2>0, <2>1, NatConstants DEF Splittable, Behind
  <2>3. After(s, rem) = end /\ After(s, b) = rem
    BY <1>1, <2>0, <2>1, <2>2, NatConstants DEF After, Behind
  <2>4. \A x \in D \ {b} : s.blk[x].size = h.blk[x].size /\ After(s, x) = After(h, x)
    BY DEF Cut, After
  <2>5. h.end \in Nat
    BY HeapFields
  <2> QED
    BY <2>1, <2>2, <2>3, <2>4, <2>5 DEF Cut, end
<1>6. /\ end <= h.end
      /\ IF end = h.end THEN h.last = b ELSE end \in D /\ h.blk[end].phys = b
      /\ \A d \in D : ~(b < d /\ d < end)
  BY <1>2 DEF Placed
<1> HIDE DEF end
<1>7. /\ end \in Nat /\ h.end \in Nat /\ end <= h.end /\ s.end = h.end
      /\ s.last = IF end < h.end THEN h.last ELSE rem
  BY <1>1, <1>5, <1>6
<1>8. Placed(E, s, b)
  <2>1. h.blk[b].phys = Null => b = 0
    BY <1>2 DEF Placed
  <2>2. h.blk[b].phys # Null => h.blk[b].phys \in D /\ After(h, h.blk[b].phys) = b
    BY <1>2 DEF Placed
  <2>3. s.blk[b].phys = h.blk[b].phys
    <3>1. b # end
      BY <1>1
    <3>2. s.blk[b].phys = IF b = end /\ end < h.end THEN rem ELSE h.blk[b].phys
      BY <1>5
    <3> QED
      BY <3>1, <3>2
  <2>4. h.blk[b].phys # Null => h.blk[b].phys # b
    BY <1>2, <2>2
  <2>5. IF s.blk[b].phys = Null THEN b = 0
        ELSE s.blk[b].phys \in E /\ After(s, s.blk[b].phys) = b
    <3>1. CASE h.blk[b].phys = Null
      BY <2>1, <2>3, <3>1
    <3>2. CASE h.blk[b].phys # Null
      <4>1. After(s, h.blk[b].phys) = After(h, h.blk[b].phys)
        BY <1>5, <2>2, <2>4, <3>2
      <4> QED
        BY <2>2, <2>3, <3>2, <4>1
    <3> QED
      BY <3>1, <3>2
  <2>6. \A d \in E : ~(b < d /\ d < After(s, b))
    <3>1. \A d \in E : ~(b < d /\ d < rem)
      BY <1>1, <1>2, <1>6
    <3>2. After(s, b) = rem
      BY <1>5
    <3> QED
      BY <3>1, <3>2
  <2>7. rem <= h.end /\ rem # h.end
    BY <1>7, <1>1
  <2>8. s.blk[b].size >= MinSize /\ After(s, b) = rem /\ s.blk[rem].phys = b
    BY <1>5
  <2>9. After(s, b) <= s.end
    BY <1>7, <2>7, <2>8
  <2>10. IF After(s, b) = s.end THEN s.last = b
         ELSE After(s, b) \in E /\ s.blk[After(s, b)].phys = b
    BY <1>7, <2>7, <2>8
  <2> QED
    BY <2>5, <2>6, <2>8, <2>9, <2>10 DEF Placed
<1>9. Placed(E, s, rem)
  <2>1. \A d \in E : ~(rem < d /\ d < After(s, rem))
    <3>1. \A d \in E : ~(rem < d /\ d < end)
      BY <1>1, <1>2, <1>6
    <3>2. After(s, rem) = end
      BY <1>5
    <3> QED
      BY <3>1, <3>2
  <2>2. IF end = h.end THEN s.last = rem ELSE end \in E /\ s.blk[end].phys = rem
    <3>1. CASE end = h.end
      BY <1>7, <3>1
    <3>2. CASE end # h.end
      <4>1. end < h.end /\ end \in D
        BY <1>7, <1>6, <3>2
      <4> QED
        BY <1>5, <3>2, <4>1
    <3> QED
      BY <3>1, <3>2
  <2>3. IF After(s, rem) = s.end THEN s.last = rem
        ELSE After(s, rem) \in E /\ s.blk[After(s, rem)].phys = rem
    BY <1>5, <2>2
  <2>4. b # Null
    BY <1>1, NatConstants
  <2>5. IF s.blk[rem].phys = Null THEN rem = 0
        ELSE s.blk[rem].phys \in E /\ After(s, s.blk[rem].phys) = rem
    BY <1>5, <2>4
  <2>6. s.blk[rem].size >= MinSize /\ After(s, rem) <= s.end
    BY <1>5, <1>6
  <2> QED
    BY <2>1, <2>3, <2>5, <2>6 DEF Placed
<1>10. ASSUME NEW x \in D, x # b
      PROVE  Placed(E, s, x)
  <2>1. After(s, x) = After(h, x) /\ s.blk[x].size = h.blk[x].size
    BY <1>5, <1>10
  <2>2. Placed(D, h, x)
    BY <1>2
  <2>3. After(h, x) = h.end => end # h.end
    BY <1>6, <1>10, <2>2 DEF Placed
  <2>4. After(h, x) # h.end => After(h, x) # end \/ end = h.end
    BY <1>6, <1>10, <2>2 DEF Placed
  <2>5. IF After(s, x) = s.end THEN s.last = x
        ELSE After(s, x) \in E /\ s.blk[After(s, x)].phys = x
    <3>1. CASE After(h, x) = h.end
      BY <1>1, <1>5, <1>6, <2>1, <2>2, <2>3, <3>1 DEF Placed
    <3>2. CASE After(h, x) # h.end
      <4>1. After(h, x) \in D /\ h.blk[After(h, x)].phys = x
        BY <2>2, <3>2 DEF Placed
      <4> QED
        BY <1>5, <2>1, <2>4, <3>2, <4>1
    <3> QED
      BY <3>1, <3>2
  <2>6. \A d \in E : ~(x < d /\ d < After(s, x))
    <3>1. ~(x < rem /\ rem < After(h, x))
      <4>1. ~(x < b /\ b < After(h, x)) /\ ~(b < x /\ x < end)
        BY <1>6, <2>2 DEF Placed
      <4> QED
        BY <1>1, <1>2, <1>3, <1>10, <4>1
    <3> QED
      BY <2>1, <2>2, <3>1 DEF Placed
  <2>7. IF s.blk[x].phys = Null THEN x = 0
        ELSE s.blk[x].phys \in E /\ After(s, s.blk[x].phys) = x
    <3>1. CASE x = end /\ end < h.end
      <4>1. s.blk[x].phys = rem /\ rem # Null
        BY <1>1, <1>5, <3>1, NatConstants
      <4> QED
        BY <1>5, <3>1, <4>1
    <3>2. CASE ~(x = end /\ end < h.end)
      <4>1. s.blk[x].phys = h.blk[x].phys
        BY <1>5, <3>2
      <4>2. x # end
        <5>1. x < h.end
          BY <1>2, <1>5, <2>2 DEF Placed
        <5> QED
          BY <3>2, <5>1
      <4>3. h.blk[x].phys # Null => h.blk[x].phys \in D /\ After(h, h.blk[x].phys) = x
        BY <2>2 DEF Placed
      <4>4. h.blk[x].phys # b \/ h.blk[x].phys = Null
        BY <4>2, <4>3 DEF end
      <4> QED
        BY <1>5, <2>2, <4>1, <4>3, <4>4 DEF Placed
    <3> QED
      BY <3>1, <3>2
  <2>8. s.blk[x].size >= MinSize /\ After(s, x) <= s.end
    BY <1>5, <2>1, <2>2 DEF Placed
  <2> QED
    BY <2>5, <2>6, <2>7, <2>8 DEF Placed
<1>11. s.end > 0 => 0 \in E /\ s.blk[0].phys = Null
  <2> SUFFICES ASSUME h.end > 0 PROVE 0 \in E /\ s.blk[0].phys = Null
    BY <1>5
  <2>1. 0 \in D /\ h.blk[0].phys = Null
    BY DEF Tiled
  <2>2. end # 0
    BY <1>1
  <2>3. s.blk[0].phys = h.blk[0].phys
    BY <1>5, <2>1, <2>2
  <2> QED
    BY <2>1, <2>3
<1>12. IF s.last = Null THEN s.end = 0 ELSE s.last \in E /\ After(s, s.last) = s.end
  <2>1. CASE end < h.end
    <3>1. h.last # Null /\ h.last \in D /\ After(h, h.last) = h.end
      BY <1>7, <2>1 DEF Tiled
    <3>2. h.last # b
      BY <1>7, <2>1, <3>1 DEF end
    <3>3. After(s, h.last) = After(h, h.last)
      BY <1>5, <3>1, <3>2
    <3> QED
      BY <1>7, <2>1, <3>1, <3>2, <3>3
  <2>2. CASE ~(end < h.end)
    <3>1. end = h.end /\ s.last = rem
      BY <1>7, <2>2
    <3>2. After(s, rem) = end /\ rem \in E /\ rem # Null
      BY <1>1, <1>5, NatConstants
    <3> QED
      BY <1>7, <3>1, <3>2
  <2> QED
    BY <2>1, <2>2
<1>13. Tiled(E, s)
  BY <1>8, <1>9, <1>10, <1>11, <1>12 DEF Tiled
<1> QED
  BY <1>1, <1>4, <1>13

LEMMA AbsorbTiled ==
  ASSUME NEW D \in SUBSET Nat, NEW h \in HeapOn(D), Tiled(D, h), NEW a \in D, NEW b \in D,
         After(h, a) = b, NEW u, Absorbed(D, h, a, b, u)
  PROVE  Tiled(D \ {b}, u) /\ After(u, a) = After(h, b)
<1> DEFINE E == D \ {b}
           end == After(h, b)
<1>1. end \in Nat /\ b \in Nat /\ a \in Nat /\ a < b /\ b < end
  BY HeapFields
<1>2. \A x \in D : Placed(D, h, x) /\ x \in Nat /\ After(h, x) \in Nat /\ x < After(h, x)
  BY HeapFields DEF Tiled
<1>3. /\ u.end = h.end /\ h.end \in Nat
      /\ u.last = IF end < h.end THEN h.last ELSE a
      /\ After(u, a) = end /\ u.blk[a].size >= MinSize
      /\ \A x \in E \ {a} : After(u, x) = After(h, x) /\ u.blk[x].size = h.blk[x].size
      /\ \A x \in E : u.blk[x].phys = IF x = end /\ end < h.end THEN a ELSE h.blk[x].phys
  <2> HIDE DEF end
  <2>0. /\ end = (b + Header) + h.blk[b].size /\ b = (a + Header) + h.blk[a].size
        /\ h.blk[a].size \in Nat /\ h.blk[b].size \in Nat
    BY HeapFields DEF After, end
  <2>1. u.blk[a].size = (h.blk[a].size + Header) + h.blk[b].size
    BY <1>1 DEF Absorbed
  <2>2. h.blk[a].size >= MinSize
    BY <1>2 DEF Placed
  <2>3. After(u, a) = end /\ u.blk[a].size >= MinSize
    BY <1>1, <2>0, <2>1, <2>2, NatConstants DEF After
  <2>4. \A x \in E \ {a} : After(u, x) = After(h, x) /\ u.blk[x].size = h.blk[x].size
    BY DEF Absorbed, After
  <2>5. h.end \in Nat
    BY HeapFields
  <2> QED
    BY <2>3, <2>4, <2>5 DEF Absorbed, end
<1>4. /\ end <= h.end
      /\ IF end = h.end THEN h.last = b ELSE end \in D /\ h.blk[end].phys = b
      /\ \A d \in D : ~(b < d /\ d < end) /\ ~(a < d /\ d < b)
  BY <1>2 DEF Placed
<1>5. ASSUME NEW x \in D, x # a
      PROVE  After(h, x) # b
  <2>1. Placed(D, h, x) /\ Placed(D, h, a) /\ b # h.end
    BY <1>1, <1>2, <1>4
  <2> QED
    BY <1>5, <2>1 DEF Placed
<1> HIDE DEF end
<1>6. /\ end \in Nat /\ h.end \in Nat /\ end <= h.end /\ b < end /\ a < b
      /\ u.end = h.end /\ u.last = IF end < h.end THEN h.last ELSE a
  BY <1>1, <1>3, <1>4
<1>7. Placed(E, u, a)
  <2>1. Placed(D, h, a)
    BY <1>2
  <2>2. u.blk[a].phys = h.blk[a].phys /\ a # b /\ a \in E
    BY <1>1, <1>3
  <2>3. IF end = h.end THEN u.last = a ELSE end \in E /\ u.blk[end].phys = a
    BY <1>1, <1>3, <1>4
  <2>4. h.blk[a].phys # Null =>
          h.blk[a].phys \in D /\ After(h, h.blk[a].phys) = a /\ h.blk[a].phys # a
    BY <1>2, <2>1 DEF Placed
  <2>5. h.blk[a].phys # Null => h.blk[a].phys # b
    BY <1>1, <2>4 DEF end
  <2>6. IF u.blk[a].phys = Null THEN a = 0
        ELSE u.blk[a].phys \in E /\ After(u, u.blk[a].phys) = a
    <3>1. CASE h.blk[a].phys = Null
      <4>1. a = 0
        BY <2>1, <3>1 DEF Placed
      <4> QED
        BY <2>2, <3>1, <4>1
    <3>2. CASE h.blk[a].phys # Null
      <4>1. h.blk[a].phys \in E \ {a}
        BY <2>4, <2>5, <3>2
      <4>2. After(u, h.blk[a].phys) = After(h, h.blk[a].phys)
        BY <1>3, <4>1
      <4> QED
        BY <2>2, <2>4, <3>2, <4>1, <4>2
    <3> QED
      BY <3>1, <3>2
  <2>7. \A d \in E : ~(a < d /\ d < end)
    BY <1>1, <1>2, <1>4
  <2>8. After(u, a) = end /\ u.blk[a].size >= MinSize
    BY <1>3
  <2>9. IF After(u, a) = u.end THEN u.last = a
        ELSE After(u, a) \in E /\ u.blk[After(u, a)].phys = a
    BY <1>6, <2>3, <2>8
  <2>10. \A d \in E : ~(a < d /\ d < After(u, a))
    BY <2>7, <2>8
  <2>11. u.blk[a].size >= MinSize /\ After(u, a) <= u.end
    BY <1>6, <2>8
  <2> QED
    BY <2>6, <2>9, <2>10, <2>11 DEF Placed
<1>8. ASSUME NEW x \in E, x # a
      PROVE  Placed(E, u, x)
  <2>1. After(u, x) = After(h, x) /\ u.blk[x].size = h.blk[x].size
    BY <1>3, <1>8
  <2>2. Placed(D, h, x)
    BY <1>2
  <2>3. After(h, x) # b
    BY <1>5, <1>8
  <2>4. After(h, x) # end \/ end = h.end
    BY <1>4, <1>8, <2>2 DEF Placed
  <2>5. IF After(u, x) = u.end THEN u.last = x
        ELSE After(u, x) \in E /\ u.blk[After(u, x)].phys = x
    <3>1. CASE After(h, x) = h.end
      <4>1. h.last = x
        BY <2>2, <3>1 DEF Placed
      <4>2. end # h.end
        BY <1>4, <4>1
      <4> QED
        BY <1>6, <2>1, <3>1, <4>1, <4>2
    <3>2. CASE After(h, x) # h.end
      <4>1. After(h, x) \in E /\ h.blk[After(h, x)].phys = x
        BY <2>2, <2>3, <3>2 DEF Placed
      <4> QED
        BY <1>3, <2>1, <2>4, <3>2, <4>1
    <3> QED
      BY <3>1, <3>2
  <2>6. \A d \in E : ~(x < d /\ d < After(u, x))
    BY <2>1, <2>2 DEF Placed
  <2>7. IF u.blk[x].phys = Null THEN x = 0
        ELSE u.blk[x].phys \in E /\ After(u, u.blk[x].phys) = x
    <3>1. CASE x = end /\ end < h.end
      BY <1>1, <1>3, <3>1, NatConstants
    <3>2. CASE ~(x = end /\ end < h.end)
      <4>1. u.blk[x].phys = h.blk[x].phys
        BY <1>3, <3>2
      <4>2. x # end
        <5>1. x < h.end
          BY <1>2, <1>3, <2>2 DEF Placed
        <5> QED
          BY <3>2, <5>1
      <4>3. h.blk[x].phys # Null => h.blk[x].phys \in D /\ After(h, h.blk[x].phys) = x
        BY <2>2 DEF Placed
      <4>4. h.blk[x].phys # Null => h.blk[x].phys # b
        BY <4>2, <4>3 DEF end
      <4>5. h.blk[x].phys # Null => h.blk[x].phys # a
        BY <4>3
      <4> QED
        BY <1>3, <2>2, <4>1, <4>3, <4>4, <4>5 DEF Placed
    <3> QED
      BY <3>1, <3>2
  <2>8. u.blk[x].size >= MinSize /\ After(u, x) <= u.end
    BY <1>6, <2>1, <2>2 DEF Placed
  <2> QED
    BY <2>5, <2>6, <2>7, <2>8 DEF Placed
<1>9. u.end > 0 => 0 \in E /\ u.blk[0].phys = Null
  <2> SUFFICES ASSUME h.end > 0 PROVE 0 \in E /\ u.blk[0].phys = Null
    BY <1>6
  <2>1. 0 \in D /\ h.blk[0].phys = Null
    BY DEF Tiled
  <2>2. end # 0 /\ b # 0 /\ 0 \in E
    BY <1>1, <2>1
  <2>3. u.blk[0].phys = h.blk[0].phys
    BY <1>3, <2>2
  <2> QED
    BY <2>1, <2>2, <2>3
<1>10. IF u.last = Null THEN u.end = 0 ELSE u.last \in E /\ After(u, u.last) = u.end
  <2>1. CASE end < h.end
    <3>1. h.last # Null /\ h.last \in D /\ After(h, h.last) = h.end
      BY <1>6, <2>1 DEF Tiled
    <3>2. h.last # b
      BY <1>6, <2>1, <3>1 DEF end
    <3>3. h.last # a
      BY <1>6, <2>1, <3>1
    <3>4. After(u, h.last) = After(h, h.last)
      BY <1>3, <3>1, <3>2, <3>3
    <3> QED
      BY <1>6, <2>1, <3>1, <3>2, <3>4
  <2>2. CASE ~(end < h.end)
    <3>1. end = h.end
      BY <1>6, <2>2
    <3>2. u.last = a
      BY <1>6, <2>2
    <3>3. a \in E /\ a # Null
      BY <1>1, NatConstants
    <3> QED
      BY <1>3, <3>1, <3>2, <3>3
  <2> QED
    BY <2>1, <2>2
<1>11. Tiled(E, u)
  BY <1>7, <1>8, <1>9, <1>10 DEF Tiled
<1> QED
  BY <1>3, <1>11 DEF end

-----------------------------------------------------------------------------
(* A block is handed out                                                   *)

FreeIn(D, h) == {b \in D : h.blk[b].free}
UsedIn(D, h) == {b \in D : ~h.blk[b].free}

\* Free neighbours have a seam between them.
Merged(h, F, S) == \A b \in F : After(h, b) \in F => After(h, b) \in S

\* The blocks F are listed, and the others of D are not.
Sound(D, h, F, S) ==
  /\ D \in SUBSET Nat /\ IsFiniteSet(D) /\ h \in HeapOn(D)
  /\ Tiled(D, h) /\ Linked(D, h, F) /\ Merged(h, F, S)

\* Between the two heaps the blocks in use become those of U, and none moves.
Changed(D, h, E, g, U) ==
  /\ g.end = h.end /\ UsedIn(E, g) = U
  /\ \A x \in UsedIn(D, h) \cap U : g.blk[x].size = h.blk[x].size

LEMMA AfterEnd ==
  ASSUME NEW D \in SUBSET Nat, NEW h \in HeapOn(D), Tiled(D, h), NEW b \in D
  PROVE  /\ b < h.end /\ After(h, b) <= h.end /\ h.end \in Nat
         /\ After(h, b) \in D \/ (After(h, b) = h.end /\ After(h, b) \notin D)
<1>1. \A x \in D : x \in Nat /\ After(h, x) \in Nat /\ x < After(h, x) /\ Placed(D, h, x)
  BY HeapFields DEF Tiled
<1>2. h.end \in Nat
  BY HeapFields
<1>3. \A x \in D : x < h.end /\ After(h, x) <= h.end
  BY <1>1, <1>2 DEF Placed
<1>4. h.end \notin D
  BY <1>2, <1>3
<1>5. After(h, b) = h.end \/ After(h, b) \in D
  BY <1>1 DEF Placed
<1> QED
  BY <1>2, <1>3, <1>4, <1>5

\* The flag of a block is set to v.
Flagged(D, h, b, v, g) ==
  /\ g \in HeapOn(D) /\ g.lists = h.lists /\ g.end = h.end /\ g.last = h.last
  /\ \A x \in D :
       /\ g.blk[x].size = h.blk[x].size /\ g.blk[x].next = h.blk[x].next
       /\ g.blk[x].prev = h.blk[x].prev /\ g.blk[x].phys = h.blk[x].phys
       /\ g.blk[x].free = IF x = b THEN v ELSE h.blk[x].free

LEMMA TakenFields ==
  ASSUME NEW D \in SUBSET Nat, NEW h \in HeapOn(D), NEW b \in D
  PROVE  LET g == [h EXCEPT !.blk[b].free = FALSE] IN
         Flagged(D, h, b, FALSE, g) /\ g.used = h.used
<1> DEFINE k == [h.blk EXCEPT ![b].free = FALSE]
           g == [h EXCEPT !.blk = k]
           r == [size |-> h.blk[b].size, free |-> FALSE, next |-> h.blk[b].next,
                 prev |-> h.blk[b].prev, phys |-> h.blk[b].phys]
<1>1. /\ h.blk \in [D -> Rec] /\ h.lists \in [ClassIndex -> Ptr]
      /\ h.end \in Nat /\ h.used \in Int /\ h.last \in Ptr /\ h.blk[b] \in Rec
  BY DEF HeapOn
<1>2. [h.blk[b] EXCEPT !.free = FALSE] = r
  BY <1>1, FlagRecord
<1>3. r \in Rec
  BY <1>1 DEF Rec
<1>4. /\ r.size = h.blk[b].size /\ r.free = FALSE /\ r.next = h.blk[b].next
      /\ r.prev = h.blk[b].prev /\ r.phys = h.blk[b].phys
  OBVIOUS
<1>5. k = [h.blk EXCEPT ![b] = r]
  <2> HIDE DEF r
  <2> QED
    BY <1>2
<1> HIDE DEF r, k
<1>6. k \in [D -> Rec] /\ k[b] = r /\ \A x \in D : x # b => k[x] = h.blk[x]
  BY <1>1, <1>3, <1>5
<1>7. /\ g \in HeapOn(D) /\ g.blk = k /\ g.lists = h.lists /\ g.end = h.end
      /\ g.used = h.used /\ g.last = h.last
  BY <1>1, <1>6 DEF HeapOn
<1> HIDE DEF g
<1>8. ASSUME NEW x \in D
      PROVE  /\ g.blk[x].size = h.blk[x].size /\ g.blk[x].next = h.blk[x].next
             /\ g.blk[x].prev = h.blk[x].prev /\ g.blk[x].phys = h.blk[x].phys
             /\ g.blk[x].free = IF x = b THEN FALSE ELSE h.blk[x].free
  <2>1. CASE x = b
    BY <1>4, <1>6, <1>7, <2>1
  <2>2. CASE x # b
    BY <1>6, <1>7, <2>2
  <2> QED
    BY <2>1, <2>2
<1>9. Flagged(D, h, b, FALSE, g)
  BY <1>7, <1>8 DEF Flagged
<1>10. g = [h EXCEPT !.blk[b].free = FALSE]
  BY Zenon DEF g, k
<1> QED
  BY <1>7, <1>9, <1>10

LEMMA FreedFields ==
  ASSUME NEW D \in SUBSET Nat, NEW h \in HeapOn(D), NEW b \in D
  PROVE  LET g == [h EXCEPT !.blk[b].free = TRUE,
                            !.used = @ - (h.blk[b].size + Header)] IN
         Flagged(D, h, b, TRUE, g) /\ g.used = h.used - (h.blk[b].size + Header)
<1> DEFINE k == [h.blk EXCEPT ![b].free = TRUE]
           w == h.used - (h.blk[b].size + Header)
           g == [h EXCEPT !.blk = k, !.used = w]
           r == [size |-> h.blk[b].size, free |-> TRUE, next |-> h.blk[b].next,
                 prev |-> h.blk[b].prev, phys |-> h.blk[b].phys]
<1>1. /\ h.blk \in [D -> Rec] /\ h.lists \in [ClassIndex -> Ptr]
      /\ h.end \in Nat /\ h.used \in Int /\ h.last \in Ptr /\ h.blk[b] \in Rec
  BY DEF HeapOn
<1>2. [h.blk[b] EXCEPT !.free = TRUE] = r
  BY <1>1, FlagRecord
<1>3. r \in Rec
  BY <1>1 DEF Rec
<1>4. /\ r.size = h.blk[b].size /\ r.free = TRUE /\ r.next = h.blk[b].next
      /\ r.prev = h.blk[b].prev /\ r.phys = h.blk[b].phys
  OBVIOUS
<1>5. k = [h.blk EXCEPT ![b] = r]
  <2> HIDE DEF r
  <2> QED
    BY <1>2
<1>6. w \in Int
  BY <1>1, NatConstants DEF Rec
<1>7. g = [h EXCEPT !.blk[b].free = TRUE, !.used = @ - (h.blk[b].size + Header)]
  BY Zenon
<1> HIDE DEF r, k, w
<1>8. k \in [D -> Rec] /\ k[b] = r /\ \A x \in D : x # b => k[x] = h.blk[x]
  BY <1>1, <1>3, <1>5
<1>9. /\ g \in HeapOn(D) /\ g.blk = k /\ g.lists = h.lists /\ g.end = h.end
      /\ g.used = w /\ g.last = h.last
  BY <1>1, <1>6, <1>8 DEF HeapOn
<1> HIDE DEF g
<1>10. ASSUME NEW x \in D
       PROVE  /\ g.blk[x].size = h.blk[x].size /\ g.blk[x].next = h.blk[x].next
              /\ g.blk[x].prev = h.blk[x].prev /\ g.blk[x].phys = h.blk[x].phys
              /\ g.blk[x].free = IF x = b THEN TRUE ELSE h.blk[x].free
  <2>1. CASE x = b
    BY <1>4, <1>8, <1>9, <2>1
  <2>2. CASE x # b
    BY <1>8, <1>9, <2>2
  <2> QED
    BY <2>1, <2>2
<1>11. Flagged(D, h, b, TRUE, g)
  BY <1>9, <1>10 DEF Flagged
<1>12. g.used = h.used - (h.blk[b].size + Header)
  BY <1>9 DEF w
<1> QED
  BY <1>7, <1>11, <1>12

\* A flag says nothing of where the block is and on which list.
LEMMA FlaggedSound ==
  ASSUME NEW D, NEW h, NEW F, NEW S, Sound(D, h, F, S), NEW b \in D, NEW v, NEW g,
         Flagged(D, h, b, v, g)
  PROVE  Sound(D, g, F, S)
<1>1. /\ D \in SUBSET Nat /\ IsFiniteSet(D) /\ h \in HeapOn(D)
      /\ Tiled(D, h) /\ Linked(D, h, F) /\ Merged(h, F, S)
  BY DEF Sound
<1>2. /\ g \in HeapOn(D) /\ g.lists = h.lists /\ g.end = h.end /\ g.last = h.last
      /\ \A x \in D :
           /\ g.blk[x].size = h.blk[x].size /\ g.blk[x].next = h.blk[x].next
           /\ g.blk[x].prev = h.blk[x].prev /\ g.blk[x].phys = h.blk[x].phys
  BY DEF Flagged
<1>3. F \subseteq D /\ RestAlone(D, h, F)
  BY <1>1 DEF Linked
<1>4. Linked(D, g, F)
  <2>1. \A x \in F : /\ g.blk[x].next = h.blk[x].next /\ g.blk[x].prev = h.blk[x].prev
                     /\ g.blk[x].size = h.blk[x].size
    BY <1>2, <1>3
  <2>2. \A x \in D \ F : g.blk[x].next = Null /\ g.blk[x].prev = Null
    BY <1>2, <1>3 DEF RestAlone
  <2> QED
    BY <1>1, <1>2, <1>3, <2>1, <2>2, LinkedSame
<1>5. \A x \in D : After(g, x) = After(h, x)
  BY <1>2 DEF After
<1>6. Merged(g, F, S)
  BY <1>1, <1>3, <1>5 DEF Merged
<1>7. Tiled(D, g)
  <2>1. ASSUME NEW x \in D
        PROVE  Placed(D, g, x)
    <3>1. Placed(D, h, x)
      BY <1>1 DEF Tiled
    <3> QED
      BY <1>2, <1>5, <3>1 DEF Placed
  <2> QED
    BY <1>1, <1>2, <1>5, <2>1 DEF Tiled
<1> QED
  BY <1>1, <1>2, <1>4, <1>6, <1>7 DEF Sound

\* A block of the lists is taken off them.
LEMMA UnlinkSound ==
  ASSUME NEW D, NEW h, NEW F, NEW S, Sound(D, h, F, S), NEW b \in F
  PROVE  /\ SameBlocks(D, h, Unlink(h, b))
         /\ \A x \in D : Unlink(h, b).blk[x].free = h.blk[x].free
         /\ Sound(D, Unlink(h, b), F \ {b}, S)
<1> DEFINE u == Unlink(h, b)
<1>1. /\ D \in SUBSET Nat /\ IsFiniteSet(D) /\ h \in HeapOn(D)
      /\ Tiled(D, h) /\ Linked(D, h, F) /\ Merged(h, F, S)
  BY DEF Sound
<1>2. /\ Unlinked(D, h, b, Cls(h, b), h.blk[b].prev, h.blk[b].next, u)
      /\ Linked(D, u, F \ {b})
  BY <1>1, UnlinkRight
<1> HIDE DEF u
<1>3. SameBlocks(D, h, u) /\ \A x \in D : u.blk[x].free = h.blk[x].free
  BY <1>2 DEF Unlinked
<1>4. Tiled(D, u) /\ u \in HeapOn(D)
  BY <1>1, <1>3, TiledSame DEF SameBlocks
<1>5. Merged(u, F \ {b}, S)
  <2>1. \A x \in D : After(u, x) = After(h, x)
    BY <1>3 DEF SameBlocks, After
  <2>2. F \subseteq D
    BY <1>1 DEF Linked
  <2> QED
    BY <1>1, <2>1, <2>2 DEF Merged
<1>6. Sound(D, u, F \ {b}, S)
  BY <1>1, <1>2, <1>4, <1>5 DEF Sound
<1> QED
  BY <1>3, <1>6 DEF u

\* A block with no unmarked free neighbour is put on its list.
LEMMA InsertSound ==
  ASSUME NEW D, NEW h, NEW F, NEW S, Sound(D, h, F, S), NEW b \in D \ F,
         After(h, b) \in F => After(h, b) \in S,
         \A x \in F : After(h, x) = b => b \in S
  PROVE  /\ SameBlocks(D, h, InsertFree(h, b))
         /\ \A x \in D : InsertFree(h, b).blk[x].free = IF x = b THEN TRUE ELSE h.blk[x].free
         /\ Sound(D, InsertFree(h, b), F \cup {b}, S)
<1> DEFINE u == InsertFree(h, b)
<1>1. /\ D \in SUBSET Nat /\ IsFiniteSet(D) /\ h \in HeapOn(D)
      /\ Tiled(D, h) /\ Linked(D, h, F) /\ Merged(h, F, S)
  BY DEF Sound
<1>2. /\ Inserted(D, h, b, Cls(h, b), h.lists[Cls(h, b)], u)
      /\ Linked(D, u, F \cup {b})
  BY <1>1, InsertRight
<1> HIDE DEF u
<1>3. /\ SameBlocks(D, h, u)
      /\ \A x \in D : u.blk[x].free = IF x = b THEN TRUE ELSE h.blk[x].free
  BY <1>2 DEF Inserted
<1>4. Tiled(D, u) /\ u \in HeapOn(D)
  BY <1>1, <1>3, TiledSame DEF SameBlocks
<1>5. Merged(u, F \cup {b}, S)
  <2>1. \A x \in D : After(u, x) = After(h, x)
    BY <1>3 DEF SameBlocks, After
  <2>2. F \subseteq D
    BY <1>1 DEF Linked
  <2>3. After(h, b) # b
    BY <1>1, HeapFields
  <2> QED
    BY <1>1, <2>1, <2>2, <2>3 DEF Merged
<1>6. Sound(D, u, F \cup {b}, S)
  BY <1>1, <1>2, <1>4, <1>5 DEF Sound
<1> QED
  BY <1>3, <1>6 DEF u

\* The block b of the heap h is cut in two, and its rest listed.
Halved(D, h, F, S, b, req, rem, g) ==
  /\ rem \notin D /\ Sound(D \cup {rem}, g, F \cup {rem}, S)
  /\ g.end = h.end /\ g.used = h.used
  /\ g.blk[b].size = req /\ \A x \in D \ {b} : g.blk[x].size = h.blk[x].size
  /\ g.blk[rem].free = TRUE /\ \A x \in D : g.blk[x].free = h.blk[x].free

LEMMA SplitSound ==
  ASSUME NEW D, NEW h, NEW F, NEW S, Sound(D, h, F, S), NEW b \in D \ F,
         NEW req \in Nat, req >= MinSize, Splittable(h.blk[b].size, req),
         After(h, b) \in F => After(h, b) \in S
  PROVE  Halved(D, h, F, S, b, req, Behind(b, req), Split(h, b, req))
<1> DEFINE rem == Behind(b, req)
           E == D \cup {rem}
           g == Split(h, b, req)
<1>1. /\ D \in SUBSET Nat /\ IsFiniteSet(D) /\ h \in HeapOn(D)
      /\ Tiled(D, h) /\ Linked(D, h, F) /\ Merged(h, F, S)
  BY DEF Sound
<1>2. F \subseteq D
  BY <1>1 DEF Linked
<1>3. Placed(D, h, b) /\ b \in Nat
  BY <1>1 DEF Tiled
<1>4. /\ After(h, b) < h.end => After(h, b) \in D
      /\ After(h, b) \in Nat /\ h.end \in Nat
  BY <1>1, <1>3, HeapFields DEF Placed
<1>5. rem \notin D
  <2>1. h.blk[b].size \in Nat /\ After(h, b) = (b + Header) + h.blk[b].size
    BY <1>1, HeapFields DEF After
  <2>2. b < rem /\ rem < After(h, b)
    BY <1>3, <2>1, NatConstants DEF Splittable, Behind
  <2> HIDE DEF rem
  <2> QED
    BY <1>3, <2>2 DEF Placed
<1>6. PICK s : Cut(D, h, b, req, rem, s) /\ g = InsertFree(s, rem)
  <2>1. b + Header + req = rem
    BY DEF Behind
  <2>2. (b + Header) + req \notin D
    BY <1>5 DEF Behind
  <2> QED
    BY <1>1, <1>4, <2>1, <2>2, CutFields
<1>7. rem \in Nat \ D /\ Tiled(E, s)
  <2> HIDE DEF g
  <2>1. rem = Behind(b, req)
    OBVIOUS
  <2> HIDE DEF rem
  <2> QED
    BY <1>1, <1>6, <2>1, CutTiled
<1>8. s \in HeapOn(E) /\ E \in SUBSET Nat /\ IsFiniteSet(E)
  <2>1. IsFiniteSet(E)
    BY <1>1, FS_AddElement
  <2> QED
    BY <1>1, <1>6, <1>7, <2>1 DEF Cut
<1> HIDE DEF rem, g
<1>9. Linked(E, s, F)
  <2>1. s.lists = h.lists
    BY <1>6 DEF Cut
  <2>2. \A x \in F : /\ s.blk[x].next = h.blk[x].next /\ s.blk[x].prev = h.blk[x].prev
                     /\ s.blk[x].size = h.blk[x].size
    BY <1>2, <1>6 DEF Cut
  <2>3. \A x \in E \ F : s.blk[x].next = Null /\ s.blk[x].prev = Null
    BY <1>1, <1>6 DEF Cut, Linked, RestAlone
  <2>4. F \in SUBSET E
    BY <1>2
  <2> HIDE DEF E
  <2> QED
    BY <1>1, <2>1, <2>2, <2>3, <2>4, LinkedSame
<1>10. /\ \A x \in D \ {b} : After(s, x) = After(h, x)
       /\ After(s, b) = rem /\ After(s, rem) = After(h, b)
  <2>1. \A x \in D \ {b} : After(s, x) = After(h, x)
    BY <1>6 DEF Cut, After
  <2>2. s.blk[b].size = req /\ s.blk[rem].size = (h.blk[b].size - Header) - req
    BY <1>6 DEF Cut
  <2>3. h.blk[b].size \in Nat
    BY <1>1, HeapFields
  <2>4. After(s, b) = rem
    BY <2>2 DEF After, rem, Behind
  <2>5. After(s, rem) = After(h, b)
    BY <1>3, <2>2, <2>3, NatConstants DEF After, rem, Behind
  <2> QED
    BY <2>1, <2>4, <2>5
<1>11. \A x \in F : After(s, x) \notin {rem}
  <2> SUFFICES ASSUME NEW x \in F, After(h, x) = rem PROVE FALSE
    BY <1>2, <1>10
  <2>1. rem \in D \/ rem = h.end
    BY <1>1, <1>2, AfterEnd
  <2>2. rem < s.end /\ s.end = h.end
    BY <1>6, <1>8, <1>7, AfterEnd DEF Cut
  <2>3. rem # h.end
    BY <1>4, <1>7, <2>2
  <2> QED
    BY <1>7, <2>1, <2>3
<1>12. Merged(s, F, S)
  BY <1>1, <1>2, <1>10 DEF Merged
<1>13. Sound(E, s, F, S)
  BY <1>7, <1>8, <1>9, <1>12 DEF Sound
<1>14. /\ SameBlocks(E, s, g)
       /\ \A x \in E : g.blk[x].free = IF x = rem THEN TRUE ELSE s.blk[x].free
       /\ Sound(E, g, F \cup {rem}, S)
  <2>1. After(s, rem) \in F => After(s, rem) \in S
    BY <1>10
  <2>2. \A x \in F : After(s, x) = rem => rem \in S
    BY <1>11
  <2>3. rem \in E \ F
    BY <1>2, <1>7
  <2>4. g = InsertFree(s, rem)
    BY <1>6
  <2>5. /\ SameBlocks(E, s, InsertFree(s, rem))
        /\ \A x \in E :
             InsertFree(s, rem).blk[x].free = IF x = rem THEN TRUE ELSE s.blk[x].free
        /\ Sound(E, InsertFree(s, rem), F \cup {rem}, S)
    <3> HIDE DEF E
    <3> QED
      BY <1>13, <2>1, <2>2, <2>3, InsertSound
  <2> QED
    BY <2>4, <2>5, Zenon
<1>15. /\ g.end = h.end /\ g.used = h.used
       /\ g.blk[b].size = req /\ \A x \in D \ {b} : g.blk[x].size = h.blk[x].size
  BY <1>6, <1>14 DEF SameBlocks, Cut
<1>16. g.blk[rem].free = TRUE
  BY <1>14
<1>17. ASSUME NEW x \in D
       PROVE  g.blk[x].free = h.blk[x].free
  <2>1. s.blk[x].free = h.blk[x].free
    BY <1>6 DEF Cut
  <2>2. x # rem /\ x \in E
    BY <1>7
  <2> QED
    BY <1>14, <2>1, <2>2
<1>18. Halved(D, h, F, S, b, req, rem, g)
  BY <1>5, <1>14, <1>15, <1>16, <1>17 DEF Halved
<1> QED
  BY <1>18 DEF rem, g

\* kmalloc hands out the block b: the part that is asked for stays with it.
LEMMA FoundSound ==
  ASSUME NEW D, NEW h, NEW S, Sound(D, h, FreeIn(D, h), S), NEW b \in FreeIn(D, h),
         NEW req \in Nat, req >= MinSize, req <= h.blk[b].size
  PROVE  LET g == Found(h, b, req) IN
         \E E : /\ Sound(E, g, FreeIn(E, g), S) /\ b \in E
                /\ Changed(D, h, E, g, UsedIn(D, h) \cup {b})
                /\ g.used = h.used /\ req <= g.blk[b].size
<1> DEFINE F == FreeIn(D, h)
           u == Unlink(h, b)
           rem == Behind(b, req)
           s == IF Splittable(h.blk[b].size, req) THEN Split(u, b, req) ELSE u
           g == [s EXCEPT !.blk[b].free = FALSE]
           E == IF Splittable(h.blk[b].size, req) THEN D \cup {rem} ELSE D
           G == IF Splittable(h.blk[b].size, req) THEN (F \ {b}) \cup {rem} ELSE F \ {b}
<1>1. /\ D \in SUBSET Nat /\ h \in HeapOn(D) /\ b \in D /\ Merged(h, F, S)
      /\ \A x \in D : h.blk[x].free \in BOOLEAN
  BY HeapFields DEF Sound, FreeIn
<1>2. /\ SameBlocks(D, h, u)
      /\ \A x \in D : u.blk[x].free = h.blk[x].free
      /\ Sound(D, u, F \ {b}, S)
  BY UnlinkSound
<1> HIDE DEF u, F
<1>3. /\ Sound(E, s, G, S) /\ D \subseteq E /\ s.end = h.end /\ s.used = h.used
      /\ req <= s.blk[b].size /\ \A x \in D \ {b} : s.blk[x].size = h.blk[x].size
      /\ \A x \in D : s.blk[x].free = h.blk[x].free
      /\ \A x \in E \ D : s.blk[x].free = TRUE
      /\ E \ D = G \ F /\ G \cap F = F \ {b} /\ F \subseteq D
  <2>1. F \subseteq D
    BY DEF F, FreeIn
  <2>2. CASE Splittable(h.blk[b].size, req)
    <3>1. u.blk[b].size = h.blk[b].size /\ After(u, b) = After(h, b)
      BY <1>1, <1>2 DEF SameBlocks, After
    <3>2. After(u, b) \in F \ {b} => After(u, b) \in S
      BY <1>1, <3>1 DEF Merged, F
    <3>3. b \in D \ (F \ {b})
      BY <1>1
    <3>4. /\ rem \notin D
          /\ Sound(D \cup {rem}, Split(u, b, req), (F \ {b}) \cup {rem}, S)
          /\ Split(u, b, req).end = u.end /\ Split(u, b, req).used = u.used
          /\ Split(u, b, req).blk[b].size = req
          /\ \A x \in D \ {b} : Split(u, b, req).blk[x].size = u.blk[x].size
          /\ Split(u, b, req).blk[rem].free = TRUE
          /\ \A x \in D : Split(u, b, req).blk[x].free = u.blk[x].free
      <4>1. Splittable(u.blk[b].size, req)
        BY <2>2, <3>1
      <4>2. Halved(D, u, F \ {b}, S, b, req, rem, Split(u, b, req))
        BY <1>2, <3>2, <3>3, <4>1, SplitSound
      <4> QED
        BY <4>2 DEF Halved
    <3>5. u.end = h.end /\ u.used = h.used /\ \A x \in D : u.blk[x].size = h.blk[x].size
      BY <1>2 DEF SameBlocks
    <3>6. s = Split(u, b, req) /\ E = D \cup {rem} /\ G = (F \ {b}) \cup {rem}
      BY <2>2
    <3>7. E \ D = G \ F /\ G \cap F = F \ {b}
      BY <2>1, <3>4, <3>6
    <3> HIDE DEF s, E, G, rem
    <3>8. Sound(E, s, G, S) /\ D \subseteq E /\ s.end = h.end /\ s.used = h.used
      BY <3>4, <3>5, <3>6
    <3>9. req <= s.blk[b].size /\ \A x \in D \ {b} : s.blk[x].size = h.blk[x].size
      BY <3>4, <3>5, <3>6
    <3>10. /\ \A x \in D : s.blk[x].free = h.blk[x].free
           /\ \A x \in E \ D : s.blk[x].free = TRUE
      BY <1>2, <3>4, <3>6
    <3> QED
      BY <2>1, <3>7, <3>8, <3>9, <3>10
  <2>3. CASE ~Splittable(h.blk[b].size, req)
    <3>1. s = u /\ E = D /\ G = F \ {b}
      BY <2>3
    <3>2. req <= u.blk[b].size
      BY <1>1, <1>2 DEF SameBlocks
    <3> HIDE DEF s, E, G
    <3> QED
      BY <1>2, <2>1, <3>1, <3>2 DEF SameBlocks
  <2> QED
    BY <2>2, <2>3
<1>4. g = Found(h, b, req)
  BY DEF Found, u
<1> HIDE DEF E, G, s
<1>5. b \in E
  BY <1>1, <1>3
<1>6. Flagged(E, s, b, FALSE, g) /\ g.used = s.used
  <2>1. E \in SUBSET Nat /\ s \in HeapOn(E)
    BY <1>3 DEF Sound
  <2> QED
    BY <1>5, <2>1, TakenFields
<1> HIDE DEF g
<1>7. Sound(E, g, G, S)
  BY <1>3, <1>6, <1>5, FlaggedSound
<1>8. \A x \in E : g.blk[x].free = IF x = b THEN FALSE ELSE s.blk[x].free
  BY <1>6 DEF Flagged
<1>9. \A x \in E : x \in G <=> g.blk[x].free = TRUE
  <2> SUFFICES ASSUME NEW x \in E PROVE x \in G <=> g.blk[x].free = TRUE
    OBVIOUS
  <2>1. CASE x = b
    BY <1>1, <1>3, <1>8, <2>1
  <2>2. CASE x # b /\ x \in D
    <3>1. g.blk[x].free = h.blk[x].free
      BY <1>3, <1>8, <2>2
    <3>2. x \in F <=> h.blk[x].free = TRUE
      BY <1>1, <2>2 DEF F, FreeIn
    <3> QED
      BY <1>3, <2>2, <3>1, <3>2
  <2>3. CASE x \notin D
    <3>1. x # b /\ x \in G /\ s.blk[x].free = TRUE
      BY <1>1, <1>3, <2>3
    <3> QED
      BY <1>8, <3>1
  <2> QED
    BY <2>1, <2>2, <2>3
<1>10. g \in HeapOn(E) /\ E \in SUBSET Nat /\ G \subseteq E
  BY <1>7 DEF Sound, Linked
<1>11. \A x \in E : g.blk[x].free \in BOOLEAN
  BY <1>10, HeapFields
<1>12. FreeIn(E, g) = G /\ UsedIn(E, g) = E \ G
  BY <1>9, <1>10, <1>11 DEF FreeIn, UsedIn
<1>13. UsedIn(D, h) = D \ F
  BY <1>1 DEF UsedIn, F, FreeIn
<1>14. E \ G = (D \ F) \cup {b}
  BY <1>1, <1>3, <1>5
<1>15. Changed(D, h, E, g, UsedIn(D, h) \cup {b})
  <2>1. b \notin UsedIn(D, h)
    BY <1>13 DEF F
  <2>2. \A x \in D \ {b} : g.blk[x].size = h.blk[x].size
    BY <1>3, <1>6 DEF Flagged
  <2>3. \A x \in UsedIn(D, h) : g.blk[x].size = h.blk[x].size
    BY <1>13, <2>1, <2>2
  <2>4. g.end = h.end
    BY <1>3, <1>6 DEF Flagged
  <2> QED
    BY <1>12, <1>13, <1>14, <2>3, <2>4 DEF Changed
<1>16. g.used = h.used /\ req <= g.blk[b].size
  BY <1>3, <1>6, <1>5 DEF Flagged
<1>17. Sound(E, g, FreeIn(E, g), S)
  BY <1>7, <1>12
<1> QED
  BY <1>4, <1>5, <1>15, <1>16, <1>17

-----------------------------------------------------------------------------
(* A block is given back                                                   *)

\* a takes in the block b, both off the lists.
Joint(D, h, a, b, F, S, g) ==
  /\ Sound(D \ {b}, g, F, S) /\ g.end = h.end /\ g.used = h.used
  /\ After(g, a) = After(h, b)
  /\ \A x \in D \ {b} : g.blk[x].free = h.blk[x].free
  /\ \A x \in D \ {a, b} : g.blk[x].size = h.blk[x].size

LEMMA AbsorbSound ==
  ASSUME NEW D, NEW h, NEW F, NEW S, Sound(D, h, F, S), NEW a \in D \ F, NEW b \in D \ F,
         After(h, a) = b
  PROVE  Joint(D, h, a, b, F, S, Absorb(h, a, b))
<1> DEFINE E == D \ {b}
           g == Absorb(h, a, b)
<1>1. /\ D \in SUBSET Nat /\ IsFiniteSet(D) /\ h \in HeapOn(D)
      /\ Tiled(D, h) /\ Linked(D, h, F) /\ Merged(h, F, S) /\ F \subseteq D
  BY DEF Sound, Linked
<1>2. /\ a \in Nat /\ b \in Nat /\ a < After(h, a)
      /\ After(h, b) \in Nat /\ b < After(h, b) /\ h.end \in Nat
  BY <1>1, HeapFields
<1>3. Placed(D, h, b)
  BY <1>1 DEF Tiled
<1>4. a # b
  BY <1>2
<1>5. After(h, b) < h.end => After(h, b) \in D \ {b}
  BY <1>2, <1>3 DEF Placed
<1>6. Absorbed(D, h, a, b, g)
  <2> HIDE DEF g
  <2> USE DEF g
  <2> QED
    BY <1>1, <1>4, <1>5, AbsorbFields
<1> HIDE DEF g
<1>7. Tiled(E, g) /\ After(g, a) = After(h, b)
  BY <1>1, <1>6, AbsorbTiled
<1>8. g \in HeapOn(E) /\ E \in SUBSET Nat /\ IsFiniteSet(E)
  BY <1>1, <1>6, FS_RemoveElement DEF Absorbed
<1>9. \A x \in D \ {a, b} : g.blk[x].size = h.blk[x].size /\ After(g, x) = After(h, x)
  BY <1>6 DEF Absorbed, After
<1>10. Linked(E, g, F)
  <2>1. g.lists = h.lists /\ F \in SUBSET E
    BY <1>1, <1>6 DEF Absorbed
  <2>2. \A x \in F : /\ g.blk[x].next = h.blk[x].next /\ g.blk[x].prev = h.blk[x].prev
                     /\ g.blk[x].size = h.blk[x].size
    BY <1>1, <1>6, <1>9 DEF Absorbed
  <2>3. Linked(D, h, F)
    BY <1>1
  <2>4. \A x \in E \ F : g.blk[x].next = Null /\ g.blk[x].prev = Null
    <3>1. RestAlone(D, h, F)
      BY <1>1 DEF Linked
    <3> QED
      BY <1>6, <3>1 DEF Absorbed, RestAlone
  <2> HIDE DEF E
  <2> QED
    BY <2>1, <2>2, <2>3, <2>4, LinkedSame
<1>11. Merged(g, F, S)
  <2>1. \A x \in F : After(g, x) = After(h, x)
    BY <1>1, <1>9
  <2> QED
    BY <1>1, <2>1 DEF Merged
<1>12. Sound(E, g, F, S)
  BY <1>7, <1>8, <1>10, <1>11 DEF Sound
<1> QED
  BY <1>6, <1>7, <1>9, <1>12 DEF Joint, Absorbed, g

\* kfree has freed b and is about to merge it: of the free blocks all but b are
\* listed.
Loose(D, h, b, F, S) ==
  /\ Sound(D, h, F, S) /\ b \in D \ F /\ FreeIn(D, h) = F \cup {b}

\* Merging keeps what is in use where it is.
Kept(D, h, E, g) ==
  /\ g.end = h.end /\ g.used = h.used /\ UsedIn(E, g) = UsedIn(D, h)
  /\ \A x \in UsedIn(D, h) : g.blk[x].size = h.blk[x].size

LEMMA MergeNextSound ==
  ASSUME NEW D, NEW h, NEW b, NEW F, NEW S, Loose(D, h, b, F, S)
  PROVE  LET g == MergeNext(h, b) IN
         \E E, G : /\ Loose(E, g, b, G, S) /\ Kept(D, h, E, g)
                   /\ After(g, b) \in G => After(g, b) \in S
<1> DEFINE n == After(h, b)
           u == Unlink(h, n)
           v == Absorb(u, b, n)
           g == MergeNext(h, b)
<1>1. /\ Sound(D, h, F, S) /\ b \in D \ F /\ FreeIn(D, h) = F \cup {b}
      /\ D \in SUBSET Nat /\ h \in HeapOn(D) /\ Tiled(D, h) /\ F \subseteq D
  BY DEF Loose, Sound, Linked
<1>2. n \in Nat /\ b \in Nat /\ b < n /\ h.end \in Nat
  BY <1>1, HeapFields
<1>3. n < h.end => n \in D
  <2>1. Placed(D, h, b)
    BY <1>1 DEF Tiled
  <2> QED
    BY <1>2, <2>1 DEF Placed
<1>4. \A x \in F : x \in D /\ h.blk[x].free
  BY <1>1 DEF FreeIn
<1> HIDE DEF n
<1>5. CASE n < h.end /\ h.blk[n].free
  <2>1. n \in F
    <3>1. n \in FreeIn(D, h)
      BY <1>3, <1>5 DEF FreeIn
    <3>2. n # b
      BY <1>2
    <3> QED
      BY <1>1, <3>1, <3>2
  <2>2. g = v
    BY <1>5 DEF MergeNext, n
  <2>3. /\ SameBlocks(D, h, u) /\ \A x \in D : u.blk[x].free = h.blk[x].free
        /\ Sound(D, u, F \ {n}, S)
    BY <1>1, <2>1, UnlinkSound
  <2>4. \A x \in D : After(u, x) = After(h, x) /\ u.blk[x].size = h.blk[x].size
    BY <2>3 DEF SameBlocks, After
  <2> HIDE DEF u
  <2>5. Joint(D, u, b, n, F \ {n}, S, v)
    <3>1. After(u, b) = n /\ b \in D \ (F \ {n}) /\ n \in D \ (F \ {n})
      BY <1>1, <2>1, <2>4 DEF n
    <3> QED
      BY <2>3, <3>1, AbsorbSound
  <2> HIDE DEF v, g
  <2> DEFINE E == D \ {n}
             G == F \ {n}
  <2>6. /\ Sound(E, v, G, S) /\ v.end = u.end /\ v.used = u.used
        /\ After(v, b) = After(u, n)
        /\ \A x \in E : v.blk[x].free = u.blk[x].free
        /\ \A x \in D \ {b, n} : v.blk[x].size = u.blk[x].size
    BY <2>5 DEF Joint
  <2>7. \A x \in E : v.blk[x].free = h.blk[x].free
    BY <2>3, <2>6
  <2>8. FreeIn(E, v) = G \cup {b}
    <3>1. FreeIn(E, v) = FreeIn(D, h) \ {n}
      BY <2>7 DEF FreeIn
    <3> QED
      BY <1>1, <1>2, <3>1
  <2>9. Loose(E, v, b, G, S)
    BY <1>1, <1>2, <2>6, <2>8 DEF Loose
  <2>10. UsedIn(E, v) = UsedIn(D, h)
    BY <1>4, <2>1, <2>7 DEF UsedIn
  <2>11. b \notin UsedIn(D, h) /\ n \notin UsedIn(D, h)
    BY <1>1, <2>1 DEF UsedIn, FreeIn
  <2>12. Kept(D, h, E, v)
    <3>1. \A x \in UsedIn(D, h) : v.blk[x].size = h.blk[x].size
      BY <2>4, <2>6, <2>11 DEF UsedIn
    <3>2. v.end = h.end /\ v.used = h.used
      BY <2>3, <2>6 DEF SameBlocks
    <3> QED
      BY <2>10, <3>1, <3>2 DEF Kept
  <2>13. After(v, b) \in G => After(v, b) \in S
    <3>1. After(v, b) = After(h, n)
      BY <2>1, <1>4, <2>4, <2>6
    <3>2. Merged(h, F, S)
      BY <1>1 DEF Sound
    <3> QED
      BY <2>1, <3>1, <3>2 DEF Merged
  <2> QED
    BY <2>2, <2>9, <2>12, <2>13 DEF g
<1>6. CASE ~(n < h.end /\ h.blk[n].free)
  <2>1. g = h
    BY <1>6 DEF MergeNext, n
  <2>2. n \notin F
    <3>1. \A x \in D : x < h.end
      BY <1>1, AfterEnd
    <3> QED
      BY <1>4, <1>6, <3>1
  <2>3. Kept(D, h, D, h)
    BY DEF Kept
  <2> HIDE DEF g
  <2> QED
    BY <2>1, <2>2, <2>3 DEF n, g
<1> QED
  BY <1>5, <1>6

LEMMA MergePrevSound ==
  ASSUME NEW D, NEW h, NEW b, NEW F, NEW S, Loose(D, h, b, F, S),
         After(h, b) \in F => After(h, b) \in S
  PROVE  LET g == MergePrev(h, b) IN
         \E E : Sound(E, g, FreeIn(E, g), S) /\ Kept(D, h, E, g)
<1> DEFINE p == h.blk[b].phys
           u == Unlink(h, p)
           v == Absorb(u, p, b)
           g == MergePrev(h, b)
<1>1. /\ Sound(D, h, F, S) /\ b \in D \ F /\ FreeIn(D, h) = F \cup {b}
      /\ D \in SUBSET Nat /\ h \in HeapOn(D) /\ Tiled(D, h) /\ F \subseteq D
      /\ Merged(h, F, S)
  BY DEF Loose, Sound, Linked
<1>2. IF p = Null THEN b = 0 ELSE p \in D /\ After(h, p) = b
  <2>1. Placed(D, h, b)
    BY <1>1 DEF Tiled
  <2> QED
    BY <2>1 DEF Placed
<1>3. \A x \in F : x \in D /\ h.blk[x].free
  BY <1>1 DEF FreeIn
<1>4. h.blk[b].free /\ b \notin UsedIn(D, h)
  <2>1. b \in FreeIn(D, h)
    BY <1>1
  <2> QED
    BY <2>1 DEF FreeIn, UsedIn
<1> HIDE DEF p
<1>5. CASE MergesPrev(h, b)
  <2>1. p # Null /\ p \in D /\ After(h, p) = b /\ h.blk[p].free
    BY <1>2, <1>5 DEF MergesPrev, p
  <2>2. p # b
    <3>1. p \in Nat /\ p < After(h, p)
      BY <1>1, <2>1, HeapFields
    <3> QED
      BY <2>1, <3>1
  <2>3. p \in F
    BY <1>1, <2>1, <2>2 DEF FreeIn
  <2>4. g = InsertFree(v, p)
    BY <1>5 DEF MergePrev, p
  <2>5. /\ SameBlocks(D, h, u) /\ \A x \in D : u.blk[x].free = h.blk[x].free
        /\ Sound(D, u, F \ {p}, S)
    BY <1>1, <2>3, UnlinkSound
  <2>6. \A x \in D : After(u, x) = After(h, x) /\ u.blk[x].size = h.blk[x].size
    BY <2>5 DEF SameBlocks, After
  <2> HIDE DEF u
  <2>7. Joint(D, u, p, b, F \ {p}, S, v)
    <3>1. After(u, p) = b /\ b \in D \ (F \ {p}) /\ p \in D \ (F \ {p})
      BY <1>1, <2>1, <2>6
    <3> QED
      BY <2>5, <3>1, AbsorbSound
  <2> HIDE DEF v
  <2> DEFINE E == D \ {b}
             G == F \ {p}
  <2>8. /\ Sound(E, v, G, S) /\ v.end = u.end /\ v.used = u.used
        /\ After(v, p) = After(u, b)
        /\ \A x \in E : v.blk[x].free = u.blk[x].free
        /\ \A x \in D \ {p, b} : v.blk[x].size = u.blk[x].size
    BY <2>7 DEF Joint
  <2>9. p \in E \ G
    BY <2>1, <2>2
  <2>10. After(v, p) \in G => After(v, p) \in S
    <3>1. After(v, p) = After(h, b)
      BY <1>1, <2>6, <2>8
    <3> QED
      BY <3>1
  <2>11. \A x \in G : After(v, x) = p => p \in S
    <3> SUFFICES ASSUME NEW x \in G, After(v, x) = p PROVE p \in S
      OBVIOUS
    <3>1. x \in D \ {p, b}
      BY <1>1
    <3>2. v.blk[x].size = h.blk[x].size
      BY <2>6, <2>8, <3>1
    <3>3. After(h, x) = p
      BY <3>2 DEF After
    <3> QED
      BY <1>1, <2>3, <3>3 DEF Merged
  <2> HIDE DEF g, E, G
  <2>12. /\ SameBlocks(E, v, InsertFree(v, p))
         /\ \A x \in E : InsertFree(v, p).blk[x].free = IF x = p THEN TRUE ELSE v.blk[x].free
         /\ Sound(E, InsertFree(v, p), G \cup {p}, S)
    BY <2>8, <2>9, <2>10, <2>11, InsertSound
  <2>13. /\ SameBlocks(E, v, g)
         /\ \A x \in E : g.blk[x].free = IF x = p THEN TRUE ELSE v.blk[x].free
         /\ Sound(E, g, G \cup {p}, S)
    BY <2>4, <2>12, Zenon
  <2>14. \A x \in E : g.blk[x].free <=> h.blk[x].free
    BY <2>1, <2>5, <2>8, <2>13 DEF E
  <2>15. FreeIn(E, g) = G \cup {p}
    <3>1. FreeIn(E, g) = FreeIn(D, h) \ {b}
      BY <2>14 DEF FreeIn, E
    <3> QED
      BY <1>1, <2>3, <3>1 DEF G
  <2>16. UsedIn(E, g) = UsedIn(D, h)
    BY <1>4, <2>14 DEF UsedIn, E
  <2>17. \A x \in UsedIn(D, h) : g.blk[x].size = h.blk[x].size
    <3> SUFFICES ASSUME NEW x \in UsedIn(D, h) PROVE g.blk[x].size = h.blk[x].size
      OBVIOUS
    <3>1. x \in D \ {p, b}
      BY <1>4, <2>1 DEF UsedIn
    <3>2. v.blk[x].size = h.blk[x].size
      BY <2>6, <2>8, <3>1
    <3> QED
      BY <2>13, <3>1, <3>2 DEF SameBlocks, E
  <2>18. g.end = h.end /\ g.used = h.used
    BY <2>5, <2>8, <2>13 DEF SameBlocks
  <2>19. Kept(D, h, E, g)
    BY <2>16, <2>17, <2>18 DEF Kept
  <2>20. Sound(E, g, FreeIn(E, g), S)
    BY <2>13, <2>15
  <2> QED
    BY <2>19, <2>20 DEF g
<1>6. CASE ~MergesPrev(h, b)
  <2>1. g = InsertFree(h, b)
    BY <1>6 DEF MergePrev
  <2>2. \A x \in F : After(h, x) = b => b \in S
    <3> SUFFICES ASSUME NEW x \in F, After(h, x) = b PROVE FALSE
      OBVIOUS
    <3>1. Placed(D, h, x) /\ b < h.end /\ b \in Nat /\ h.end \in Nat
      BY <1>1, AfterEnd DEF Tiled
    <3>2. h.blk[b].phys = x
      BY <3>1 DEF Placed
    <3>3. x # Null
      BY <1>1, NatConstants
    <3> QED
      BY <1>3, <1>6, <3>2, <3>3 DEF MergesPrev
  <2> HIDE DEF g
  <2>3. /\ SameBlocks(D, h, InsertFree(h, b))
        /\ \A x \in D : InsertFree(h, b).blk[x].free = IF x = b THEN TRUE ELSE h.blk[x].free
        /\ Sound(D, InsertFree(h, b), F \cup {b}, S)
    BY <1>1, <2>2, InsertSound
  <2>4. /\ SameBlocks(D, h, g)
        /\ \A x \in D : g.blk[x].free = IF x = b THEN TRUE ELSE h.blk[x].free
        /\ Sound(D, g, F \cup {b}, S)
    BY <2>1, <2>3, Zenon
  <2>5. \A x \in D : g.blk[x].free <=> h.blk[x].free
    BY <1>4, <2>4
  <2>6. FreeIn(D, g) = F \cup {b} /\ UsedIn(D, g) = UsedIn(D, h)
    BY <1>1, <2>5 DEF FreeIn, UsedIn
  <2>7. Kept(D, h, D, g)
    BY <2>4, <2>6 DEF Kept, SameBlocks, UsedIn
  <2>8. Sound(D, g, FreeIn(D, g), S)
    BY <2>4, <2>6
  <2> QED
    BY <2>7, <2>8 DEF g
<1> QED
  BY <1>5, <1>6

\* kfree.
LEMMA FreedSound ==
  ASSUME NEW D, NEW h, NEW S, Sound(D, h, FreeIn(D, h), S), NEW b \in UsedIn(D, h)
  PROVE  LET freed == [h EXCEPT !.blk[b].free = TRUE,
                                !.used = @ - (h.blk[b].size + Header)]
             g == MergePrev(MergeNext(freed, b), b)
         IN \E E : /\ Sound(E, g, FreeIn(E, g), S)
                   /\ Changed(D, h, E, g, UsedIn(D, h) \ {b})
                   /\ g.used = h.used - (h.blk[b].size + Header)
<1> DEFINE freed == [h EXCEPT !.blk[b].free = TRUE,
                              !.used = @ - (h.blk[b].size + Header)]
           m == MergeNext(freed, b)
           g == MergePrev(m, b)
           F == FreeIn(D, h)
<1>1. D \in SUBSET Nat /\ h \in HeapOn(D) /\ b \in D /\ b \notin F /\ F \subseteq D
  BY DEF Sound, UsedIn, FreeIn
<1>2. Flagged(D, h, b, TRUE, freed) /\ freed.used = h.used - (h.blk[b].size + Header)
  BY <1>1, FreedFields
<1> HIDE DEF freed, F
<1>3. Sound(D, freed, F, S)
  BY <1>1, <1>2, FlaggedSound DEF F
<1>4. \A x \in D : freed.blk[x].free = IF x = b THEN TRUE ELSE h.blk[x].free
  BY <1>2 DEF Flagged
<1>5. FreeIn(D, freed) = F \cup {b} /\ UsedIn(D, freed) = UsedIn(D, h) \ {b}
  BY <1>1, <1>4 DEF FreeIn, UsedIn, F
<1>6. Loose(D, freed, b, F, S)
  BY <1>1, <1>3, <1>5 DEF Loose
<1>7. PICK E, G : /\ Loose(E, m, b, G, S) /\ Kept(D, freed, E, m)
                  /\ After(m, b) \in G => After(m, b) \in S
  BY <1>6, MergeNextSound
<1> HIDE DEF m
<1>8. PICK K : Sound(K, g, FreeIn(K, g), S) /\ Kept(E, m, K, g)
  BY <1>7, MergePrevSound
<1> HIDE DEF g
<1>9. g.used = h.used - (h.blk[b].size + Header)
  BY <1>2, <1>7, <1>8 DEF Kept
<1>10. Changed(D, h, K, g, UsedIn(D, h) \ {b})
  <2>1. g.end = h.end
    BY <1>2, <1>7, <1>8 DEF Kept, Flagged
  <2>2. UsedIn(K, g) = UsedIn(D, h) \ {b}
    BY <1>5, <1>7, <1>8 DEF Kept
  <2>3. \A x \in UsedIn(D, h) \ {b} : g.blk[x].size = freed.blk[x].size
    BY <1>5, <1>7, <1>8 DEF Kept
  <2>4. \A x \in UsedIn(D, h) : freed.blk[x].size = h.blk[x].size
    BY <1>2 DEF Flagged, UsedIn
  <2> QED
    BY <2>1, <2>2, <2>3, <2>4 DEF Changed
<1> QED
  BY <1>8, <1>9, <1>10 DEF g, m, freed

-----------------------------------------------------------------------------
(* The heap grows                                                          *)

\* A block of sz bytes is added at n, behind the last, and listed.
Added(D, h, n, sz, g) ==
  LET E == D \cup {n} IN
  /\ g \in HeapOn(E) /\ Linked(E, g, FreeIn(D, h) \cup {n})
  /\ g.used = h.used /\ g.last = n /\ After(g, n) = g.end
  /\ g.blk[n].size = sz /\ g.blk[n].free = TRUE /\ g.blk[n].phys = h.last
  /\ \A x \in D : /\ g.blk[x].size = h.blk[x].size /\ g.blk[x].free = h.blk[x].free
                  /\ g.blk[x].phys = h.blk[x].phys

LEMMA ExpandedFields ==
  ASSUME NEW D \in SUBSET Nat, NEW h \in HeapOn(D), Linked(D, h, FreeIn(D, h)),
         h.end \notin D, NEW req \in Nat \ {0}
  PROVE  /\ Added(D, h, h.end, Grown(req) - Header, Expanded(h, req))
         /\ Expanded(h, req).end = h.end + Grown(req)
         /\ Grown(req) \in Nat /\ req + Header <= Grown(req)
<1> DEFINE n   == h.end
           F   == FreeIn(D, h)
           E   == D \cup {n}
           up  == Grown(req)
           new == [size |-> up - Header, free |-> TRUE,
                   next |-> Null, prev |-> Null, phys |-> h.last]
           k   == With(h.blk, n, new)
           h1  == [h EXCEPT !.blk = k, !.last = n]
           v   == InsertFree(h1, n)
           g   == Expanded(h, req)
<1>1. /\ h.blk \in [D -> Rec] /\ h.lists \in [ClassIndex -> Ptr]
      /\ n \in Nat /\ h.used \in Int /\ h.last \in Ptr
  BY DEF HeapOn
<1>2. up \in Nat /\ req + Header <= up
  <2>1. req + Header \in Nat \ {0} /\ Page \in Nat \ {0}
    BY NatConstants
  <2> QED
    BY <2>1, RoundUpRight DEF Grown
<1> HIDE DEF up
<1>3. up - Header \in Nat
  BY <1>2, NatConstants
<1>4. new \in Rec
  BY <1>1, <1>3 DEF Rec, Ptr
<1>5. /\ new.size = up - Header /\ new.free = TRUE /\ new.next = Null
      /\ new.prev = Null /\ new.phys = h.last
  OBVIOUS
<1>6. g = [v EXCEPT !.end = @ + up]
  BY Zenon DEF Expanded, up
<1> HIDE DEF new, g
<1>7. k \in [E -> Rec] /\ k[n] = new /\ \A x \in D : k[x] = h.blk[x]
  <2>1. k = [y \in E |-> IF y = n THEN new ELSE h.blk[y]]
    BY <1>1 DEF With
  <2> HIDE DEF k, n
  <2> QED
    BY <1>1, <1>4, <2>1 DEF n
<1> HIDE DEF k
<1>8. /\ h1 \in HeapOn(E) /\ h1.blk = k /\ h1.lists = h.lists /\ h1.end = n
      /\ h1.used = h.used /\ h1.last = n
  <2>1. n \in Ptr
    BY <1>1 DEF Ptr
  <2> HIDE DEF E
  <2> QED
    BY <1>1, <1>7, <2>1 DEF HeapOn
<1> HIDE DEF h1
<1>9. E \in SUBSET Nat /\ F \subseteq D /\ n \in E \ F /\ n \notin D
  BY <1>1 DEF FreeIn
<1>10. Linked(E, h1, F)
  <2>1. Linked(D, h, F) /\ RestAlone(D, h, F)
    BY DEF Linked
  <2>2. \A x \in F : /\ h1.blk[x].next = h.blk[x].next /\ h1.blk[x].prev = h.blk[x].prev
                     /\ h1.blk[x].size = h.blk[x].size
    BY <1>7, <1>8, <1>9
  <2>3. \A x \in E \ F : h1.blk[x].next = Null /\ h1.blk[x].prev = Null
    BY <1>5, <1>7, <1>8, <2>1 DEF RestAlone
  <2>4. F \in SUBSET E /\ h1.lists = h.lists
    BY <1>8, <1>9
  <2> HIDE DEF E, F
  <2> QED
    BY <2>1, <2>2, <2>3, <2>4, LinkedSame
<1>11. /\ Inserted(E, h1, n, Cls(h1, n), h1.lists[Cls(h1, n)], v)
       /\ Linked(E, v, F \cup {n})
  <2> HIDE DEF E, F, n
  <2> QED
    BY <1>8, <1>9, <1>10, InsertRight
<1> HIDE DEF v
<1>12. /\ v \in HeapOn(E) /\ v.end = n /\ v.used = h.used /\ v.last = n
       /\ \A x \in E : v.blk[x].size = h1.blk[x].size /\ v.blk[x].phys = h1.blk[x].phys
       /\ \A x \in E : v.blk[x].free = IF x = n THEN TRUE ELSE h1.blk[x].free
  BY <1>8, <1>11 DEF Inserted, SameBlocks
<1>13. /\ g \in HeapOn(E) /\ g.end = n + up /\ g.used = v.used /\ g.last = v.last
       /\ g.blk = v.blk /\ g.lists = v.lists
  <2>1. n + up \in Nat
    BY <1>1, <1>2
  <2>2. g = [v EXCEPT !.end = n + up]
    BY <1>6, <1>12 DEF HeapOn
  <2> HIDE DEF n, E
  <2> QED
    BY <1>12, <2>1, <2>2 DEF HeapOn
<1>14. Linked(E, g, F \cup {n})
  <2> DEFINE G == F \cup {n}
  <2>1. Linked(E, v, G) /\ RestAlone(E, v, G) /\ G \in SUBSET E
    BY <1>11 DEF Linked
  <2>2. g.lists = v.lists /\ g.blk = v.blk
    BY <1>13
  <2>3. /\ \A x \in G : /\ g.blk[x].next = v.blk[x].next /\ g.blk[x].prev = v.blk[x].prev
                       /\ g.blk[x].size = v.blk[x].size
        /\ \A x \in E \ G : g.blk[x].next = Null /\ g.blk[x].prev = Null
    BY <2>1, <2>2 DEF RestAlone
  <2> HIDE DEF E, G
  <2> QED
    BY <2>1, <2>2, <2>3, LinkedSame DEF G
<1>15. g.blk[n].size = up - Header /\ g.blk[n].free = TRUE /\ g.blk[n].phys = h.last
  <2>1. h1.blk[n] = new /\ n \in E
    BY <1>7, <1>8, <1>9
  <2>2. v.blk[n].size = new.size /\ v.blk[n].phys = new.phys /\ v.blk[n].free = TRUE
    BY <1>12, <2>1
  <2> QED
    BY <1>5, <1>13, <2>2
<1>16. After(g, n) = g.end
  <2> HIDE DEF n
  <2> QED
    BY <1>1, <1>2, <1>13, <1>15, NatConstants DEF After
<1>17. ASSUME NEW x \in D
       PROVE  /\ g.blk[x].size = h.blk[x].size /\ g.blk[x].free = h.blk[x].free
              /\ g.blk[x].phys = h.blk[x].phys
  <2>1. h1.blk[x] = h.blk[x] /\ x # n /\ x \in E
    BY <1>7, <1>8, <1>9
  <2>2. /\ g.blk[x].size = h1.blk[x].size /\ g.blk[x].phys = h1.blk[x].phys
        /\ g.blk[x].free = h1.blk[x].free
    BY <1>12, <1>13, <2>1
  <2> QED
    BY <2>1, <2>2
<1>18. Added(D, h, n, up - Header, g)
  <2>1. g.used = h.used /\ g.last = n
    BY <1>12, <1>13
  <2> HIDE DEF n
  <2> QED
    BY <1>13, <1>14, <1>15, <1>16, <1>17, <2>1 DEF Added
<1>19. g.end = n + up
  BY <1>13
<1> QED
  BY <1>2, <1>18, <1>19, Zenon DEF g, up

LEMMA ExpandedSound ==
  ASSUME NEW D, NEW h, NEW S, Sound(D, h, FreeIn(D, h), S),
         NEW req \in Nat \ {0}, req >= MinSize
  PROVE  LET E == D \cup {h.end}
             g == Expanded(h, req)
         IN /\ Sound(E, g, FreeIn(E, g), S \cup {h.end})
            /\ g.end = h.end + Grown(req) /\ g.used = h.used
            /\ h.end \in Nat /\ UsedIn(E, g) = UsedIn(D, h)
            /\ \A x \in D : g.blk[x].size = h.blk[x].size
<1> DEFINE n  == h.end
           F  == FreeIn(D, h)
           E  == D \cup {n}
           up == Grown(req)
           sz == Grown(req) - Header
           g  == Expanded(h, req)
<1>1. /\ D \in SUBSET Nat /\ IsFiniteSet(D) /\ h \in HeapOn(D)
      /\ Tiled(D, h) /\ Linked(D, h, F) /\ Merged(h, F, S) /\ F \subseteq D
  BY DEF Sound, Linked
<1>2. /\ \A x \in D : x < n /\ After(h, x) <= n /\ (After(h, x) \in D \/ After(h, x) = n)
      /\ n \in Nat
  BY <1>1, AfterEnd, HeapFields
<1>3. n \notin D
  BY <1>2
<1>4. Added(D, h, n, sz, g) /\ g.end = n + up /\ up \in Nat /\ req + Header <= up
  BY <1>1, <1>3, ExpandedFields
<1>5. n < g.end /\ g.end \in Nat /\ sz >= MinSize
  <2>1. sz = up - Header
    OBVIOUS
  <2> HIDE DEF up, sz, g, n
  <2> QED
    BY <1>2, <1>4, <2>1, NatConstants
<1> HIDE DEF up, sz, g
<1>6. /\ g \in HeapOn(E) /\ Linked(E, g, F \cup {n})
      /\ g.used = h.used /\ g.last = n /\ After(g, n) = g.end
      /\ g.blk[n].size = sz /\ g.blk[n].free = TRUE /\ g.blk[n].phys = h.last
      /\ \A x \in D : /\ g.blk[x].size = h.blk[x].size /\ g.blk[x].free = h.blk[x].free
                      /\ g.blk[x].phys = h.blk[x].phys
  BY <1>4 DEF Added
<1>7. \A x \in D : After(g, x) = After(h, x)
  BY <1>6 DEF After
<1> HIDE DEF n, F
<1>8. ASSUME NEW x \in D
      PROVE  Placed(E, g, x)
  <2>1. Placed(D, h, x) /\ x \in Nat
    BY <1>1 DEF Tiled
  <2>2. After(g, x) = After(h, x)
    BY <1>7
  <2>3. After(h, x) <= n /\ (After(h, x) \in D \/ After(h, x) = n) /\ After(h, x) \in Nat
    BY <1>1, <1>2, HeapFields
  <2>4. IF After(g, x) = g.end THEN g.last = x
        ELSE After(g, x) \in E /\ g.blk[After(g, x)].phys = x
    <3>1. After(h, x) # g.end
      BY <1>2, <1>5, <2>3
    <3>2. CASE After(h, x) \in D
      <4>1. After(h, x) # h.end
        BY <1>3, <3>2 DEF n
      <4>2. h.blk[After(h, x)].phys = x
        BY <2>1, <4>1 DEF Placed
      <4> QED
        BY <1>6, <2>2, <3>1, <3>2, <4>2
    <3>3. CASE After(h, x) = n
      <4>1. h.last = x
        BY <2>1, <3>3 DEF Placed, n
      <4> QED
        BY <1>6, <2>2, <3>1, <3>3, <4>1
    <3> QED
      BY <2>3, <3>2, <3>3
  <2>5. IF g.blk[x].phys = Null THEN x = 0
        ELSE g.blk[x].phys \in E /\ After(g, g.blk[x].phys) = x
    <3>1. g.blk[x].phys = h.blk[x].phys
      BY <1>6
    <3>2. h.blk[x].phys # Null => h.blk[x].phys \in D /\ After(h, h.blk[x].phys) = x
      BY <2>1 DEF Placed
    <3>3. h.blk[x].phys = Null => x = 0
      BY <2>1 DEF Placed
    <3> QED
      BY <1>7, <3>1, <3>2, <3>3
  <2>6. \A d \in E : ~(x < d /\ d < After(g, x))
    <3>1. \A d \in D : ~(x < d /\ d < After(h, x))
      BY <2>1 DEF Placed
    <3>2. ~(n < After(h, x))
      BY <1>2, <2>3
    <3> QED
      BY <2>2, <3>1, <3>2
  <2>7. g.blk[x].size >= MinSize /\ After(g, x) <= g.end
    <3>1. h.blk[x].size >= MinSize
      BY <2>1 DEF Placed
    <3>2. After(h, x) <= g.end
      BY <1>2, <1>5, <2>3
    <3> QED
      BY <1>6, <2>2, <3>1, <3>2
  <2> QED
    BY <2>4, <2>5, <2>6, <2>7 DEF Placed
<1>9. Placed(E, g, n)
  <2>1. IF h.last = Null THEN n = 0 ELSE h.last \in D /\ After(h, h.last) = n
    BY <1>1 DEF Tiled, n
  <2>2. IF g.blk[n].phys = Null THEN n = 0
        ELSE g.blk[n].phys \in E /\ After(g, g.blk[n].phys) = n
    BY <1>6, <1>7, <2>1
  <2>3. \A d \in E : ~(n < d /\ d < After(g, n))
    <3>1. \A d \in E : ~(n < d)
      BY <1>1, <1>2
    <3> QED
      BY <3>1
  <2>4. g.blk[n].size >= MinSize /\ After(g, n) <= g.end
    BY <1>5, <1>6
  <2>5. IF After(g, n) = g.end THEN g.last = n
        ELSE After(g, n) \in E /\ g.blk[After(g, n)].phys = n
    BY <1>6
  <2> QED
    BY <2>2, <2>3, <2>4, <2>5 DEF Placed
<1>10. g.end > 0 => 0 \in E /\ g.blk[0].phys = Null
  <2>1. CASE n > 0
    <3>1. 0 \in D /\ h.blk[0].phys = Null
      BY <1>1, <2>1 DEF Tiled, n
    <3> QED
      BY <1>6, <3>1
  <2>2. CASE n = 0
    <3>1. h.last = Null
      <4>1. h.last # Null => h.last \in D
        BY <1>1 DEF Tiled
      <4>2. D = {}
        BY <1>1, <1>2, <2>2
      <4> QED
        BY <4>1, <4>2
    <3> QED
      BY <1>6, <2>2, <3>1
  <2> QED
    BY <1>2, <2>1, <2>2
<1>11. IF g.last = Null THEN g.end = 0 ELSE g.last \in E /\ After(g, g.last) = g.end
  <2>1. n # Null
    BY <1>2, NatConstants
  <2> QED
    BY <1>6, <2>1
<1>12. Tiled(E, g)
  BY <1>8, <1>9, <1>10, <1>11 DEF Tiled
<1>13. FreeIn(E, g) = F \cup {n} /\ UsedIn(E, g) = UsedIn(D, h)
  <2>1. \A x \in D : g.blk[x].free = h.blk[x].free
    BY <1>6
  <2>2. FreeIn(E, g) = F \cup {n}
    BY <1>6, <2>1 DEF FreeIn, F
  <2>3. UsedIn(E, g) = UsedIn(D, h)
    BY <1>6, <2>1 DEF UsedIn
  <2> QED
    BY <2>2, <2>3
<1>14. Merged(g, F \cup {n}, S \cup {n})
  <2> SUFFICES ASSUME NEW x \in F \cup {n}, After(g, x) \in F \cup {n}
               PROVE  After(g, x) \in S \cup {n}
    BY DEF Merged
  <2>1. CASE x \in F
    BY <1>1, <1>7, <2>1 DEF Merged
  <2>2. CASE x = n
    <3>1. g.end \notin D /\ g.end # n
      BY <1>1, <1>2, <1>5
    <3> QED
      BY <1>1, <1>6, <2>2, <3>1
  <2> QED
    BY <2>1, <2>2
<1>15. IsFiniteSet(E) /\ E \in SUBSET Nat
  BY <1>1, <1>2, FS_AddElement
<1>16. Sound(E, g, FreeIn(E, g), S \cup {n})
  BY <1>6, <1>12, <1>13, <1>14, <1>15 DEF Sound
<1> QED
  BY <1>2, <1>4, <1>6, <1>13, <1>16 DEF n, g, up

-----------------------------------------------------------------------------
(* The walk along a list finds the blocks that are linked into it          *)

\* What is true of 0, and of k when it is true of k - 1, is true up to N: the
\* set of those it is true of stands for the formula.
LEMMA UpTo ==
  ASSUME NEW N \in Nat, NEW T, 0 \in T,
         \A k \in 1 .. N : k - 1 \in T => k \in T
  PROVE  \A k \in 0 .. N : k \in T
<1> DEFINE Without == {k \in 0 .. N : k \notin T}
<1>1. SUFFICES ASSUME Without # {} PROVE FALSE
  OBVIOUS
<1>2. PICK k \in Without : \A l \in Without : k <= l
  <2>1. Without \in SUBSET Nat
    OBVIOUS
  <2> HIDE DEF Without
  <2> QED
    BY <1>1, <2>1, LeastNat
<1>3. k \in 1 .. N /\ k - 1 \in 0 .. N /\ ~(k <= k - 1)
  OBVIOUS
<1>4. k - 1 \in T
  BY <1>2, <1>3
<1> QED
  BY <1>3, <1>4

Steps(N, S) == [1 .. N -> [S -> S]]
IsRun(f, N, S, a, g) ==
  f \in [0 .. N -> S] /\ f[0] = a /\ \A k \in 1 .. N : f[k] = g[k][f[k - 1]]

\* A step can be iterated: there is the function that begins with a and takes
\* the k-th step from its value at k - 1.
LEMMA Iterated ==
  ASSUME NEW N \in Nat, NEW S, NEW a \in S, NEW g \in Steps(N, S)
  PROVE  \E f : IsRun(f, N, S, a, g)
<1> DEFINE Runs(f, n) == f[0] = a /\ \A k \in 1 .. n : f[k] = g[k][f[k - 1]]
           T == {n \in 0 .. N : \E f \in [0 .. n -> S] : Runs(f, n)}
<1> USE DEF Steps
<1>1. 0 \in T
  <2>1. [k \in 0 .. 0 |-> a] \in [0 .. 0 -> S] /\ Runs([k \in 0 .. 0 |-> a], 0)
    OBVIOUS
  <2>2. 0 \in 0 .. N
    OBVIOUS
  <2> QED
    BY <2>1, <2>2
<1>2. ASSUME NEW n \in 1 .. N, n - 1 \in T
      PROVE  n \in T
  <2>1. PICK f \in [0 .. n - 1 -> S] : Runs(f, n - 1)
    BY <1>2
  <2>2. n - 1 \in 0 .. n - 1 /\ g[n][f[n - 1]] \in S
    OBVIOUS
  <2> DEFINE h == [k \in 0 .. n |-> IF k = n THEN g[n][f[n - 1]] ELSE f[k]]
  <2>3. h \in [0 .. n -> S]
    BY <2>2
  <2>4. \A k \in 0 .. n - 1 : h[k] = f[k]
    OBVIOUS
  <2>5. h[n] = g[n][h[n - 1]]
    <3>1. n \in 0 .. n /\ h[n - 1] = f[n - 1]
      BY <2>2, <2>4
    <3>2. h[n] = g[n][f[n - 1]]
      BY <3>1
    <3> HIDE DEF h
    <3> QED
      BY <3>1, <3>2
  <2> HIDE DEF h
  <2>6. h[0] = a
    BY <2>1, <2>4
  <2>7. ASSUME NEW k \in 1 .. n
        PROVE  h[k] = g[k][h[k - 1]]
    <3>1. CASE k = n
      BY <2>5, <3>1
    <3>2. CASE k # n
      <4>1. k \in 1 .. n - 1 /\ k \in 0 .. n - 1 /\ k - 1 \in 0 .. n - 1
        BY <3>2
      <4> QED
        BY <2>1, <2>4, <4>1
    <3> QED
      BY <3>1, <3>2
  <2> QED
    BY <2>3, <2>6, <2>7
<1>3. N \in T
  <2> HIDE DEF T
  <2>1. \A k \in 0 .. N : k \in T
    BY <1>1, <1>2, UpTo
  <2> QED
    BY <2>1
<1>4. PICK f \in [0 .. N -> S] : Runs(f, N)
  <2> HIDE DEF Runs
  <2> QED
    BY <1>3
<1> QED
  BY <1>4 DEF IsRun

\* The blocks met after n steps along the list of class c, for n up to N.
IsReach(h, c, N, r) ==
  r = [n \in 0 .. N |-> IF n = 0 THEN {h.lists[c]} \ {Null}
                        ELSE r[n - 1] \cup ({h.blk[b].next : b \in r[n - 1]} \ {Null})]

ListOf(h, F, c) == {b \in F : Cls(h, b) = c}

LEMMA ReachExists ==
  ASSUME NEW h, NEW F, NextRight(h, F), HeadsRight(h, F), NEW c \in ClassIndex,
         NEW N \in Nat
  PROVE  \E r \in [0 .. N -> SUBSET ListOf(h, F, c)] : IsReach(h, c, N, r)
<1> DEFINE G == ListOf(h, F, c)
           a == {h.lists[c]} \ {Null}
           step(R) == R \cup ({h.blk[b].next : b \in R} \ {Null})
           g == [k \in 1 .. N |-> [R \in SUBSET G |-> step(R)]]
<1>1. a \in SUBSET G
  BY DEF HeadsRight, ListOf
<1>2. ASSUME NEW R \in SUBSET G
      PROVE  step(R) \in SUBSET G
  <2> SUFFICES ASSUME NEW b \in R, h.blk[b].next # Null
               PROVE  h.blk[b].next \in G
    OBVIOUS
  <2>1. b \in F /\ Cls(h, b) = c
    BY DEF ListOf
  <2> QED
    BY <2>1 DEF NextRight, ListOf
<1>3. g \in Steps(N, SUBSET G)
  <2> HIDE DEF step, G
  <2> QED
    BY <1>2 DEF Steps
<1>4. PICK r : IsRun(r, N, SUBSET G, a, g)
  <2> HIDE DEF g, a, G
  <2> QED
    BY <1>1, <1>3, Iterated
<1>5. r \in [0 .. N -> SUBSET G] /\ r[0] = a
  BY <1>4 DEF IsRun
<1>6. \A k \in 1 .. N : r[k] = step(r[k - 1])
  <2> SUFFICES ASSUME NEW k \in 1 .. N PROVE r[k] = step(r[k - 1])
    OBVIOUS
  <2>1. r[k] = g[k][r[k - 1]]
    <3> HIDE DEF g
    <3> QED
      BY <1>4 DEF IsRun
  <2>2. r[k - 1] \in SUBSET G
    <3> HIDE DEF G
    <3>1. k - 1 \in 0 .. N
      OBVIOUS
    <3> QED
      BY <1>5, <3>1
  <2> HIDE DEF step, G
  <2> QED
    BY <2>1, <2>2
<1>7. \A k \in 0 .. N : r[k] = IF k = 0 THEN a ELSE step(r[k - 1])
  <2> HIDE DEF step, G, a
  <2> QED
    BY <1>5, <1>6
<1>8. r = [k \in 0 .. N |-> IF k = 0 THEN a ELSE step(r[k - 1])]
  <2> HIDE DEF step, G, a
  <2> QED
    BY <1>5, <1>7
<1> QED
  BY <1>5, <1>8 DEF IsReach

LEMMA OnListReach ==
  ASSUME NEW D, IsFiniteSet(D), NEW h, DOMAIN h.blk = D, NEW F,
         NextRight(h, F), HeadsRight(h, F), NEW c \in ClassIndex
  PROVE  \E r : /\ IsReach(h, c, Cardinality(D), r)
                /\ r \in [0 .. Cardinality(D) -> SUBSET ListOf(h, F, c)]
                /\ OnList(h, c) = r[Cardinality(D)]
<1> DEFINE N == Cardinality(D)
           r == CHOOSE r : IsReach(h, c, N, r)
<1>1. N \in Nat
  BY FS_CardinalityType
<1> HIDE DEF N
<1>2. PICK q \in [0 .. N -> SUBSET ListOf(h, F, c)] : IsReach(h, c, N, q)
  BY <1>1, ReachExists
<1>3. IsReach(h, c, N, r)
  BY <1>2
<1>4. OnList(h, c) = r[N]
  BY DEF OnList, IsReach, N
<1> HIDE DEF r
<1>5. \A k \in 0 .. N : r[k] = q[k]
  <2> DEFINE T == {k \in 0 .. N : r[k] = q[k]}
  <2>1. 0 \in T
    BY <1>1, <1>2, <1>3 DEF IsReach
  <2>2. ASSUME NEW k \in 1 .. N, k - 1 \in T
        PROVE  k \in T
    <3>1. r[k] = r[k - 1] \cup ({h.blk[b].next : b \in r[k - 1]} \ {Null})
      BY <1>1, <1>3 DEF IsReach
    <3>2. q[k] = q[k - 1] \cup ({h.blk[b].next : b \in q[k - 1]} \ {Null})
      BY <1>1, <1>2 DEF IsReach
    <3>3. r[k - 1] = q[k - 1]
      BY <2>2
    <3>4. r[k] = q[k]
      BY <3>1, <3>2, <3>3, Zenon
    <3>5. k \in 0 .. N
      BY <1>1
    <3> QED
      BY <3>4, <3>5
  <2> HIDE DEF T
  <2>3. \A k \in 0 .. N : k \in T
    BY <1>1, <2>1, <2>2, UpTo
  <2> QED
    BY <2>3 DEF T
<1>6. r \in [0 .. N -> SUBSET ListOf(h, F, c)]
  <2>1. DOMAIN r = 0 .. N /\ r = [k \in 0 .. N |-> r[k]]
    BY <1>3 DEF IsReach
  <2> QED
    BY <1>2, <1>5, <2>1
<1> QED
  BY <1>3, <1>4, <1>6 DEF N

\* As long as the walk meets new blocks it meets one in every step, so after as
\* many steps as there are blocks it meets none.
LEMMA ReachCloses ==
  ASSUME NEW G, IsFiniteSet(G), NEW h, NEW c, NEW N \in Nat, Cardinality(G) <= N,
         \A b \in G : h.blk[b].next \in G \cup {Null},
         NEW r \in [0 .. N -> SUBSET G], IsReach(h, c, N, r)
  PROVE  \A b \in r[N] : h.blk[b].next \in r[N] \cup {Null}
<1> DEFINE step(R) == {h.blk[b].next : b \in R} \ {Null}
           Shut(R) == step(R) \subseteq R
           T == {k \in 0 .. N : Shut(r[k]) \/ Cardinality(r[k]) >= k}
<1>1. \A k \in 0 .. N : /\ r[k] \subseteq G /\ IsFiniteSet(r[k])
                        /\ Cardinality(r[k]) \in Nat /\ Cardinality(r[k]) <= Cardinality(G)
  <2> SUFFICES ASSUME NEW k \in 0 .. N
               PROVE  /\ r[k] \subseteq G /\ IsFiniteSet(r[k])
                      /\ Cardinality(r[k]) \in Nat /\ Cardinality(r[k]) <= Cardinality(G)
    OBVIOUS
  <2>1. r[k] \in SUBSET G
    OBVIOUS
  <2> QED
    BY <2>1, FS_Subset, FS_CardinalityType
<1>2. ASSUME NEW k \in 1 .. N
      PROVE  r[k] = r[k - 1] \cup step(r[k - 1]) /\ k \in 0 .. N /\ k - 1 \in 0 .. N
  BY DEF IsReach
<1>3. 0 \in T
  <2>1. 0 \in 0 .. N
    OBVIOUS
  <2>2. Cardinality(r[0]) >= 0
    BY <1>1, <2>1
  <2> QED
    BY <2>1, <2>2
<1> HIDE DEF step
<1>4. ASSUME NEW k \in 1 .. N, k - 1 \in T
      PROVE  k \in T
  <2>1. CASE Shut(r[k - 1])
    <3>1. r[k] = r[k - 1]
      BY <1>2, <2>1
    <3>2. Shut(r[k])
      BY <2>1, <3>1, Zenon
    <3> QED
      BY <1>2, <3>2
  <2>2. CASE ~Shut(r[k - 1])
    <3>1. r[k - 1] \subseteq r[k] /\ r[k - 1] # r[k]
      BY <1>2, <2>2
    <3>2. Cardinality(r[k - 1]) < Cardinality(r[k])
      <4>1. IsFiniteSet(r[k])
        BY <1>1, <1>2
      <4>2. Cardinality(r[k - 1]) <= Cardinality(r[k])
        BY <3>1, <4>1, FS_Subset
      <4>3. Cardinality(r[k - 1]) # Cardinality(r[k])
        BY <3>1, <4>1, FS_Subset
      <4> QED
        BY <1>1, <1>2, <4>2, <4>3
    <3>3. Cardinality(r[k - 1]) >= k - 1
      BY <1>4, <2>2
    <3>4. Cardinality(r[k]) >= k
      BY <1>1, <1>2, <3>2, <3>3
    <3> QED
      BY <1>2, <3>4
  <2> QED
    BY <2>1, <2>2
<1>5. N \in T
  <2> HIDE DEF T
  <2>1. \A k \in 0 .. N : k \in T
    BY <1>3, <1>4, UpTo
  <2> QED
    BY <2>1
<1>6. Shut(r[N])
  <2>1. CASE Cardinality(r[N]) >= N
    <3>1. r[N] \subseteq G /\ Cardinality(r[N]) = Cardinality(G)
      BY <1>1, <2>1, FS_CardinalityType
    <3>2. r[N] = G
      BY <3>1, FS_Subset
    <3>3. Shut(G)
      BY DEF step
    <3> QED
      BY <3>2, <3>3, Zenon
  <2> QED
    BY <1>5, <2>1
<1> QED
  BY <1>6 DEF step

LEMMA OnListRight ==
  ASSUME NEW D \in SUBSET Nat, IsFiniteSet(D), NEW h \in HeapOn(D), NEW F,
         Linked(D, h, F), NEW c \in ClassIndex
  PROVE  OnList(h, c) = ListOf(h, F, c)
<1> DEFINE G == ListOf(h, F, c)
           N == Cardinality(D)
<1>1. DOMAIN h.blk = D /\ Null \notin D
  BY HeapFields, NatConstants
<1>2. NextRight(h, F) /\ PrevRight(h, F) /\ HeadsRight(h, F) /\ NoLoop(h, F) /\ F \subseteq D
  BY DEF Linked
<1>3. PICK r \in [0 .. N -> SUBSET G] : IsReach(h, c, N, r) /\ OnList(h, c) = r[N]
  BY <1>1, <1>2, OnListReach
<1>4. N \in Nat /\ IsFiniteSet(G) /\ Cardinality(G) <= N
  <2>1. G \in SUBSET D
    BY <1>2 DEF ListOf
  <2> QED
    BY <2>1, FS_Subset, FS_CardinalityType
<1>5. \A b \in G : h.blk[b].next \in G \cup {Null}
  BY <1>2 DEF NextRight, ListOf
<1> HIDE DEF N, G
<1>6. \A b \in r[N] : h.blk[b].next \in r[N] \cup {Null}
  BY <1>3, <1>4, <1>5, ReachCloses
<1>7. h.lists[c] \in r[N] \cup {Null}
  <2> DEFINE T == {k \in 0 .. N : h.lists[c] \in r[k] \cup {Null}}
  <2>1. 0 \in T
    <3>1. r[0] = {h.lists[c]} \ {Null} /\ 0 \in 0 .. N
      BY <1>3, <1>4 DEF IsReach
    <3> QED
      BY <3>1
  <2>2. ASSUME NEW k \in 1 .. N, k - 1 \in T
        PROVE  k \in T
    <3>1. r[k - 1] \subseteq r[k] /\ k \in 0 .. N
      BY <1>3, <1>4 DEF IsReach
    <3> QED
      BY <2>2, <3>1
  <2> HIDE DEF T
  <2>3. \A k \in 0 .. N : k \in T
    BY <1>4, <2>1, <2>2, UpTo
  <2> QED
    BY <1>4, <2>3 DEF T
<1>8. r[N] \subseteq G
  BY <1>3, <1>4
<1>9. G \subseteq r[N]
  <2> DEFINE X == G \ r[N]
  <2>1. SUFFICES ASSUME X # {} PROVE FALSE
    OBVIOUS
  <2>2. PICK b \in X : h.blk[b].prev \notin X
    <3>1. X \in SUBSET F
      BY DEF G, ListOf
    <3> HIDE DEF X
    <3> QED
      BY <1>2, <2>1, <3>1 DEF NoLoop
  <2>3. b \in F /\ Cls(h, b) = c /\ b \notin r[N]
    BY <2>2 DEF G, ListOf
  <2>4. CASE h.blk[b].prev = Null
    <3>1. h.lists[c] = b
      BY <1>2, <2>3, <2>4 DEF PrevRight
    <3>2. b # Null
      BY <1>1, <1>2, <2>3
    <3> QED
      BY <1>7, <2>3, <3>1, <3>2
  <2>5. CASE h.blk[b].prev # Null
    <3> DEFINE p == h.blk[b].prev
    <3>1. p \in F /\ h.blk[p].next = b
      BY <1>2, <2>3, <2>5 DEF PrevRight
    <3>2. b # Null
      BY <1>1, <1>2, <2>3
    <3>3. Cls(h, p) = c
      BY <1>2, <2>3, <3>1, <3>2 DEF NextRight
    <3>4. p \in G
      BY <3>1, <3>3 DEF G, ListOf
    <3>5. p \in r[N]
      BY <2>2, <3>4
    <3> HIDE DEF p
    <3> QED
      BY <1>6, <2>3, <3>1, <3>2, <3>5
  <2> QED
    BY <2>4, <2>5
<1> QED
  BY <1>3, <1>8, <1>9 DEF G

\* The search returns a free block that is large enough.
LEMMA BestFits ==
  ASSUME NEW D, NEW h, NEW S, Sound(D, h, FreeIn(D, h), S), NEW req \in Nat,
         NEW b \in Best(h, req)
  PROVE  b \in FreeIn(D, h) /\ req <= h.blk[b].size
<1>1. PICK c \in Class(req) .. Classes - 1 : b \in OnList(h, c) /\ Fits(h, b, req)
  BY DEF Best
<1>2. c \in ClassIndex
  <2>1. Class(req) \in 0 .. Classes - 1 /\ Classes \in Nat
    BY ClassRight, NatConstants DEF ClassIndex
  <2> QED
    BY <2>1 DEF ClassIndex
<1>3. b \in FreeIn(D, h)
  <2>1. OnList(h, c) = ListOf(h, FreeIn(D, h), c)
    BY <1>2, OnListRight DEF Sound
  <2> QED
    BY <1>1, <2>1 DEF ListOf
<1>4. h.blk[b].size \in Nat
  <2>1. b \in D /\ D \in SUBSET Nat /\ h \in HeapOn(D)
    BY <1>3 DEF FreeIn, Sound
  <2> QED
    BY <2>1, HeapFields
<1> QED
  BY <1>1, <1>3, <1>4 DEF Fits

-----------------------------------------------------------------------------
(* The bytes of the blocks in use                                          *)

Bytes(h, U) == UNION {b .. After(h, b) - 1 : b \in U}

LEMMA BytesFinite ==
  ASSUME NEW D, NEW h, NEW F, NEW S, Sound(D, h, F, S), NEW U \in SUBSET D
  PROVE  IsFiniteSet(Bytes(h, U)) /\ Cardinality(Bytes(h, U)) \in Nat
<1>1. D \in SUBSET Nat /\ h \in HeapOn(D) /\ Tiled(D, h)
  BY DEF Sound
<1>2. h.end \in Nat
  BY <1>1, HeapFields
<1>3. \A b \in U : b .. After(h, b) - 1 \subseteq 0 .. h.end - 1
  <2> SUFFICES ASSUME NEW b \in U PROVE b .. After(h, b) - 1 \subseteq 0 .. h.end - 1
    OBVIOUS
  <2>1. b \in Nat /\ After(h, b) \in Nat
    BY <1>1, HeapFields
  <2>2. After(h, b) <= h.end
    BY <1>1, AfterEnd
  <2> QED
    BY <1>2, <2>1, <2>2
<1>4. Bytes(h, U) \in SUBSET (0 .. h.end - 1)
  BY <1>3 DEF Bytes
<1>5. IsFiniteSet(0 .. h.end - 1)
  <2>1. 0 \in Int /\ h.end - 1 \in Int
    BY <1>2
  <2> QED
    BY <2>1, FS_Interval
<1> QED
  BY <1>4, <1>5, FS_Subset, FS_CardinalityType

\* One block more counts its size and its header.
LEMMA BytesMore ==
  ASSUME NEW D, NEW h, NEW F, NEW S, Sound(D, h, F, S), NEW U \in SUBSET D,
         NEW b \in D, b \notin U
  PROVE  Cardinality(Bytes(h, U \cup {b}))
           = Cardinality(Bytes(h, U)) + (h.blk[b].size + Header)
<1> DEFINE X == Bytes(h, U)
           Y == b .. After(h, b) - 1
<1>1. D \in SUBSET Nat /\ h \in HeapOn(D) /\ Tiled(D, h)
  BY DEF Sound
<1>2. b \in Nat /\ h.blk[b].size \in Nat /\ Header \in Nat \ {0}
  BY <1>1, HeapFields, NatConstants
<1>3. Bytes(h, U \cup {b}) = X \cup Y
  BY DEF Bytes
<1>4. X \cap Y = {}
  <2> SUFFICES ASSUME NEW x \in X, x \in Y PROVE FALSE
    OBVIOUS
  <2>1. PICK d \in U : x \in d .. After(h, d) - 1
    BY DEF Bytes
  <2>2. d \in D /\ d # b
    OBVIOUS
  <2>3. After(h, b) <= d \/ After(h, d) <= b
    BY <1>1, <2>2, BlocksApart
  <2>4. After(h, b) \in Nat /\ After(h, d) \in Nat /\ d \in Nat
    BY <1>1, <2>2, HeapFields
  <2> QED
    BY <1>2, <2>1, <2>3, <2>4
<1>5. IsFiniteSet(Y) /\ Cardinality(Y) = h.blk[b].size + Header
  <2> DEFINE e == After(h, b) - 1
  <2>1. e \in Int /\ b \in Int /\ b <= e /\ (e - b) + 1 = h.blk[b].size + Header
    BY <1>2 DEF After
  <2> HIDE DEF e
  <2>2. IsFiniteSet(b .. e) /\ Cardinality(b .. e) = (e - b) + 1
    BY <2>1, FS_Interval
  <2> QED
    BY <2>1, <2>2 DEF e
<1>6. IsFiniteSet(X)
  BY BytesFinite
<1> HIDE DEF X, Y
<1>7. Cardinality(X \cup Y) = Cardinality(X) + Cardinality(Y)
  <2>1. Cardinality(X \cap Y) = 0
    BY <1>4, FS_EmptySet
  <2>2. Cardinality(X \cup Y) = Cardinality(X) + Cardinality(Y) - Cardinality(X \cap Y)
    BY <1>5, <1>6, FS_Union
  <2>3. Cardinality(X) \in Nat /\ Cardinality(Y) \in Nat
    BY <1>5, <1>6, FS_CardinalityType
  <2> QED
    BY <2>1, <2>2, <2>3
<1> QED
  BY <1>3, <1>5, <1>7 DEF X

LEMMA BytesSame ==
  ASSUME NEW h, NEW g, NEW U, \A x \in U : g.blk[x].size = h.blk[x].size
  PROVE  Bytes(g, U) = Bytes(h, U)
<1>1. \A x \in U : After(g, x) = After(h, x)
  BY DEF After
<1> QED
  BY <1>1 DEF Bytes

\* heap_used is the number of bytes in use.
Counted(D, h) == h.used = Cardinality(Bytes(h, UsedIn(D, h)))

LEMMA ChargedSound ==
  ASSUME NEW D, NEW h, NEW S, Sound(D, h, FreeIn(D, h), S), NEW b \in D, NEW req
  PROVE  LET g == Charged(h, b, req) IN
         /\ Sound(D, g, FreeIn(D, g), S) /\ UsedIn(D, g) = UsedIn(D, h)
         /\ g.end = h.end /\ g.used = h.used + (h.blk[b].size + Header)
         /\ \A x \in D : g.blk[x].size = h.blk[x].size
<1> DEFINE g == Charged(h, b, req)
           w == (h.used + h.blk[b].size) + Header
<1>1. D \in SUBSET Nat /\ h \in HeapOn(D)
  BY DEF Sound
<1>2. /\ h.lists \in [ClassIndex -> Ptr] /\ h.end \in Nat /\ h.used \in Int
      /\ h.last \in Ptr /\ h.blk \in [D -> Rec] /\ h.blk[b].size \in Nat
  BY <1>1, HeapFields
<1>3. w \in Int /\ w = h.used + (h.blk[b].size + Header)
  BY <1>2, NatConstants
<1>4. g = [h EXCEPT !.used = w]
  BY DEF Charged
<1> HIDE DEF w, g
<1>5. /\ g \in HeapOn(D) /\ g.lists = h.lists /\ g.end = h.end /\ g.last = h.last
      /\ g.blk = h.blk /\ g.used = w
  BY <1>1, <1>2, <1>3, <1>4 DEF HeapOn
<1>6. Flagged(D, h, b, h.blk[b].free, g)
  BY <1>5 DEF Flagged
<1>7. FreeIn(D, g) = FreeIn(D, h) /\ UsedIn(D, g) = UsedIn(D, h)
  BY <1>5 DEF FreeIn, UsedIn
<1>8. Sound(D, g, FreeIn(D, h), S)
  BY <1>6, FlaggedSound
<1> QED
  BY <1>3, <1>5, <1>7, <1>8 DEF g

\* A block that is given out: h is the heap it is found in, and g what is left.
Given(D, h, S, n, b, E, g) ==
  /\ Sound(E, g, FreeIn(E, g), S) /\ Counted(E, g) /\ g.end = h.end
  /\ b \notin UsedIn(D, h) /\ UsedIn(E, g) = UsedIn(D, h) \cup {b}
  /\ \A x \in UsedIn(D, h) : g.blk[x].size = h.blk[x].size
  /\ n <= g.blk[b].size

LEMMA GiveSound ==
  ASSUME NEW D, NEW h, NEW S, Sound(D, h, FreeIn(D, h), S), Counted(D, h),
         NEW n \in Request, NEW b \in Best(h, RoundUp(n, Align))
  PROVE  LET req == RoundUp(n, Align) IN
         \E E : Given(D, h, S, n, b, E, Charged(Found(h, b, req), b, req))
<1> DEFINE req == RoundUp(n, Align)
           f == Found(h, b, req)
           g == Charged(f, b, req)
           U == UsedIn(D, h)
<1>1. n \in Nat \ {0} /\ req \in Nat /\ n <= req /\ MinSize <= req
  <2>1. /\ n \in Nat \ {0} /\ Align \in Nat \ {0} /\ MinSize \in Nat /\ MinSize <= Align
    BY NatConstants
  <2>2. req \in Nat /\ n <= req /\ Align <= req
    BY <2>1, RoundUpRight
  <2> HIDE DEF req
  <2> QED
    BY <2>1, <2>2
<1>2. b \in FreeIn(D, h) /\ req <= h.blk[b].size
  <2> HIDE DEF req
  <2>1. b \in Best(h, req)
    BY DEF req
  <2> QED
    BY <1>1, <2>1, BestFits
<1> HIDE DEF req
<1>3. PICK E : /\ Sound(E, f, FreeIn(E, f), S) /\ b \in E
               /\ Changed(D, h, E, f, UsedIn(D, h) \cup {b})
               /\ f.used = h.used /\ req <= f.blk[b].size
  <2>1. req >= MinSize
    BY <1>1, NatConstants
  <2> QED
    BY <1>1, <1>2, <2>1, FoundSound
<1> HIDE DEF f
<1>4. /\ Sound(E, g, FreeIn(E, g), S) /\ UsedIn(E, g) = UsedIn(E, f)
      /\ g.end = f.end /\ g.used = f.used + (f.blk[b].size + Header)
      /\ \A x \in E : g.blk[x].size = f.blk[x].size
  BY <1>3, ChargedSound
<1> HIDE DEF g
<1>5. b \notin U
  BY <1>2 DEF FreeIn, UsedIn
<1>6. /\ UsedIn(E, g) = U \cup {b} /\ g.end = h.end
      /\ \A x \in U : f.blk[x].size = h.blk[x].size
  BY <1>3, <1>4 DEF Changed
<1>7. U \subseteq E
  BY <1>6 DEF UsedIn
<1>8. \A x \in U : g.blk[x].size = h.blk[x].size
  BY <1>4, <1>6, <1>7
<1>9. n <= g.blk[b].size
  <2>1. f.blk[b].size \in Nat
    BY <1>3, HeapFields DEF Sound
  <2>2. g.blk[b].size = f.blk[b].size
    BY <1>3, <1>4
  <2> QED
    BY <1>1, <1>3, <2>1, <2>2
<1>10. Counted(E, g)
  <2> HIDE DEF U
  <2>1. Cardinality(Bytes(g, U \cup {b}))
          = Cardinality(Bytes(g, U)) + (g.blk[b].size + Header)
    BY <1>3, <1>4, <1>5, <1>7, BytesMore
  <2>2. Bytes(g, U) = Bytes(h, U)
    BY <1>8, BytesSame
  <2>3. g.blk[b].size = f.blk[b].size
    BY <1>3, <1>4
  <2>4. h.used = Cardinality(Bytes(h, U))
    BY DEF Counted, U
  <2> QED
    BY <1>3, <1>4, <1>6, <2>1, <2>2, <2>3, <2>4 DEF Counted
<1>11. Given(D, h, S, n, b, E, g)
  BY <1>4, <1>5, <1>6, <1>8, <1>9, <1>10 DEF Given
<1> QED
  BY <1>11 DEF g, f, req

-----------------------------------------------------------------------------
(* The calls                                                               *)

AskedRight ==
  /\ asked \in [UsedIn(Block, heap) -> Request]
  /\ \A b \in UsedIn(Block, heap) : asked[b] <= heap.blk[b].size

IInv ==
  /\ Sound(Block, heap, FreeIn(Block, heap), seams)
  /\ heap.end <= Limit /\ Counted(Block, heap) /\ AskedRight

LEMMA InitRight == Init => IInv
<1> SUFFICES ASSUME Init PROVE IInv
  OBVIOUS
<1>1. /\ heap.lists = [c \in ClassIndex |-> Null] /\ heap.end = 0 /\ heap.used = 0
      /\ heap.last = Null /\ heap.blk = <<>>
      /\ heap = [lists |-> heap.lists, end |-> heap.end, used |-> heap.used,
                 last |-> heap.last, blk |-> heap.blk]
  BY DEF Init, ClassIndex
<1>2. DOMAIN <<>> = {} /\ <<>> = [x \in {} |-> x]
  OBVIOUS
<1>3. Block = {} /\ heap.blk \in [{} -> Rec]
  BY <1>1, <1>2 DEF Block
<1>4. heap \in HeapOn({})
  <2>1. heap.lists \in [ClassIndex -> Ptr] /\ heap.last \in Ptr
    BY <1>1 DEF Ptr
  <2>2. heap.end \in Nat /\ heap.used \in Int
    BY <1>1
  <2>3. heap = [lists |-> heap.lists, end |-> heap.end, used |-> heap.used,
                last |-> heap.last, blk |-> heap.blk]
    BY <1>1
  <2> QED
    BY <1>3, <2>1, <2>2, <2>3 DEF HeapOn
<1>5. FreeIn(Block, heap) = {} /\ UsedIn(Block, heap) = {}
  BY <1>3 DEF FreeIn, UsedIn
<1>6. Tiled({}, heap)
  BY <1>1 DEF Tiled
<1>7. Linked({}, heap, {})
  BY <1>1 DEF Linked, NextRight, PrevRight, HeadsRight, RestAlone, NoLoop
<1>8. Sound(Block, heap, FreeIn(Block, heap), seams)
  <2>1. Merged(heap, {}, seams)
    BY DEF Merged
  <2> QED
    BY <1>3, <1>4, <1>5, <1>6, <1>7, <2>1, FS_EmptySet DEF Sound
<1>9. Counted(Block, heap)
  <2>1. Bytes(heap, {}) = {}
    BY DEF Bytes
  <2> QED
    BY <1>1, <1>5, <2>1, FS_EmptySet DEF Counted
<1>10. heap.end <= Limit
  BY <1>1, NatConstants
<1>11. AskedRight
  <2>1. asked \in [{} -> Request]
    BY <1>2 DEF Init
  <2> QED
    BY <1>5, <2>1 DEF AskedRight
<1> QED
  BY <1>8, <1>9, <1>10, <1>11 DEF IInv

\* What a step that gives a block out does: h is the heap it is found in.
GivesFrom(h, n, b) ==
  /\ n \in Request
  /\ Given(Block, h, seams', n, b, Block', heap')
  /\ asked' = With(asked, b, n)

LEMMA SoundBlocks ==
  ASSUME NEW D, NEW h, NEW F, NEW S, Sound(D, h, F, S)
  PROVE  DOMAIN h.blk = D
<1>1. D \in SUBSET Nat /\ h \in HeapOn(D)
  BY DEF Sound
<1> QED
  BY <1>1, HeapFields

LEMMA KmallocGives ==
  ASSUME IInv, NEW n \in Request, Kmalloc(n)
  PROVE  \E b : GivesFrom(heap, n, b)
<1> DEFINE req == RoundUp(n, Align)
<1>1. seams' = seams /\ Give(heap, n)
  BY DEF Kmalloc
<1>2. PICK b \in Best(heap, req) : /\ heap' = Charged(Found(heap, b, req), b, req)
                                   /\ asked' = With(asked, b, n)
  BY <1>1 DEF Give
<1>3. PICK E : Given(Block, heap, seams, n, b, E, heap')
  <2>1. Sound(Block, heap, FreeIn(Block, heap), seams) /\ Counted(Block, heap)
    BY DEF IInv
  <2>2. \E E : Given(Block, heap, seams, n, b, E, Charged(Found(heap, b, req), b, req))
    BY <2>1, GiveSound
  <2> HIDE DEF req
  <2> QED
    BY <1>2, <2>2
<1>4. Block' = E
  <2>1. DOMAIN heap'.blk = E
    BY <1>3, SoundBlocks DEF Given
  <2> QED
    BY <2>1 DEF Block
<1> QED
  BY <1>1, <1>2, <1>3, <1>4 DEF GivesFrom

\* For the callers it is as if the block had been found in the heap as it was.
GivesInto(n, b) ==
  /\ n \in Request
  /\ Sound(Block', heap', FreeIn(Block', heap'), seams') /\ Counted(Block', heap')
  /\ heap'.end <= Limit
  /\ b \notin UsedIn(Block, heap)
  /\ UsedIn(Block', heap') = UsedIn(Block, heap) \cup {b}
  /\ \A x \in UsedIn(Block, heap) : heap'.blk[x].size = heap.blk[x].size
  /\ n <= heap'.blk[b].size
  /\ asked' = With(asked, b, n)

LEMMA KmallocRight ==
  ASSUME IInv, NEW n \in Request, Kmalloc(n)
  PROVE  \E b : GivesInto(n, b)
<1>1. PICK b : GivesFrom(heap, n, b)
  BY KmallocGives
<1>2. heap.end <= Limit
  BY DEF IInv
<1>3. GivesInto(n, b)
  BY <1>1, <1>2 DEF GivesFrom, GivesInto, Given
<1> QED
  BY <1>3

LEMMA KmallocExpandRight ==
  ASSUME IInv, NEW n \in Request, KmallocExpand(n)
  PROVE  \E b : GivesInto(n, b)
<1> DEFINE req == RoundUp(n, Align)
           g == Expanded(heap, req)
           D == Block \cup {heap.end}
<1>1. /\ seams' = seams \cup {heap.end} /\ Give(g, n) /\ heap.end + Grown(req) <= Limit
  BY DEF KmallocExpand
<1>2. PICK b \in Best(g, req) : /\ heap' = Charged(Found(g, b, req), b, req)
                                /\ asked' = With(asked, b, n)
  BY <1>1 DEF Give
<1>3. /\ Sound(Block, heap, FreeIn(Block, heap), seams) /\ Counted(Block, heap)
  BY DEF IInv
<1>4. req \in Nat \ {0} /\ req >= MinSize
  <2>1. /\ n \in Nat \ {0} /\ Align \in Nat \ {0} /\ MinSize \in Nat \ {0} /\ MinSize <= Align
    BY NatConstants
  <2>2. req \in Nat /\ Align <= req
    BY <2>1, RoundUpRight
  <2> HIDE DEF req
  <2> QED
    BY <2>1, <2>2
<1>5. /\ Sound(D, g, FreeIn(D, g), seams \cup {heap.end})
      /\ g.end = heap.end + Grown(req) /\ g.used = heap.used
      /\ heap.end \in Nat /\ UsedIn(D, g) = UsedIn(Block, heap)
      /\ \A x \in Block : g.blk[x].size = heap.blk[x].size
  <2> HIDE DEF req
  <2> QED
    BY <1>3, <1>4, ExpandedSound
<1>6. UsedIn(Block, heap) \subseteq Block
  BY DEF UsedIn
<1> HIDE DEF g, D
<1>7. \A x \in UsedIn(Block, heap) : g.blk[x].size = heap.blk[x].size
  BY <1>5, <1>6
<1>8. Counted(D, g)
  <2>1. Bytes(g, UsedIn(Block, heap)) = Bytes(heap, UsedIn(Block, heap))
    BY <1>7, BytesSame
  <2> QED
    BY <1>3, <1>5, <2>1 DEF Counted
<1>9. PICK E : Given(D, g, seams', n, b, E, heap')
  <2>1. Sound(D, g, FreeIn(D, g), seams')
    BY <1>1, <1>5
  <2>2. \E E : Given(D, g, seams', n, b, E, Charged(Found(g, b, req), b, req))
    BY <1>2, <1>8, <2>1, GiveSound
  <2> HIDE DEF req
  <2> QED
    BY <1>2, <2>2
<1>10. Block' = E
  <2>1. DOMAIN heap'.blk = E
    BY <1>9, SoundBlocks DEF Given
  <2> QED
    BY <2>1 DEF Block
<1> HIDE DEF req
<1>11. g.end <= Limit
  BY <1>1, <1>5
<1>12. GivesInto(n, b)
  <2>1. /\ Sound(Block', heap', FreeIn(Block', heap'), seams') /\ Counted(Block', heap')
        /\ heap'.end = g.end
        /\ b \notin UsedIn(D, g) /\ UsedIn(Block', heap') = UsedIn(D, g) \cup {b}
        /\ \A x \in UsedIn(D, g) : heap'.blk[x].size = g.blk[x].size
        /\ n <= heap'.blk[b].size
    BY <1>9, <1>10, Zenon DEF Given
  <2>2. \A x \in UsedIn(Block, heap) : heap'.blk[x].size = heap.blk[x].size
    BY <1>5, <1>7, <2>1
  <2> QED
    BY <1>2, <1>5, <1>11, <2>1, <2>2 DEF GivesInto
<1> QED
  BY <1>12

LEMMA GivesIInv ==
  ASSUME IInv, NEW n, NEW b, GivesInto(n, b)
  PROVE  IInv'
<1> DEFINE U == UsedIn(Block, heap)
           V == UsedIn(Block', heap')
<1>1. /\ n \in Request /\ V = U \cup {b} /\ b \notin U /\ n <= heap'.blk[b].size
      /\ asked' = With(asked, b, n)
      /\ \A x \in U : heap'.blk[x].size = heap.blk[x].size
  BY DEF GivesInto
<1>2. asked \in [U -> Request] /\ \A x \in U : asked[x] <= heap.blk[x].size
  BY DEF IInv, AskedRight
<1> HIDE DEF U, V
<1>3. asked' = [x \in V |-> IF x = b THEN n ELSE asked[x]]
  BY <1>1, <1>2 DEF With
<1>4. asked' \in [V -> Request] /\ \A x \in V : asked'[x] <= heap'.blk[x].size
  BY <1>1, <1>2, <1>3
<1>5. AskedRight'
  BY <1>4 DEF AskedRight, V
<1> QED
  BY <1>5 DEF IInv, GivesInto

\* What a step that takes the block b back does.
TakesBack(b) ==
  /\ b \in UsedIn(Block, heap)
  /\ Sound(Block', heap', FreeIn(Block', heap'), seams') /\ heap'.end = heap.end
  /\ UsedIn(Block', heap') = UsedIn(Block, heap) \ {b}
  /\ \A x \in UsedIn(Block', heap') : heap'.blk[x].size = heap.blk[x].size
  /\ heap'.used = heap.used - (heap.blk[b].size + Header)
  /\ asked' = [x \in DOMAIN asked \ {b} |-> asked[x]]

LEMMA KfreeRight ==
  ASSUME IInv, NEW b \in DOMAIN asked, Kfree(b)
  PROVE  TakesBack(b)
<1> DEFINE freed == [heap EXCEPT !.blk[b].free = TRUE,
                                 !.used = @ - (heap.blk[b].size + Header)]
<1>1. /\ heap' = MergePrev(MergeNext(freed, b), b)
      /\ asked' = [x \in DOMAIN asked \ {b} |-> asked[x]] /\ seams' = seams
  BY DEF Kfree
<1>2. b \in UsedIn(Block, heap)
  BY DEF IInv, AskedRight
<1>3. Sound(Block, heap, FreeIn(Block, heap), seams)
  BY DEF IInv
<1>4. PICK E : /\ Sound(E, heap', FreeIn(E, heap'), seams)
               /\ Changed(Block, heap, E, heap', UsedIn(Block, heap) \ {b})
               /\ heap'.used = heap.used - (heap.blk[b].size + Header)
  <2>1. \E E : /\ Sound(E, MergePrev(MergeNext(freed, b), b),
                        FreeIn(E, MergePrev(MergeNext(freed, b), b)), seams)
               /\ Changed(Block, heap, E, MergePrev(MergeNext(freed, b), b),
                          UsedIn(Block, heap) \ {b})
               /\ MergePrev(MergeNext(freed, b), b).used
                    = heap.used - (heap.blk[b].size + Header)
    BY <1>2, <1>3, FreedSound
  <2> HIDE DEF freed
  <2> QED
    BY <1>1, <2>1
<1> HIDE DEF freed
<1>5. Block' = E
  <2>1. DOMAIN heap'.blk = E
    BY <1>4, SoundBlocks
  <2> QED
    BY <2>1 DEF Block
<1>6. /\ heap'.end = heap.end /\ UsedIn(Block', heap') = UsedIn(Block, heap) \ {b}
      /\ \A x \in UsedIn(Block', heap') : heap'.blk[x].size = heap.blk[x].size
  BY <1>4, <1>5 DEF Changed
<1>7. Sound(Block', heap', FreeIn(Block', heap'), seams')
  BY <1>1, <1>4, <1>5
<1> QED
  BY <1>1, <1>2, <1>4, <1>6, <1>7 DEF TakesBack

LEMMA TakesIInv ==
  ASSUME IInv, NEW b, TakesBack(b)
  PROVE  IInv'
<1> DEFINE U == UsedIn(Block, heap)
           V == UsedIn(Block', heap')
<1>1. /\ b \in U /\ V = U \ {b} /\ heap'.end = heap.end
      /\ Sound(Block', heap', FreeIn(Block', heap'), seams')
      /\ heap'.used = heap.used - (heap.blk[b].size + Header)
      /\ asked' = [x \in DOMAIN asked \ {b} |-> asked[x]]
      /\ \A x \in V : heap'.blk[x].size = heap.blk[x].size
  BY DEF TakesBack
<1>2. asked \in [U -> Request] /\ \A x \in U : asked[x] <= heap.blk[x].size
  BY DEF IInv, AskedRight
<1>3. Sound(Block, heap, FreeIn(Block, heap), seams) /\ heap.used = Cardinality(Bytes(heap, U))
  BY DEF IInv, Counted
<1>4. U \subseteq Block
  BY DEF UsedIn
<1> HIDE DEF U, V
<1>5. AskedRight'
  <2>1. asked' \in [V -> Request] /\ \A x \in V : asked'[x] <= heap'.blk[x].size
    BY <1>1, <1>2
  <2> QED
    BY <2>1 DEF AskedRight, V
<1>6. Counted(Block', heap')
  <2>1. V \cup {b} = U /\ V \in SUBSET Block /\ b \in Block /\ b \notin V
    BY <1>1, <1>4
  <2>2. Cardinality(Bytes(heap, V \cup {b}))
          = Cardinality(Bytes(heap, V)) + (heap.blk[b].size + Header)
    BY <1>3, <2>1, BytesMore
  <2>3. Bytes(heap', V) = Bytes(heap, V)
    BY <1>1, BytesSame
  <2>4. Cardinality(Bytes(heap, V)) \in Nat
    BY <1>3, <2>1, BytesFinite
  <2>5. heap.blk[b].size + Header \in Nat
    <3>1. heap.blk[b].size \in Nat
      BY <1>3, <2>1, HeapFields DEF Sound
    <3> QED
      BY <3>1, NatConstants
  <2>6. heap'.used = Cardinality(Bytes(heap', V))
    <3>1. heap.used = Cardinality(Bytes(heap, V)) + (heap.blk[b].size + Header)
      BY <1>3, <2>1, <2>2, Zenon
    <3>2. heap'.used = Cardinality(Bytes(heap, V))
      BY <1>1, <2>4, <2>5, <3>1
    <3> QED
      BY <2>3, <3>2, Zenon
  <2> QED
    BY <2>6 DEF Counted, V
<1>7. heap'.end <= Limit
  BY <1>1 DEF IInv
<1> QED
  BY <1>1, <1>5, <1>6, <1>7 DEF IInv

-----------------------------------------------------------------------------
(* The theorems                                                            *)

LEMMA StutterRight == IInv /\ UNCHANGED vars => IInv'
<1> SUFFICES ASSUME IInv, UNCHANGED vars PROVE IInv'
  OBVIOUS
<1>1. heap' = heap /\ asked' = asked /\ seams' = seams /\ Block' = Block
  BY DEF vars, Block
<1> QED
  BY <1>1 DEF IInv, AskedRight

LEMMA StepRight == IInv /\ [Next]_vars => IInv'
<1> SUFFICES ASSUME IInv, [Next]_vars PROVE IInv'
  OBVIOUS
<1>1. ASSUME NEW n \in Request, Kmalloc(n) PROVE IInv'
  BY <1>1, KmallocRight, GivesIInv
<1>2. ASSUME NEW n \in Request, KmallocExpand(n) PROVE IInv'
  BY <1>2, KmallocExpandRight, GivesIInv
<1>3. ASSUME NEW b \in DOMAIN asked, Kfree(b) PROVE IInv'
  BY <1>3, KfreeRight, TakesIInv
<1>4. CASE UNCHANGED vars
  BY <1>4, StutterRight
<1> QED
  BY <1>1, <1>2, <1>3, <1>4 DEF Next

\* In every state the blocks tile the heap, the lists are linked both ways and
\* come to an end, and the callers own the blocks in use.
THEOREM Invariance == Spec => []IInv
<1> QED
  BY InitRight, StepRight, PTL DEF Spec

\* Whatever is allocated and freed, the blocks tile the heap, their physical
\* links say so, and heap_used is the number of bytes in use: a block that is
\* split, merged or added behind the last one never overlaps another.
THEOREM HeapIsTiled == Spec => []Tiles
<1>1. IInv => Tiles
  <2> SUFFICES ASSUME IInv PROVE Tiles
    OBVIOUS
  <2>1. /\ Sound(Block, heap, FreeIn(Block, heap), seams) /\ Counted(Block, heap)
    BY DEF IInv
  <2>2. /\ heap.end > 0 => 0 \in Block /\ heap.blk[0].phys = Null
        /\ \A b \in Block : Placed(Block, heap, b)
    BY <2>1 DEF Sound, Tiled
  <2>3. \A b \in Block :
          IF After(heap, b) = heap.end THEN heap.last = b
          ELSE After(heap, b) \in Block /\ heap.blk[After(heap, b)].phys = b
    BY <2>2 DEF Placed
  <2>4. \A b \in Block : ~\E d \in Block : b < d /\ d < After(heap, b)
    BY <2>2 DEF Placed
  <2>5. \A b \in Block : heap.blk[b].size >= MinSize
    BY <2>2 DEF Placed
  <2>6. heap.used = Cardinality(UNION {b .. After(heap, b) - 1 : b \in Used})
    <3>1. Used = UsedIn(Block, heap)
      BY DEF Used, UsedIn
    <3> QED
      BY <2>1, <3>1, Zenon DEF Counted, Bytes
  <2> QED
    BY <2>2, <2>3, <2>4, <2>5, <2>6 DEF Tiles
<1> QED
  BY <1>1, Invariance, PTL

\* A walk along the list of a size class meets every free block of the class
\* and no other block, and each block is linked back to the one before it.
THEOREM ListsAreRight == Spec => []ListsRight
<1>1. IInv => ListsRight
  <2> SUFFICES ASSUME IInv PROVE ListsRight
    OBVIOUS
  <2> DEFINE F == FreeIn(Block, heap)
  <2>1. /\ Block \in SUBSET Nat /\ IsFiniteSet(Block) /\ heap \in HeapOn(Block)
        /\ Linked(Block, heap, F)
    BY DEF IInv, Sound
  <2>2. Block \ Used = F
    BY DEF Used, FreeIn
  <2> HIDE DEF F
  <2>3. ASSUME NEW c \in 0 .. Classes - 1
        PROVE  OnList(heap, c) = {b \in Block \ Used : Class(heap.blk[b].size) = c}
    <3>1. OnList(heap, c) = ListOf(heap, F, c)
      BY <2>1, OnListRight DEF ClassIndex
    <3> QED
      BY <2>2, <3>1, Zenon DEF ListOf, Cls
  <2>4. ASSUME NEW b \in Block, heap.blk[b].next # Null
        PROVE  heap.blk[heap.blk[b].next].prev = b
    <3>1. b \in F
      BY <2>1, <2>4 DEF Linked, RestAlone
    <3> QED
      BY <2>1, <2>4, <3>1 DEF Linked, NextRight
  <2>5. \A c \in 0 .. Classes - 1 :
          heap.lists[c] # Null => heap.blk[heap.lists[c]].prev = Null
    BY <2>1 DEF Linked, HeadsRight, ClassIndex
  <2> QED
    BY <2>3, <2>4, <2>5, Zenon DEF ListsRight
<1> QED
  BY <1>1, Invariance, PTL

\* Two free blocks are neighbours only where km_expand has put the second.
THEOREM FreeIsCoalesced == Spec => []Coalesced
<1>1. IInv => Coalesced
  <2> SUFFICES ASSUME IInv, NEW b \in Block \ Used, After(heap, b) < heap.end,
                      heap.blk[After(heap, b)].free
               PROVE  After(heap, b) \in seams
    BY Zenon DEF Coalesced
  <2>1. /\ Block \in SUBSET Nat /\ heap \in HeapOn(Block) /\ Tiled(Block, heap)
        /\ Merged(heap, FreeIn(Block, heap), seams)
    BY DEF IInv, Sound
  <2>2. After(heap, b) \in Block
    <3>1. After(heap, b) \in Nat /\ heap.end \in Nat
      BY <2>1, HeapFields
    <3>2. After(heap, b) # heap.end
      BY <3>1
    <3> QED
      BY <2>1, <3>2, AfterEnd
  <2>3. b \in FreeIn(Block, heap) /\ After(heap, b) \in FreeIn(Block, heap)
    BY <2>2 DEF FreeIn, Used
  <2> QED
    BY <2>1, <2>3 DEF Merged
<1> QED
  BY <1>1, Invariance, PTL

-----------------------------------------------------------------------------
(* The heap implements disjoint regions                                    *)

RegionOf(b) == [at |-> b + Header, len |-> heap.blk[b].size, asked |-> asked[b]]

\* The regions of the blocks in use are regions that Regions allows.
RegionsRight ==
  /\ Owned = {RegionOf(b) : b \in UsedIn(Block, heap)}
  /\ \A b \in UsedIn(Block, heap) :
       /\ RegionOf(b) \in Heap!Region
       /\ RegionOf(b).len >= RegionOf(b).asked
       /\ RegionOf(b).at + RegionOf(b).len <= Limit
  /\ \A b, d \in UsedIn(Block, heap) :
       b # d => Heap!Apart(RegionOf(b), RegionOf(d)) /\ RegionOf(b) # RegionOf(d)

LEMMA OwnedRegions == IInv => RegionsRight
<1> SUFFICES ASSUME IInv PROVE RegionsRight
  OBVIOUS
<1> DEFINE U == UsedIn(Block, heap)
<1>1. /\ Block \in SUBSET Nat /\ heap \in HeapOn(Block) /\ Tiled(Block, heap)
      /\ heap.end <= Limit /\ asked \in [U -> Request]
      /\ \A b \in U : asked[b] <= heap.blk[b].size
  BY DEF IInv, Sound, AskedRight
<1>2. U \subseteq Block
  BY DEF UsedIn
<1>3. Owned = {RegionOf(b) : b \in U}
  <2>1. Used = U
    BY DEF Used, UsedIn
  <2> HIDE DEF U
  <2> QED
    BY <2>1, Zenon DEF Owned, RegionOf
<1> HIDE DEF U
<1>4. ASSUME NEW b \in U
      PROVE  /\ b \in Nat /\ heap.blk[b].size \in Nat /\ asked[b] \in Request
             /\ RegionOf(b).at = b + Header /\ RegionOf(b).len = heap.blk[b].size
             /\ RegionOf(b).asked = asked[b] /\ asked[b] <= heap.blk[b].size
             /\ (b + Header) + heap.blk[b].size <= Limit
  <2>1. b \in Block
    BY <1>2
  <2>2. b \in Nat /\ heap.blk[b].size \in Nat /\ asked[b] \in Request /\ heap.end \in Nat
    BY <1>1, <2>1, HeapFields
  <2>3. After(heap, b) <= heap.end
    BY <1>1, <2>1, AfterEnd
  <2>4. (b + Header) + heap.blk[b].size <= Limit
    BY <1>1, <2>2, <2>3, NatConstants DEF After
  <2> QED
    BY <1>1, <2>2, <2>4 DEF RegionOf
<1>5. ASSUME NEW b \in U
      PROVE  /\ RegionOf(b) \in Heap!Region
             /\ RegionOf(b).len >= RegionOf(b).asked
             /\ RegionOf(b).at + RegionOf(b).len <= Limit
  <2>1. /\ b + Header \in 0 .. Limit /\ heap.blk[b].size \in 0 .. Limit
        /\ asked[b] \in Request
    BY <1>4, NatConstants
  <2>2. RegionOf(b) \in Heap!Region
    BY <2>1 DEF RegionOf, Heap!Region
  <2>3. asked[b] \in Nat
    BY <2>1, NatConstants
  <2> QED
    BY <1>4, <2>2, <2>3
<1>6. ASSUME NEW b \in U, NEW d \in U, b # d
      PROVE  Heap!Apart(RegionOf(b), RegionOf(d)) /\ RegionOf(b) # RegionOf(d)
  <2>1. After(heap, b) <= d \/ After(heap, d) <= b
    BY <1>1, <1>2, <1>6, BlocksApart
  <2>2. /\ b \in Nat /\ d \in Nat /\ heap.blk[b].size \in Nat /\ heap.blk[d].size \in Nat
        /\ Header \in Nat
    BY <1>4, NatConstants
  <2>3. \/ (b + Header) + heap.blk[b].size <= d + Header
        \/ (d + Header) + heap.blk[d].size <= b + Header
    BY <2>1, <2>2 DEF After
  <2>4. Heap!Apart(RegionOf(b), RegionOf(d))
    BY <1>4, <2>3 DEF Heap!Apart
  <2>5. b + Header # d + Header
    BY <1>6, <2>2
  <2> QED
    BY <1>4, <2>4, <2>5
<1> QED
  BY <1>3, <1>5, <1>6 DEF U, RegionsRight

\* kmalloc and kfree do what Regions says: a call gives out a region apart from
\* all others and as long as what was asked for, or takes one back; none moves
\* or shrinks while its owner has it.
THEOREM HeapRefinesRegions == Spec => RefinesRegions
<1>1. Init => Heap!Init
  <2> SUFFICES ASSUME Init PROVE Heap!Init
    OBVIOUS
  <2>1. Used = {}
    <3>1. heap.blk = <<>>
      BY DEF Init
    <3>2. DOMAIN heap.blk = {}
      BY <3>1
    <3> QED
      BY <3>2 DEF Used, Block
  <2> QED
    BY <2>1 DEF Heap!Init, Owned
<1>2. ASSUME IInv, RegionsRight, RegionsRight', [Next]_vars
      PROVE  [Heap!Give \/ Heap!Take]_Owned
  <2> DEFINE U == UsedIn(Block, heap)
             V == UsedIn(Block', heap')
  <2>1. /\ Owned = {RegionOf(b) : b \in U}
        /\ \A b, d \in U : b # d => RegionOf(b) # RegionOf(d)
    BY <1>2 DEF RegionsRight
  <2>2. /\ Owned' = {RegionOf(b)' : b \in V}
        /\ \A b \in V : /\ RegionOf(b)' \in Heap!Region
                        /\ RegionOf(b)'.len >= RegionOf(b)'.asked
                        /\ RegionOf(b)'.at + RegionOf(b)'.len <= Limit
        /\ \A b, d \in V : b # d => Heap!Apart(RegionOf(b)', RegionOf(d)')
    BY <1>2 DEF RegionsRight
  <2>3. asked \in [U -> Request]
    BY <1>2 DEF IInv, AskedRight
  <2> HIDE DEF U, V
  <2>4. ASSUME NEW n, NEW b, GivesInto(n, b)
        PROVE  Heap!Give
    <3>1. /\ V = U \cup {b} /\ b \notin U /\ asked' = With(asked, b, n)
          /\ \A x \in U : heap'.blk[x].size = heap.blk[x].size
      BY <2>4 DEF GivesInto, U, V
    <3>2. ASSUME NEW x \in U
          PROVE  RegionOf(x)' = RegionOf(x)
      <4>1. asked'[x] = asked[x]
        BY <2>3, <3>1 DEF With
      <4> QED
        BY <3>1, <4>1 DEF RegionOf
    <3>3. Owned' = Owned \cup {RegionOf(b)'}
      BY <2>1, <2>2, <3>1, <3>2
    <3>4. \A s \in Owned : Heap!Apart(RegionOf(b)', s)
      BY <2>1, <2>2, <3>1, <3>2
    <3>5. /\ RegionOf(b)' \in Heap!Region
          /\ RegionOf(b)'.len >= RegionOf(b)'.asked
          /\ RegionOf(b)'.at + RegionOf(b)'.len <= Limit
      BY <2>2, <3>1
    <3> QED
      BY <3>3, <3>4, <3>5 DEF Heap!Give
  <2>5. ASSUME NEW b, TakesBack(b)
        PROVE  Heap!Take
    <3>1. /\ V = U \ {b} /\ b \in U /\ asked' = [x \in DOMAIN asked \ {b} |-> asked[x]]
          /\ \A x \in V : heap'.blk[x].size = heap.blk[x].size
      BY <2>5 DEF TakesBack, U, V
    <3>2. ASSUME NEW x \in V
          PROVE  RegionOf(x)' = RegionOf(x)
      <4>1. asked'[x] = asked[x]
        BY <2>3, <3>1
      <4> QED
        BY <3>1, <4>1 DEF RegionOf
    <3>3. Owned' = Owned \ {RegionOf(b)}
      BY <2>1, <2>2, <3>1, <3>2
    <3>4. RegionOf(b) \in Owned
      BY <2>1, <3>1
    <3> QED
      BY <3>3, <3>4 DEF Heap!Take
  <2>6. ASSUME NEW n \in Request, Kmalloc(n) PROVE Heap!Give
    BY <1>2, <2>4, <2>6, KmallocRight
  <2>7. ASSUME NEW n \in Request, KmallocExpand(n) PROVE Heap!Give
    BY <1>2, <2>4, <2>7, KmallocExpandRight
  <2>8. ASSUME NEW b \in DOMAIN asked, Kfree(b) PROVE Heap!Take
    BY <1>2, <2>5, <2>8, KfreeRight
  <2>9. CASE UNCHANGED vars
    BY <2>9 DEF vars, Owned, Used, Block
  <2> QED
    BY <1>2, <2>6, <2>7, <2>8, <2>9 DEF Next
<1> QED
  BY <1>1, <1>2, Invariance, OwnedRegions, PTL DEF Spec, RefinesRegions, Heap!Spec
=============================================================================
