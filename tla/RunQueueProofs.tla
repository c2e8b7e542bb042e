---------------------------- MODULE RunQueueProofs ----------------------------
(***************************************************************************)
(* Theorems about RunQueue for any number of tasks, any capacity and any   *)
(* set of vruntimes.                                                       *)
(***************************************************************************)
EXTENDS RunQueue, FiniteSetTheorems, WellFoundedInduction, TLAPS

(***************************************************************************)
(* The heap order, with the hole each loop leaves while it runs.  heap_up  *)
(* holds a task at slot "at" that may be smaller than its parent; in       *)
(* rq_remove it may, until its first swap, be larger than its children     *)
(* instead.  heap_down holds one that may be larger than its children.     *)
(* Either way the parent of the hole is not above what is below the hole.  *)
(***************************************************************************)
Ordered(i) == K(Parent(i)) <= K(i)

Bridged ==
  \A i \in 1 .. size - 1 : at > 0 /\ Parent(i) = at => K(Parent(at)) <= K(i)

HeapInv ==
  /\ op = "none" => \A i \in 1 .. size - 1 : Ordered(i)
  /\ op = "up" =>
       /\ \A i \in 1 .. size - 1 :
            i # at /\ ~(from = at /\ Parent(i) = at) => Ordered(i)
       /\ Bridged
  /\ op = "down" =>
       /\ \A i \in 1 .. size - 1 : Parent(i) # at => Ordered(i)
       /\ Bridged

IInv == TypeOK /\ IndexRight /\ HeapInv

-----------------------------------------------------------------------------
(* The naturals are well ordered: a non-empty set of them has a least one.  *)

LEMMA LeastNat ==
  ASSUME NEW S \in SUBSET Nat, S # {}
  PROVE  \E m \in S : \A n \in S : m <= n
<1> DEFINE R == {p \in Nat \X Nat : p[1] < p[2]}
<1>1. IsWellFoundedOn(R, Nat)
  BY NatLessThanWellFounded, Zenon DEF OpToRel
<1>2. PICK m \in S : \A n \in S : <<n, m>> \notin R
  <2> HIDE DEF R
  <2> QED
    BY <1>1, WFMin
<1>3. \A n \in S : m <= n
  <2> SUFFICES ASSUME NEW n \in S, n < m PROVE FALSE
    OBVIOUS
  <2>1. <<n, m>> \in Nat \X Nat /\ <<n, m>>[1] < <<n, m>>[2]
    OBVIOUS
  <2>2. <<n, m>> \in R
    BY <2>1
  <2> QED
    BY <1>2, <2>2
<1> QED
  BY <1>3

-----------------------------------------------------------------------------
(* The shape of the heap                                                   *)

\* The parent of a slot comes before it, and its children are the slots whose
\* parent it is.
LEMMA ParentType ==
  ASSUME NEW i \in Nat \ {0}
  PROVE  Parent(i) \in Nat /\ Parent(i) < i
  BY DEF Parent

LEMMA Children ==
  ASSUME NEW i \in Nat \ {0}, NEW p \in Nat
  PROVE  Parent(i) = p <=> i = Left(p) \/ i = Right(p)
  BY DEF Parent, Left, Right

\* Order along the edges makes the root least: the first slot that holds a
\* least key is the root, for its parent would hold one too.
LEMMA OrderedRoot ==
  ASSUME TypeOK, \A i \in 1 .. size - 1 : Ordered(i), NEW j \in 0 .. size - 1
  PROVE  K(0) <= K(j)
<1> USE DEF Ordered
<1>1. size \in Nat /\ \A i \in 0 .. size - 1 : K(i) \in Nat
  <2>1. size \in Nat /\ \A i \in 0 .. size - 1 : data[i] \in Task
    BY QueueAssumption DEF TypeOK, Slot
  <2>2. key \in [Task -> Nat]
    BY QueueAssumption DEF TypeOK
  <2> QED
    BY <2>1, <2>2 DEF K
<1> DEFINE Keys == {K(i) : i \in 0 .. size - 1}
<1>2. PICK m \in Keys : \A n \in Keys : m <= n
  <2>1. Keys \in SUBSET Nat /\ Keys # {}
    BY <1>1
  <2> QED
    BY <2>1, LeastNat
<1> DEFINE Best == {i \in 0 .. size - 1 : K(i) = m}
<1>3. PICK b \in Best : \A i \in Best : b <= i
  <2>1. Best \in SUBSET Nat /\ Best # {}
    BY <1>1
  <2> QED
    BY <2>1, LeastNat
<1>4. b = 0
  <2>1. SUFFICES ASSUME b > 0 PROVE FALSE
    BY <1>1, <1>3
  <2>2. Parent(b) \in 0 .. size - 1 /\ Parent(b) < b
    BY <1>1, <1>3, <2>1, ParentType
  <2>3. K(Parent(b)) <= m
    BY <1>1, <1>3, <2>1
  <2>4. Parent(b) \in Best
    BY <1>1, <1>2, <2>2, <2>3
  <2> QED
    BY <1>1, <1>3, <2>2, <2>4
<1> QED
  BY <1>2, <1>3, <1>4

-----------------------------------------------------------------------------
(* Every step keeps the inductive invariant                                *)

\* What the types and the indices say of the slots in use.
\* The key in slot i after a step.
NewK(i) == key'[data'[i]]

LEMMA SlotFacts ==
  ASSUME TypeOK, IndexRight
  PROVE  /\ size \in Nat /\ size <= Cap /\ Cap \in Nat
         /\ key \in [Task -> Nat]
         /\ \A i \in 0 .. size - 1 : i \in Slot /\ data[i] \in Task /\ K(i) \in Nat
         /\ \A i, j \in 0 .. size - 1 : i # j => data[i] # data[j]
         /\ Queued \subseteq Task
<1>1. size \in Nat /\ size <= Cap /\ Cap \in Nat /\ key \in [Task -> Nat]
  <2>1. size \in Nat /\ size <= Cap /\ Cap \in Nat
    BY QueueAssumption DEF TypeOK
  <2>2. key \in [Task -> Nat]
    BY QueueAssumption DEF TypeOK
  <2> QED
    BY <2>1, <2>2
<1>2. \A i \in 0 .. size - 1 : i \in Slot /\ data[i] \in Task
  BY <1>1 DEF TypeOK, Slot
<1>3. \A i, j \in 0 .. size - 1 : i # j => data[i] # data[j]
  BY DEF IndexRight
<1> QED
  BY <1>1, <1>2, <1>3 DEF K, Queued

\* heap_swap keeps the set, the types and heap_idx, and exchanges two keys.
LEMMA SwapFacts ==
  ASSUME TypeOK, IndexRight, NEW a \in 0 .. size - 1, NEW b \in 0 .. size - 1,
         a # b, Swap(a, b), UNCHANGED <<size, key>>
  PROVE  /\ data' \in [Slot -> Task \cup {Null}]
         /\ \A i \in Slot : data'[i] = Null <=> i >= size
         /\ idx' \in [Task -> -1 .. Cap - 1]
         /\ Queued' = Queued /\ IndexRight'
         /\ NewK(a) = K(b) /\ NewK(b) = K(a)
         /\ \A i \in 0 .. size - 1 : i # a /\ i # b => NewK(i) = K(i)
<1>1. /\ size \in Nat /\ size <= Cap /\ Cap \in Nat
      /\ \A i \in 0 .. size - 1 : i \in Slot /\ data[i] \in Task
      /\ \A i, j \in 0 .. size - 1 : i # j => data[i] # data[j]
  BY SlotFacts
<1>2. /\ data \in [Slot -> Task \cup {Null}] /\ idx \in [Task -> -1 .. Cap - 1]
      /\ \A i \in Slot : data[i] = Null <=> i >= size
  BY DEF TypeOK
<1>3. /\ data' = [data EXCEPT ![a] = data[b], ![b] = data[a]]
      /\ idx' = [idx EXCEPT ![data[a]] = b, ![data[b]] = a]
  BY DEF Swap
<1>4. /\ data'[a] = data[b] /\ data'[b] = data[a]
      /\ \A i \in Slot : i # a /\ i # b => data'[i] = data[i]
  BY <1>1, <1>2, <1>3
<1>5. /\ data' \in [Slot -> Task \cup {Null}]
      /\ \A i \in Slot : data'[i] = Null <=> i >= size
  <2>1. data[a] \in Task /\ data[b] \in Task /\ a < size /\ b < size
    BY <1>1
  <2>2. data' \in [Slot -> Task \cup {Null}]
    BY <1>2, <1>3, <2>1
  <2>3. \A i \in Slot : data'[i] = Null <=> i >= size
    BY <1>1, <1>2, <1>4, <2>1, QueueAssumption
  <2> QED
    BY <2>2, <2>3
<1>6. /\ idx' \in [Task -> -1 .. Cap - 1]
      /\ idx'[data[a]] = b /\ idx'[data[b]] = a
      /\ \A t \in Task : t # data[a] /\ t # data[b] => idx'[t] = idx[t]
  BY <1>1, <1>2, <1>3
<1>7. Queued' = Queued
  BY <1>1, <1>4 DEF Queued
<1>8. IndexRight'
  <2>1. ASSUME NEW i \in 0 .. size - 1
        PROVE  idx'[data'[i]] = i
    BY <1>1, <1>4, <1>6 DEF IndexRight
  <2>2. ASSUME NEW t \in Task, t \notin Queued
        PROVE  idx'[t] = -1
    BY <1>6, <2>2 DEF IndexRight, Queued
  <2> QED
    BY <1>7, <2>1, <2>2 DEF IndexRight
<1>9. /\ NewK(a) = K(b) /\ NewK(b) = K(a)
      /\ \A i \in 0 .. size - 1 : i # a /\ i # b => NewK(i) = K(i)
  BY <1>1, <1>4 DEF K, NewK
<1> QED
  BY <1>5, <1>6, <1>7, <1>8, <1>9

LEMMA HeapUpIInv == IInv /\ HeapUp => IInv' /\ Queued' = Queued
<1> SUFFICES ASSUME IInv, HeapUp PROVE IInv' /\ Queued' = Queued
  OBVIOUS
<1> USE DEF IInv
<1>1. /\ size \in Nat /\ size <= Cap /\ Cap \in Nat
      /\ \A i \in 0 .. size - 1 : i \in Slot /\ data[i] \in Task /\ K(i) \in Nat
  BY SlotFacts
<1>2. at \in 0 .. size - 1 /\ op = "up" /\ UNCHANGED <<size, key, out>>
  BY <1>1 DEF HeapUp, TypeOK, Slot
<1>3. /\ \A i \in 1 .. size - 1 :
            i # at /\ ~(from = at /\ Parent(i) = at) => Ordered(i)
      /\ Bridged
  BY <1>2 DEF HeapInv
<1>4. CASE Rises(at)
  <2>h. PICK h \in 0 .. size - 1 : h = at
    BY <1>2
  <2>1. PICK p \in 0 .. size - 1 : p = Parent(h) /\ h > 0 /\ p < h /\ K(p) > K(h)
    BY <1>1, <1>2, <1>4, <2>h, ParentType DEF Rises
  <2>2. Swap(p, h) /\ at' = p /\ UNCHANGED <<op, from>>
    BY <1>4, <2>h, <2>1 DEF HeapUp
  <2>3. /\ \A i \in 1 .. size - 1 : i # h /\ Parent(i) # h => Ordered(i)
        /\ \A i \in 1 .. size - 1 : i # h /\ from # h => Ordered(i)
        /\ \A i \in 1 .. size - 1 : Parent(i) = h => K(p) <= K(i)
    BY <1>3, <2>h, <2>1 DEF Bridged
  <2>4. /\ data' \in [Slot -> Task \cup {Null}]
        /\ \A i \in Slot : data'[i] = Null <=> i >= size
        /\ idx' \in [Task -> -1 .. Cap - 1]
        /\ Queued' = Queued /\ IndexRight'
        /\ NewK(p) = K(h) /\ NewK(h) = K(p)
        /\ \A i \in 0 .. size - 1 : i # p /\ i # h => NewK(i) = K(i)
    BY <1>2, <2>1, <2>2, SwapFacts
  <2>5. TypeOK'
    BY <1>1, <1>2, <2>1, <2>2, <2>4 DEF TypeOK
  <2>6. ASSUME NEW i \in 1 .. size - 1, i # p
        PROVE  NewK(Parent(i)) <= NewK(i)
    <3>1. Parent(i) \in 0 .. size - 1 /\ Parent(i) < i
      BY <1>1, ParentType
    <3>2. CASE i = h
      BY <1>1, <2>1, <2>4, <3>2
    <3>3. CASE i # h /\ Parent(i) = h
      BY <2>3, <2>4, <2>6, <3>3
    <3>4. CASE i # h /\ Parent(i) = p
      <4>1. K(p) <= K(i)
        BY <2>3, <2>1, <3>4 DEF Ordered
      <4>2. NewK(p) = K(h) /\ NewK(i) = K(i)
        BY <2>4, <2>6, <3>4
      <4> QED
        BY <1>1, <2>1, <3>4, <4>1, <4>2
    <3>5. CASE i # h /\ Parent(i) # h /\ Parent(i) # p
      <4>1. K(Parent(i)) <= K(i)
        BY <2>3, <3>5 DEF Ordered
      <4> QED
        BY <2>4, <2>6, <3>1, <3>5, <4>1
    <3> QED
      BY <3>2, <3>3, <3>4, <3>5
  <2>7. ASSUME NEW i \in 1 .. size - 1, p > 0, Parent(i) = p
        PROVE  NewK(Parent(p)) <= NewK(i)
    <3>1. Parent(p) \in 0 .. size - 1 /\ Parent(p) < p
      BY <1>1, <2>1, <2>7, ParentType
    <3>2. K(Parent(p)) <= K(p)
      <4>1. Parent(p) # h /\ p # h /\ p \in 1 .. size - 1
        BY <1>1, <2>1, <2>7, <3>1
      <4> QED
        BY <2>3, <4>1 DEF Ordered
    <3>3. NewK(Parent(p)) = K(Parent(p))
      BY <1>1, <2>1, <2>4, <3>1
    <3>4. CASE i = h
      BY <2>4, <3>2, <3>3, <3>4
    <3>5. CASE i # h
      <4>1. i # p /\ Parent(i) # h
        BY <1>1, <2>1, <2>7, ParentType
      <4>2. K(p) <= K(i) /\ NewK(i) = K(i)
        BY <2>3, <2>4, <2>7, <3>5, <4>1 DEF Ordered
      <4> QED
        BY <1>1, <2>1, <3>1, <3>2, <3>3, <4>2
    <3> QED
      BY <3>4, <3>5
  <2>8. HeapInv'
    BY <1>2, <2>2, <2>6, <2>7 DEF HeapInv, Ordered, Bridged, K, NewK
  <2> QED
    BY <2>4, <2>5, <2>8
<1>5. CASE ~Rises(at)
  <2>1. /\ op' = IF from >= 0 THEN "down" ELSE "none"
        /\ at' = IF from >= 0 THEN from ELSE at
        /\ from' = -1 /\ UNCHANGED <<data, idx>>
    BY <1>5 DEF HeapUp
  <2>2. Queued' = Queued /\ IndexRight' /\ \A i : NewK(i) = K(i)
    BY <1>2, <2>1 DEF Queued, IndexRight, K, NewK
  <2>3. TypeOK'
    BY <1>1, <1>2, <2>1 DEF TypeOK, Slot
  <2>4. at > 0 => Ordered(at)
    BY <1>1, <1>2, <1>5, ParentType DEF Rises, Ordered
  <2>5. \A i \in 1 .. size - 1 : ~(from = at /\ Parent(i) = at) => Ordered(i)
    BY <1>3, <2>4
  <2>6. CASE from < 0
    <3>1. \A i \in 1 .. size - 1 : Ordered(i)'
      BY <1>1, <1>2, <2>2, <2>5, <2>6 DEF Ordered, K, NewK
    <3> QED
      BY <1>2, <2>1, <2>2, <2>3, <2>6, <3>1 DEF HeapInv, TypeOK
  <2>7. CASE from >= 0
    <3>1. from \in 0 .. size - 1 /\ op' = "down" /\ at' = from
      BY <1>1, <2>1, <2>7 DEF TypeOK
    <3>2. \A i \in 1 .. size - 1 : Parent(i) # from => Ordered(i)
      BY <2>5
    <3>3. ASSUME NEW i \in 1 .. size - 1, from > 0, Parent(i) = from
          PROVE  K(Parent(from)) <= K(i)
      <4>1. CASE from = at
        BY <1>3, <3>3, <4>1 DEF Bridged
      <4>2. CASE from # at
        <5>1. Ordered(i) /\ Ordered(from)
          BY <1>1, <2>5, <3>1, <3>3, <4>2
        <5>2. Parent(from) \in 0 .. size - 1
          BY <1>1, <3>1, <3>3, ParentType
        <5> QED
          BY <1>1, <3>1, <3>3, <5>1, <5>2 DEF Ordered
      <4> QED
        BY <4>1, <4>2
    <3> QED
      BY <1>2, <2>2, <2>3, <3>1, <3>2, <3>3 DEF HeapInv, Bridged, Ordered, K, NewK
  <2> QED
    BY <2>6, <2>7 DEF TypeOK
<1> QED
  BY <1>4, <1>5

LEMMA SmallestFacts ==
  ASSUME TypeOK, IndexRight, NEW h \in 0 .. size - 1
  PROVE  /\ Smallest(h) # h =>
              /\ Smallest(h) \in 1 .. size - 1 /\ Smallest(h) > h
              /\ Parent(Smallest(h)) = h /\ K(Smallest(h)) < K(h)
         /\ \A i \in 1 .. size - 1 : Parent(i) = h => K(Smallest(h)) <= K(i)
<1>1. size \in Nat /\ \A i \in 0 .. size - 1 : K(i) \in Nat
  BY SlotFacts
<1>2. Left(h) \in Nat /\ Left(h) > h /\ Right(h) \in Nat /\ Right(h) > h
  BY <1>1 DEF Left, Right
<1>3. Parent(Left(h)) = h /\ Parent(Right(h)) = h
  BY <1>1, <1>2, Children
<1>4. \A i \in 1 .. size - 1 : Parent(i) = h => i = Left(h) \/ i = Right(h)
  BY <1>1, Children
<1>5. /\ Left(h) < size => Left(h) \in 1 .. size - 1 /\ K(Left(h)) \in Nat
      /\ Right(h) < size => Right(h) \in 1 .. size - 1 /\ K(Right(h)) \in Nat
      /\ K(h) \in Nat
  BY <1>1, <1>2
<1> QED
  BY <1>1, <1>2, <1>3, <1>4, <1>5 DEF Smallest

LEMMA HeapDownIInv == IInv /\ HeapDown => IInv' /\ Queued' = Queued
<1> SUFFICES ASSUME IInv, HeapDown PROVE IInv' /\ Queued' = Queued
  OBVIOUS
<1> USE DEF IInv
<1>1. /\ size \in Nat /\ size <= Cap /\ Cap \in Nat
      /\ \A i \in 0 .. size - 1 : i \in Slot /\ data[i] \in Task /\ K(i) \in Nat
  BY SlotFacts
<1>2. at \in 0 .. size - 1 /\ op = "down" /\ UNCHANGED <<size, key, from, out>>
  BY <1>1 DEF HeapDown, TypeOK, Slot
<1>3. PICK h \in 0 .. size - 1 : h = at
  BY <1>2
<1>4. /\ \A i \in 1 .. size - 1 : Parent(i) # h => Ordered(i)
      /\ \A i \in 1 .. size - 1 : h > 0 /\ Parent(i) = h => K(Parent(h)) <= K(i)
  BY <1>2, <1>3 DEF HeapInv, Bridged
<1>5. CASE Smallest(at) # at
  <2>1. PICK s \in 1 .. size - 1 :
          /\ s = Smallest(h) /\ s > h /\ Parent(s) = h /\ K(s) < K(h)
          /\ \A i \in 1 .. size - 1 : Parent(i) = h => K(s) <= K(i)
    BY <1>3, <1>5, SmallestFacts
  <2>2. Swap(h, s) /\ at' = s /\ UNCHANGED op
    BY <1>3, <1>5, <2>1 DEF HeapDown
  <2>3. /\ data' \in [Slot -> Task \cup {Null}]
        /\ \A i \in Slot : data'[i] = Null <=> i >= size
        /\ idx' \in [Task -> -1 .. Cap - 1]
        /\ Queued' = Queued /\ IndexRight'
        /\ NewK(h) = K(s) /\ NewK(s) = K(h)
        /\ \A i \in 0 .. size - 1 : i # h /\ i # s => NewK(i) = K(i)
    <3>1. s \in 0 .. size - 1 /\ h # s
      BY <1>1, <2>1
    <3> QED
      BY <1>2, <2>2, <3>1, SwapFacts
  <2>4. TypeOK'
    <3>1. s \in Slot /\ s < size /\ size' = size
      BY <1>1, <1>2, <2>1
    <3> QED
      BY <1>2, <2>2, <2>3, <3>1 DEF TypeOK
  <2>5. ASSUME NEW i \in 1 .. size - 1, Parent(i) # s
        PROVE  NewK(Parent(i)) <= NewK(i)
    <3>1. Parent(i) \in 0 .. size - 1 /\ Parent(i) < i
      BY <1>1, ParentType
    <3>2. CASE i = s
      BY <1>1, <2>1, <2>3, <3>2
    <3>3. CASE i = h
      <4>1. K(Parent(h)) <= K(s)
        BY <1>1, <1>4, <2>1, <3>3
      <4> QED
        BY <2>3, <2>5, <3>1, <3>3, <4>1
    <3>4. CASE i # s /\ i # h /\ Parent(i) = h
      BY <2>1, <2>3, <3>4
    <3>5. CASE i # s /\ i # h /\ Parent(i) # h
      <4>1. K(Parent(i)) <= K(i)
        BY <1>4, <3>5 DEF Ordered
      <4> QED
        BY <2>3, <2>5, <3>1, <3>5, <4>1
    <3> QED
      BY <3>2, <3>3, <3>4, <3>5
  <2>6. ASSUME NEW i \in 1 .. size - 1, Parent(i) = s
        PROVE  NewK(Parent(s)) <= NewK(i)
    <3>1. i > s
      BY <1>1, <2>6, ParentType
    <3>2. K(s) <= K(i)
      BY <1>4, <2>1, <2>6 DEF Ordered
    <3>3. NewK(i) = K(i) /\ NewK(Parent(s)) = K(s)
      BY <1>1, <2>1, <2>3, <3>1
    <3> QED
      BY <3>2, <3>3
  <2>7. HeapInv'
    BY <1>2, <2>2, <2>5, <2>6 DEF HeapInv, Ordered, Bridged, K, NewK
  <2> QED
    BY <2>3, <2>4, <2>7
<1>6. CASE Smallest(at) = at
  <2>1. op' = "none" /\ UNCHANGED <<data, idx, at>>
    BY <1>6 DEF HeapDown
  <2>2. Queued' = Queued /\ IndexRight'
    BY <1>2, <2>1 DEF Queued, IndexRight
  <2>3. TypeOK'
    BY <1>2, <2>1 DEF TypeOK
  <2>4. \A i \in 1 .. size - 1 : Ordered(i)
    BY <1>3, <1>4, <1>6, SmallestFacts DEF Ordered
  <2>5. HeapInv'
    BY <1>2, <2>1, <2>4 DEF HeapInv, Ordered, K
  <2> QED
    BY <2>2, <2>3, <2>5
<1> QED
  BY <1>5, <1>6

LEMMA PushIInv ==
  ASSUME NEW t \in Task, IInv, Push(t)
  PROVE  IInv' /\ Queued' = Queued \cup {t}
<1> USE DEF IInv, Push, HasRoom
<1>1. /\ size \in Nat /\ size < Cap /\ Cap \in Nat /\ size \in Slot
      /\ \A i \in 0 .. size - 1 : i \in Slot /\ data[i] \in Task /\ K(i) \in Nat
      /\ \A i \in 0 .. size - 1 : data[i] # t
  BY SlotFacts DEF Queued, Slot
<1>2. /\ data \in [Slot -> Task \cup {Null}] /\ idx \in [Task -> -1 .. Cap - 1]
      /\ \A i \in Slot : data[i] = Null <=> i >= size
      /\ t # Null
  BY QueueAssumption DEF TypeOK
<1>3. /\ data'[size] = t /\ \A i \in 0 .. size - 1 : data'[i] = data[i]
      /\ idx'[t] = size /\ \A u \in Task : u # t => idx'[u] = idx[u]
  BY <1>1, <1>2
<1>4. TypeOK'
  <2>1. data' \in [Slot -> Task \cup {Null}]
    BY <1>2
  <2>2. \A i \in Slot : data'[i] = Null <=> i >= size + 1
    <3>1. \A i \in Slot : i # size => data'[i] = data[i]
      BY <1>1, <1>2
    <3> QED
      BY <1>1, <1>2, <1>3, <3>1 DEF Slot
  <2>3. idx' \in [Task -> -1 .. Cap - 1]
    BY <1>1, <1>2
  <2>4. size' \in 0 .. Cap /\ at' \in Slot /\ at' < size' /\ from' \in -1 .. Cap - 1
    BY <1>1 DEF Slot
  <2> QED
    BY <2>1, <2>2, <2>3, <2>4 DEF TypeOK
<1>5. Queued' = Queued \cup {t}
  <2>1. \A i \in 0 .. size : i = size \/ i \in 0 .. size - 1
    BY <1>1
  <2>2. size' = size + 1 /\ (0 .. size' - 1) = 0 .. size
    BY <1>1
  <2>3. Queued' = {data'[i] : i \in 0 .. size}
    BY <2>2 DEF Queued
  <2> QED
    BY <1>1, <1>3, <2>1, <2>3 DEF Queued
<1>6. IndexRight'
  <2>1. ASSUME NEW i \in 0 .. size
        PROVE  idx'[data'[i]] = i
    <3>1. CASE i = size
      BY <1>3, <3>1
    <3>2. CASE i \in 0 .. size - 1
      BY <1>1, <1>3, <3>2 DEF IndexRight
    <3> QED
      BY <1>1, <3>1, <3>2
  <2>2. ASSUME NEW u \in Task, u \notin Queued, u # t
        PROVE  idx'[u] = -1
    BY <1>3, <2>2 DEF IndexRight
  <2>3. (0 .. size' - 1) = 0 .. size
    BY <1>1
  <2> QED
    BY <1>5, <2>1, <2>2, <2>3 DEF IndexRight
<1>7. HeapInv'
  <2>1. ASSUME NEW i \in 1 .. size, i # size
        PROVE  key[data'[Parent(i)]] <= key[data'[i]]
    <3>1. i \in 1 .. size - 1 /\ Parent(i) \in 0 .. size - 1
      BY <1>1, <2>1, ParentType
    <3>2. K(Parent(i)) <= K(i)
      BY <3>1 DEF HeapInv, Ordered
    <3> QED
      BY <1>1, <1>3, <3>1, <3>2 DEF K
  <2>2. ASSUME NEW i \in 1 .. size
        PROVE  Parent(i) # size
    BY <1>1, ParentType
  <2>3. PICK n \in Nat : n = size /\ size' = n + 1 /\ (1 .. size' - 1) = 1 .. n
    BY <1>1
  <2>4. op' = "up" /\ at' = n /\ from' = -1 /\ key' = key
    BY <2>3
  <2>5. \A i \in 1 .. n : i # n => key'[data'[Parent(i)]] <= key'[data'[i]]
    BY <2>1, <2>3, <2>4
  <2>6. \A i \in 1 .. n : Parent(i) # n
    BY <2>2, <2>3
  <2> HIDE DEF Push
  <2> QED
    BY <2>3, <2>4, <2>5, <2>6 DEF HeapInv, Ordered, Bridged, K
<1> QED
  BY <1>4, <1>5, <1>6, <1>7

LEMMA VacateFacts ==
  ASSUME IInv, op = "none", NEW n \in Nat, size = n + 1,
         NEW i \in 0 .. n, NEW t, t = data[i], Vacate(t, i), key' = key
  PROVE  /\ data' \in [Slot -> Task \cup {Null}] /\ size' = n /\ n \in 0 .. Cap
         /\ \A j \in Slot : data'[j] = Null <=> j >= n
         /\ idx' \in [Task -> -1 .. Cap - 1]
         /\ Queued' = Queued \ {t} /\ IndexRight'
         /\ i < n => NewK(i) = K(n)
         /\ \A j \in 0 .. n - 1 : j # i => NewK(j) = K(j)
<1>1. /\ size \in Nat /\ size <= Cap /\ Cap \in Nat
      /\ \A j \in 0 .. n : j \in Slot /\ data[j] \in Task
      /\ \A j, k \in 0 .. n : j # k => data[j] # data[k]
  BY SlotFacts DEF IInv
<1>2. /\ data \in [Slot -> Task \cup {Null}] /\ idx \in [Task -> -1 .. Cap - 1]
      /\ \A j \in Slot : data[j] = Null <=> j >= size
      /\ Null \notin Task
  BY QueueAssumption DEF IInv, TypeOK
<1>3. /\ size' = n
      /\ data' = [data EXCEPT ![i] = data[n], ![n] = Null]
      /\ idx' = [idx EXCEPT ![data[n]] = i, ![t] = -1]
  <2>1. size - 1 = n
    OBVIOUS
  <2> QED
    BY <2>1, Zenon DEF Vacate
<1>4. /\ i < n => data'[i] = data[n]
      /\ data'[n] = Null
      /\ \A j \in Slot : j # i /\ j # n => data'[j] = data[j]
  BY <1>1, <1>2, <1>3
<1>5. /\ data' \in [Slot -> Task \cup {Null}]
      /\ \A j \in Slot : data'[j] = Null <=> j >= n
  <2>1. data' \in [Slot -> Task \cup {Null}]
    BY <1>1, <1>2, <1>3
  <2>2. ASSUME NEW j \in Slot
        PROVE  data'[j] = Null <=> j >= n
    <3>1. CASE j = n
      BY <1>4, <3>1
    <3>2. CASE j # n /\ j = i
      BY <1>1, <1>2, <1>4, <3>2
    <3>3. CASE j # n /\ j # i
      BY <1>1, <1>2, <1>4, <3>3 DEF Slot
    <3> QED
      BY <3>1, <3>2, <3>3
  <2> QED
    BY <2>1, <2>2
<1>6. /\ idx' \in [Task -> -1 .. Cap - 1] /\ idx'[t] = -1
      /\ i < n => idx'[data[n]] = i
      /\ \A u \in Task : u # t /\ u # data[n] => idx'[u] = idx[u]
  <2>1. i \in -1 .. Cap - 1 /\ -1 \in -1 .. Cap - 1 /\ t \in Task /\ data[n] \in Task
    BY <1>1
  <2>2. i < n => data[n] # t
    BY <1>1
  <2> QED
    BY <1>2, <1>3, <2>1, <2>2
<1>7. Queued' = Queued \ {t}
  <2>1. Queued' = {data'[j] : j \in 0 .. n - 1} /\ Queued = {data[j] : j \in 0 .. n}
    BY <1>3 DEF Queued
  <2>2. ASSUME NEW u \in Queued'
        PROVE  u \in Queued /\ u # t
    <3>1. PICK j \in 0 .. n - 1 : u = data'[j]
      BY <2>1
    <3>2. CASE j = i
      BY <1>1, <1>4, <2>1, <3>1, <3>2
    <3>3. CASE j # i
      BY <1>1, <1>4, <2>1, <3>1, <3>3
    <3> QED
      BY <3>2, <3>3
  <2>3. ASSUME NEW u \in Queued, u # t
        PROVE  u \in Queued'
    <3>1. PICK j \in 0 .. n : u = data[j] /\ j # i
      BY <2>1, <2>3
    <3>2. CASE j = n
      BY <1>4, <2>1, <3>1, <3>2
    <3>3. CASE j # n
      BY <1>1, <1>4, <2>1, <3>1, <3>3
    <3> QED
      BY <3>2, <3>3
  <2> QED
    BY <2>2, <2>3
<1>8. IndexRight'
  <2>1. ASSUME NEW j \in 0 .. n - 1
        PROVE  idx'[data'[j]] = j
    <3>1. CASE j = i
      BY <1>4, <1>6, <3>1
    <3>2. CASE j # i
      <4>1. data'[j] = data[j] /\ data[j] # t /\ data[j] # data[n] /\ data[j] \in Task
        BY <1>1, <1>4, <3>2
      <4>2. idx[data[j]] = j
        BY DEF IInv, IndexRight
      <4> QED
        BY <1>6, <4>1, <4>2
    <3> QED
      BY <3>1, <3>2
  <2>2. ASSUME NEW u \in Task, u \notin Queued'
        PROVE  idx'[u] = -1
    <3>1. CASE u = t
      BY <1>6, <3>1
    <3>2. CASE u # t
      <4>1. u \notin Queued /\ idx[u] = -1
        BY <1>7, <2>2, <3>2 DEF IInv, IndexRight
      <4>2. u # data[n]
        BY <4>1 DEF Queued
      <4> QED
        BY <1>6, <3>2, <4>1, <4>2
    <3> QED
      BY <3>1, <3>2
  <2> QED
    BY <1>3, <2>1, <2>2 DEF IndexRight
<1>9. /\ i < n => NewK(i) = K(n)
      /\ \A j \in 0 .. n - 1 : j # i => NewK(j) = K(j)
  BY <1>1, <1>4 DEF K, NewK
<1> QED
  BY <1>1, <1>3, <1>5, <1>6, <1>7, <1>8, <1>9

LEMMA PopIInv ==
  ASSUME IInv, Pop
  PROVE  IInv' /\ Queued' = Queued \ {data[0]} /\ data[0] \in Queued
<1>1. PICK n \in Nat : size = n + 1
  <2>1. size \in Nat /\ size > 0
    BY QueueAssumption DEF IInv, TypeOK, Pop
  <2>2. size - 1 \in Nat /\ size = (size - 1) + 1
    BY <2>1
  <2> QED
    BY <2>2
<1>2. /\ op = "none" /\ Vacate(data[0], 0) /\ out' = data[0]
      /\ IF size > 1 THEN op' = "down" /\ at' = 0 ELSE UNCHANGED <<op, at>>
      /\ UNCHANGED <<key, from>>
  BY DEF Pop
<1>3. /\ data' \in [Slot -> Task \cup {Null}] /\ size' = n /\ n \in 0 .. Cap
      /\ \A j \in Slot : data'[j] = Null <=> j >= n
      /\ idx' \in [Task -> -1 .. Cap - 1]
      /\ Queued' = Queued \ {data[0]} /\ IndexRight'
      /\ \A j \in 0 .. n - 1 : j # 0 => NewK(j) = K(j)
  <2>1. 0 \in 0 .. n
    BY <1>1
  <2> QED
    BY <1>1, <1>2, <2>1, VacateFacts
<1>4. data[0] \in Task /\ data[0] \in Queued
  BY <1>1, SlotFacts DEF IInv, Queued
<1>5. TypeOK'
  <2>1. from' = from /\ from = -1 /\ at \in Slot /\ 0 \in Slot
    <3>1. from = -1 /\ at \in Slot
      BY <1>2, QueueAssumption DEF IInv, TypeOK
    <3>2. 0 \in Slot
      BY QueueAssumption DEF Slot
    <3> QED
      BY <1>2, <3>1, <3>2
  <2>2. at' \in Slot /\ op' \in {"none", "down"} /\ (op' # "none" => at' < n)
    BY <1>1, <1>2, <2>1
  <2>3. -1 \in -1 .. Cap - 1
    BY QueueAssumption
  <2>4. key' \in [Task -> Key] /\ out' \in Task \cup {Null}
    BY <1>2, <1>4 DEF IInv, TypeOK
  <2> QED
    BY <1>3, <2>1, <2>2, <2>3, <2>4 DEF TypeOK
<1>6. \A i \in 1 .. n : Ordered(i)
  BY <1>1, <1>2 DEF IInv, HeapInv
<1>7. HeapInv'
  <2>1. ASSUME NEW i \in 1 .. n - 1, Parent(i) # 0
        PROVE  NewK(Parent(i)) <= NewK(i)
    <3>1. Parent(i) \in 0 .. n - 1 /\ i \in 0 .. n - 1 /\ i # 0 /\ i \in 1 .. n
      BY ParentType
    <3> QED
      BY <1>3, <1>6, <2>1, <3>1 DEF Ordered
  <2>2. CASE n > 0
    <3>1. op' = "down" /\ at' = 0
      BY <1>1, <1>2, <2>2
    <3> QED
      BY <1>3, <2>1, <3>1 DEF HeapInv, Ordered, Bridged, K, NewK
  <2>3. CASE n = 0
    <3>1. op' = "none" /\ (1 .. n - 1) = {}
      BY <1>1, <1>2, <2>3
    <3> QED
      BY <1>3, <3>1 DEF HeapInv
  <2> QED
    BY <2>2, <2>3
<1> QED
  BY <1>3, <1>4, <1>5, <1>7 DEF IInv

LEMMA RemoveIInv ==
  ASSUME NEW t \in Task, IInv, Remove(t)
  PROVE  IInv' /\ Queued' = Queued \ {t} /\ t \in Queued
<1>1. PICK n \in Nat : size = n + 1
  <2>1. size \in Nat /\ size > 0
    BY QueueAssumption DEF IInv, TypeOK, Remove
  <2>2. size - 1 \in Nat /\ size = (size - 1) + 1
    BY <2>1
  <2> QED
    BY <2>2
<1>2. PICK i \in 0 .. n : i = idx[t] /\ data[i] = t
  <2>1. idx[t] \in 0 .. n
    BY <1>1, QueueAssumption DEF IInv, TypeOK, Remove
  <2>2. t \in Queued
    BY <2>1 DEF IInv, IndexRight
  <2>3. data[idx[t]] = t
    BY <2>2 DEF IInv, IndexRight, Queued
  <2> QED
    BY <2>1, <2>3
<1>3. /\ op = "none" /\ Vacate(t, i)
      /\ IF i < n THEN op' = "up" /\ at' = i /\ from' = i
                  ELSE UNCHANGED <<op, at, from>>
      /\ UNCHANGED <<key, out>>
  BY <1>1, <1>2 DEF Remove
<1>4. /\ data' \in [Slot -> Task \cup {Null}] /\ size' = n /\ n \in 0 .. Cap
      /\ \A j \in Slot : data'[j] = Null <=> j >= n
      /\ idx' \in [Task -> -1 .. Cap - 1]
      /\ Queued' = Queued \ {t} /\ IndexRight'
      /\ \A j \in 0 .. n - 1 : j # i => NewK(j) = K(j)
  BY <1>1, <1>2, <1>3, VacateFacts
<1>5. t \in Queued
  BY <1>1, <1>2 DEF Queued
<1>6. TypeOK'
  <2>1. from = -1 /\ at \in Slot /\ Cap \in Nat /\ n < Cap
    BY <1>1, <1>3, QueueAssumption DEF IInv, TypeOK
  <2>2. i \in Slot /\ i \in -1 .. Cap - 1
    BY <2>1 DEF Slot
  <2>3. /\ at' \in Slot /\ op' \in {"none", "up"} /\ (op' # "none" => at' < n)
        /\ from' \in -1 .. Cap - 1 /\ (from' >= 0 => op' = "up" /\ from' < n)
    BY <1>3, <2>1, <2>2
  <2>4. key' \in [Task -> Key] /\ out' \in Task \cup {Null}
    BY <1>3 DEF IInv, TypeOK
  <2> QED
    BY <1>4, <2>3, <2>4 DEF TypeOK
<1>7. \A j \in 1 .. n : Ordered(j)
  BY <1>1, <1>3 DEF IInv, HeapInv
<1>8. HeapInv'
  <2>1. ASSUME NEW j \in 1 .. n - 1, Parent(j) # i, j # i
        PROVE  NewK(Parent(j)) <= NewK(j)
    <3>1. Parent(j) \in 0 .. n - 1 /\ j \in 0 .. n - 1 /\ j \in 1 .. n
      BY ParentType
    <3> QED
      BY <1>4, <1>7, <2>1, <3>1 DEF Ordered
  <2>2. ASSUME NEW j \in 1 .. n - 1, i > 0, Parent(j) = i
        PROVE  NewK(Parent(i)) <= NewK(j)
    <3>1. /\ Parent(i) \in 0 .. n - 1 /\ Parent(i) # i /\ j # i
          /\ j \in 0 .. n - 1 /\ j \in 1 .. n /\ i \in 1 .. n
      BY <1>2, <2>2, ParentType
    <3>2. K(Parent(i)) <= K(i) /\ K(i) <= K(j)
      BY <1>7, <2>2, <3>1 DEF Ordered
    <3>3. K(Parent(i)) \in Nat /\ K(i) \in Nat /\ K(j) \in Nat
      BY <1>1, <3>1, SlotFacts DEF IInv
    <3> QED
      BY <1>4, <3>1, <3>2, <3>3
  <2>3. CASE i < n
    <3>1. op' = "up" /\ at' = i /\ from' = i
      BY <1>3, <2>3
    <3> QED
      BY <1>4, <2>1, <2>2, <3>1 DEF HeapInv, Ordered, Bridged, K, NewK
  <2>4. CASE i = n
    <3>1. op' = "none"
      BY <1>3, <2>4
    <3>2. \A j \in 1 .. n - 1 : Parent(j) # i /\ j # i
      BY <2>4, ParentType
    <3> QED
      BY <1>4, <2>1, <3>1, <3>2 DEF HeapInv, Ordered, K, NewK
  <2> QED
    BY <1>2, <2>3, <2>4
<1> QED
  BY <1>4, <1>5, <1>6, <1>8 DEF IInv

LEMMA ChargeIInv ==
  ASSUME NEW t \in Task, NEW k \in Key, IInv, Charge(t, k)
  PROVE  IInv' /\ Queued' = Queued
<1> USE DEF IInv, Charge
<1>1. /\ size \in Nat /\ Queued' = Queued
      /\ \A i \in 0 .. size - 1 : data[i] \in Task /\ data[i] # t
  BY SlotFacts DEF Queued
<1>2. TypeOK'
  BY DEF TypeOK
<1>3. IndexRight'
  BY <1>1 DEF IndexRight
<1>4. \A i \in 0 .. size - 1 : key'[data'[i]] = key[data[i]]
  BY <1>1 DEF TypeOK
<1>5. ASSUME NEW i \in 1 .. size - 1
      PROVE  key'[data'[Parent(i)]] <= key'[data'[i]]
  <2>1. Parent(i) \in 0 .. size - 1 /\ i \in 0 .. size - 1
    BY <1>1, ParentType
  <2>2. key[data[Parent(i)]] <= key[data[i]]
    BY DEF HeapInv, Ordered, K
  <2> QED
    BY <1>4, <2>1, <2>2
<1>6. HeapInv'
  BY <1>5 DEF HeapInv, Ordered, K
<1> QED
  BY <1>1, <1>2, <1>3, <1>6

LEMMA StutterIInv ==
  ASSUME IInv, UNCHANGED <<data, size, idx, key, op, at, from>>,
         out' \in Task \cup {Null}
  PROVE  IInv' /\ Queued' = Queued
<1> USE DEF IInv
<1>1. TypeOK'
  BY DEF TypeOK
<1>2. IndexRight' /\ Queued' = Queued
  BY DEF IndexRight, Queued
<1>3. HeapInv'
  BY DEF HeapInv, Bridged, Ordered, K
<1> QED
  BY <1>1, <1>2, <1>3

LEMMA InitIInv == Init => IInv
<1> SUFFICES ASSUME Init PROVE IInv
  OBVIOUS
<1>1. TypeOK
  <2>1. 0 \in Slot /\ -1 \in -1 .. Cap - 1 /\ 0 \in 0 .. Cap
        /\ \A i \in Slot : i >= 0
    BY QueueAssumption DEF Slot
  <2>2. data \in [Slot -> Task \cup {Null}] /\ idx \in [Task -> -1 .. Cap - 1]
    BY <2>1 DEF Init
  <2>3. \A i \in Slot : data[i] = Null <=> i >= size
    BY <2>1 DEF Init
  <2> QED
    BY <2>1, <2>2, <2>3 DEF Init, TypeOK
<1>2. IndexRight
  BY DEF Init, IndexRight, Queued
<1>3. HeapInv
  BY DEF Init, HeapInv
<1> QED
  BY <1>1, <1>2, <1>3 DEF IInv

LEMMA NextIInv == IInv /\ [Next]_vars => IInv'
<1> SUFFICES ASSUME IInv, [Next]_vars PROVE IInv'
  OBVIOUS
<1>1. out \in Task \cup {Null}
  BY DEF IInv, TypeOK
<1>2. CASE PopEmpty \/ (\E t \in Task : PushFull(t)) \/ UNCHANGED vars
  BY <1>1, <1>2, StutterIInv DEF PopEmpty, PushFull, vars
<1>3. CASE HeapUp \/ HeapDown \/ Pop
  BY <1>3, HeapUpIInv, HeapDownIInv, PopIInv
<1>4. CASE \E t \in Task : Push(t) \/ Remove(t) \/ \E k \in Key : Charge(t, k)
  BY <1>4, PushIInv, RemoveIInv, ChargeIInv
<1> QED
  BY <1>2, <1>3, <1>4 DEF Next

LEMMA AlwaysIInv == Spec => []IInv
  BY InitIInv, NextIInv, PTL DEF Spec

-----------------------------------------------------------------------------
(* The theorems                                                            *)

\* heap_idx tells where each task is, at every iteration of every sift.
THEOREM IndexAlwaysRight == Spec => [](TypeOK /\ IndexRight)
<1>1. IInv => TypeOK /\ IndexRight
  BY DEF IInv
<1> QED
  BY <1>1, AlwaysIInv, PTL

\* Between calls the root of the heap has the least vruntime of the queue.
THEOREM RootAlwaysLeast == Spec => []RootIsLeast
<1>1. IInv => RootIsLeast
  BY OrderedRoot DEF IInv, HeapInv, RootIsLeast
<1> QED
  BY <1>1, AlwaysIInv, PTL

\* There are as many tasks in the queue as slots in use, or fewer.
LEMMA QueuedCount ==
  ASSUME TypeOK, IndexRight
  PROVE  IsFiniteSet(Queued) /\ Cardinality(Queued) <= size
<1>1. size \in Nat
  BY SlotFacts
<1>2. IsFiniteSet(0 .. size - 1) /\ Cardinality(0 .. size - 1) = size
  <2>1. 0 \in Int /\ size - 1 \in Int
    BY <1>1
  <2> QED
    BY <1>1, <2>1, FS_Interval
<1> DEFINE f == [i \in 0 .. size - 1 |-> data[i]]
<1>3. f \in Surjection(0 .. size - 1, Queued)
  BY DEF Queued, Surjection
<1>4. IsFiniteSet(Queued) /\ Cardinality(Queued) <= Cardinality(0 .. size - 1)
  BY <1>2, <1>3, FS_Surjection
<1> QED
  BY <1>2, <1>4

\* The array heap implements the set with extraction of a minimum that the
\* scheduler uses: each call is one operation on the set, each iteration of
\* a sift a stuttering step.
THEOREM HeapRefinesQueue == Spec => RefinesPriorityQueue
<1>1. Init => PQ!Init
  BY DEF Init, PQ!Init, Queued
<1>2. ASSUME IInv, [Next]_vars
      PROVE  [PQ!Next]_<<Queued, key, out>>
  <2>1. CASE HeapUp \/ HeapDown
    BY <1>2, <2>1, HeapUpIInv, HeapDownIInv DEF HeapUp, HeapDown
  <2>2. CASE PopEmpty
    <3>1. Queued = {} /\ Queued' = {}
      BY <2>2 DEF PopEmpty, Queued
    <3> QED
      BY <2>2, <3>1 DEF PopEmpty, PQ!Next, PQ!TakeMin
  <2>3. CASE Pop
    <3>1. Queued' = Queued \ {data[0]} /\ data[0] \in Queued
      BY <1>2, <2>3, PopIInv
    <3>2. \A u \in Queued : key[data[0]] <= key[u]
      BY <1>2, <2>3, OrderedRoot DEF IInv, HeapInv, Pop, Queued, K
    <3>3. out' = data[0] /\ key' = key
      BY <2>3 DEF Pop
    <3>4. PQ!TakeMin
      BY <3>1, <3>2, <3>3 DEF PQ!TakeMin
    <3> QED
      BY <3>4 DEF PQ!Next
  <2>4. ASSUME NEW t \in Task, Push(t)
        PROVE  PQ!Next
    <3>1. Queued' = Queued \cup {t} /\ t \notin Queued
      BY <1>2, <2>4, PushIInv DEF Push
    <3>2. Cardinality(Queued) < Cap
      <4>1. IsFiniteSet(Queued) /\ Cardinality(Queued) <= size
        BY <1>2, QueuedCount DEF IInv
      <4>2. Cardinality(Queued) \in Nat
        BY <4>1, FS_CardinalityType
      <4>3. size < Cap /\ size \in Nat /\ Cap \in Nat
        BY <1>2, <2>4, SlotFacts DEF IInv, Push, HasRoom
      <4> QED
        BY <4>1, <4>2, <4>3
    <3>3. PQ!Add(t)
      <4>1. key' = key /\ out' = out
        BY <2>4 DEF Push
      <4>2. PQ!Cardinality(Queued) = Cardinality(Queued)
        BY Zenon DEF Cardinality, PQ!Cardinality
      <4> QED
        BY <3>1, <3>2, <4>1, <4>2 DEF PQ!Add
    <3> QED
      BY <3>3 DEF PQ!Next
  <2>5. ASSUME NEW t \in Task, Remove(t)
        PROVE  PQ!Next
    <3>1. Queued' = Queued \ {t} /\ t \in Queued
      BY <1>2, <2>5, RemoveIInv
    <3>2. PQ!Drop(t)
      BY <2>5, <3>1 DEF PQ!Drop, Remove
    <3> QED
      BY <3>2 DEF PQ!Next
  <2>6. ASSUME NEW t \in Task, NEW k \in Key, Charge(t, k)
        PROVE  PQ!Next
    <3>1. Queued' = Queued
      BY <1>2, <2>6, ChargeIInv
    <3>2. PQ!Rekey(t, k)
      BY <2>6, <3>1 DEF PQ!Rekey, Charge
    <3> QED
      BY <3>2 DEF PQ!Next
  <2>7. CASE (\E t \in Task : PushFull(t)) \/ UNCHANGED vars
    BY <2>7 DEF PushFull, vars, Queued
  <2> QED
    BY <1>2, <2>1, <2>2, <2>3, <2>4, <2>5, <2>6, <2>7 DEF Next
<1> QED
  BY <1>1, <1>2, AlwaysIInv, PTL DEF Spec, RefinesPriorityQueue, PQ!Spec
=============================================================================
