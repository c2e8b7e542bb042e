--------------------------- MODULE UserMemProofs ---------------------------
(***************************************************************************)
(* For every number of frames, every layout of user space, every program   *)
(* and every sequence of calls: a frame has one owner and none is lost,    *)
(* the heap takes one frame for a page, and shared memory stays as long as *)
(* somebody holds it.                                                      *)
(***************************************************************************)
EXTENDS UserMem, FiniteSetTheorems, WellFoundedInduction, TLAPS

Node == Nat \X Int
Mem == [free : SUBSET Frame, tab : UNION {[D -> Frame] : D \in SUBSET Node},
        pte : [Page -> Int], ok : BOOLEAN]

\* The frames of the tables.
TabOf(m) == {m.tab[t] : t \in DOMAIN m.tab}

\* A frame is not both free and a table.
Apart(m) == m.free \cap TabOf(m) = {}

\* What may become of the memory m when free frames are made into tables.
Kept(m) == {w \in Mem : Apart(w) /\ w.free \cup TabOf(w) = m.free \cup TabOf(m)}

-----------------------------------------------------------------------------
(* The naturals are well ordered: a non-empty set of them has a least one.  *)

LEMMA LeastNat ==
  ASSUME NEW S \in SUBSET Nat, S # {}
  PROVE  \E m \in S : \A n \in S : m <= n
<1> DEFINE R == {p \in Nat \X Nat : p[1] < p[2]}
<1>1. IsWellFoundedOn(R, Nat)
  BY NatLessThanWellFounded, Zenon DEF OpToRel
<1>2. PICK m \in S : \A n \in S : <<n, m>> \notin R
  <2> HIDE DEF R
  <2> QED
    BY <1>1, WFMin
<1>3. \A n \in S : m <= n
  <2> SUFFICES ASSUME NEW n \in S, n < m PROVE FALSE
    OBVIOUS
  <2>1. <<n, m>> \in Nat \X Nat /\ <<n, m>>[1] < <<n, m>>[2]
    OBVIOUS
  <2>2. <<n, m>> \in R
    BY <2>1
  <2> QED
    BY <1>2, <2>2
<1> QED
  BY <1>3

\* What is true of 0, and of k when it is true of k - 1, is true up to N: the
\* set of those it is true of stands for the formula.
LEMMA UpTo ==
  ASSUME NEW N \in Nat, NEW T, 0 \in T,
         \A k \in 1 .. N : k - 1 \in T => k \in T
  PROVE  \A k \in 0 .. N : k \in T
<1> DEFINE Without == {k \in 0 .. N : k \notin T}
<1>1. SUFFICES ASSUME Without # {} PROVE FALSE
  OBVIOUS
<1>2. PICK k \in Without : \A l \in Without : k <= l
  <2>1. Without \in SUBSET Nat
    OBVIOUS
  <2> HIDE DEF Without
  <2> QED
    BY <1>1, <2>1, LeastNat
<1>3. k \in 1 .. N /\ k - 1 \in 0 .. N /\ ~(k <= k - 1)
  OBVIOUS
<1>4. k - 1 \in T
  BY <1>2, <1>3
<1> QED
  BY <1>3, <1>4

Steps(N, S) == [1 .. N -> [S -> S]]
IsRun(f, N, S, a, g) ==
  f \in [0 .. N -> S] /\ f[0] = a /\ \A k \in 1 .. N : f[k] = g[k][f[k - 1]]

\* A step can be iterated: there is the function that begins with a and takes
\* the k-th step from its value at k - 1.
LEMMA Iterated ==
  ASSUME NEW N \in Nat, NEW S, NEW a \in S, NEW g \in Steps(N, S)
  PROVE  \E f : IsRun(f, N, S, a, g)
<1> DEFINE Runs(f, n) == f[0] = a /\ \A k \in 1 .. n : f[k] = g[k][f[k - 1]]
           T == {n \in 0 .. N : \E f \in [0 .. n -> S] : Runs(f, n)}
<1> USE DEF Steps
<1>1. 0 \in T
  <2>1. [k \in 0 .. 0 |-> a] \in [0 .. 0 -> S] /\ Runs([k \in 0 .. 0 |-> a], 0)
    OBVIOUS
  <2>2. 0 \in 0 .. N
    OBVIOUS
  <2> QED
    BY <2>1, <2>2
<1>2. ASSUME NEW n \in 1 .. N, n - 1 \in T
      PROVE  n \in T
  <2>1. PICK f \in [0 .. n - 1 -> S] : Runs(f, n - 1)
    BY <1>2
  <2>2. n - 1 \in 0 .. n - 1 /\ g[n][f[n - 1]] \in S
    OBVIOUS
  <2> DEFINE h == [k \in 0 .. n |-> IF k = n THEN g[n][f[n - 1]] ELSE f[k]]
  <2>3. h \in [0 .. n -> S]
    BY <2>2
  <2>4. \A k \in 0 .. n - 1 : h[k] = f[k]
    OBVIOUS
  <2>5. h[n] = g[n][h[n - 1]]
    <3>1. n \in 0 .. n /\ h[n - 1] = f[n - 1]
      BY <2>2, <2>4
    <3>2. h[n] = g[n][f[n - 1]]
      BY <3>1
    <3> HIDE DEF h
    <3> QED
      BY <3>1, <3>2
  <2> HIDE DEF h
  <2>6. h[0] = a
    BY <2>1, <2>4
  <2>7. ASSUME NEW k \in 1 .. n
        PROVE  h[k] = g[k][h[k - 1]]
    <3>1. CASE k = n
      BY <2>5, <3>1
    <3>2. CASE k # n
      <4>1. k \in 1 .. n - 1 /\ k \in 0 .. n - 1 /\ k - 1 \in 0 .. n - 1
        BY <3>2
      <4> QED
        BY <2>1, <2>4, <4>1
    <3> QED
      BY <3>1, <3>2
  <2> QED
    BY <2>3, <2>6, <2>7
<1>3. N \in T
  <2> HIDE DEF T
  <2>1. \A k \in 0 .. N : k \in T
    BY <1>1, <1>2, UpTo
  <2> QED
    BY <2>1
<1>4. PICK f \in [0 .. N -> S] : Runs(f, N)
  <2> HIDE DEF Runs
  <2> QED
    BY <1>3
<1> QED
  BY <1>4 DEF IsRun

-----------------------------------------------------------------------------
(* Blocks of frames                                                        *)

LEMMA NatConstants ==
  /\ Frames \in Nat /\ Space \in Nat /\ Limit \in Nat
  /\ MmapBase \in Nat /\ MmapLimit \in Nat /\ StackTop \in Nat /\ StackPages \in Nat
  /\ PieBase \in Nat /\ HeapBase \in Nat /\ HeapMax \in Nat /\ Regions \in Nat
  /\ PageSize \in Nat \ {0}
  BY UserMemAssumption DEF Page

LEMMA BlockSize ==
  ASSUME NEW f \in Int, NEW n \in Nat
  PROVE  IsFiniteSet(Block(f, n)) /\ Cardinality(Block(f, n)) = n
  <1>1. (f + n) - 1 \in Int
    OBVIOUS
  <1>2. /\ IsFiniteSet(f .. (f + n) - 1)
        /\ Cardinality(f .. (f + n) - 1) = IF f > (f + n) - 1 THEN 0 ELSE ((f + n) - 1) - f + 1
    BY <1>1, FS_Interval
  <1>3. Block(f, n) = f .. (f + n) - 1
    BY DEF Block
  <1>4. CASE n = 0
    BY <1>2, <1>3, <1>4
  <1>5. CASE n # 0
    BY <1>2, <1>3, <1>5
  <1> QED BY <1>4, <1>5

\* The search for a block of frames, from the frame i on, and what it answers.
Found(free, n) == {v \in 0 .. Frames : v = NoFrame \/ Block(v, n) \subseteq free}

Answer(s, free, n, i) ==
  LET above == {f \in free : f >= i}
      f == Min(above)
  IN IF above = {} \/ f + n - 1 > Frames THEN NoFrame
     ELSE IF Block(f, n) \subseteq free THEN f ELSE s[f + n]

Scan(free, n) == CHOOSE s : s = [i \in 1 .. Frames + n + 1 |-> Answer(s, free, n, i)]

LEMMA FreeNat ==
  ASSUME NEW free \in SUBSET Frame
  PROVE  \A g \in free : g \in Nat /\ g \in Frame /\ 1 <= g /\ g <= Frames
  BY NatConstants DEF Frame

\* The search only looks further up.
LEMMA SearchAhead ==
  ASSUME NEW free \in SUBSET Frame, NEW n \in Nat \ {0}, NEW i \in Nat,
         NEW f, f = Min({g \in free : g >= i}),
         {g \in free : g >= i} # {}, ~(f + n - 1 > Frames)
  PROVE  /\ f \in Frame /\ f \in free /\ f >= i
         /\ f + n \in i + 1 .. Frames + n + 1
  <1>1. {g \in free : g >= i} \in SUBSET Nat
    BY FreeNat
  <1>2. \E m \in {g \in free : g >= i} : \A k \in {g \in free : g >= i} : m <= k
    <2> HIDE DEF Frame
    <2> QED BY <1>1, LeastNat
  <1>3. f \in {g \in free : g >= i}
    BY <1>2 DEF Min
  <1> QED BY <1>3, NatConstants DEF Frame

\* The search is defined: scan has the value its equation gives it.
LEMMA ScanEquation ==
  ASSUME NEW free \in SUBSET Frame, NEW n \in Nat \ {0}
  PROVE  Scan(free, n) = [i \in 1 .. Frames + n + 1 |-> Answer(Scan(free, n), free, n, i)]
  <1> DEFINE M == Frames + n + 1
             Part(s, k) == s = [i \in M - k .. M |-> Answer(s, free, n, i)]
             T == {k \in 0 .. M - 1 : \E s : Part(s, k)}
  <1>0. M \in Nat \ {0} /\ M - 1 \in Nat /\ Frames \in Nat
    BY NatConstants
  <1>1. 0 \in T
    <2> DEFINE s == [i \in M .. M |-> NoFrame]
    <2>1. {g \in free : g >= M} = {}
      <3> SUFFICES ASSUME NEW g \in free PROVE ~(g >= M)
        OBVIOUS
      <3> QED BY <1>0, FreeNat
    <2>2. Answer(s, free, n, M) = NoFrame
      BY <2>1 DEF Answer
    <2>3. s = [i \in M - 0 .. M |-> Answer(s, free, n, i)]
      <3> HIDE DEF Answer
      <3>1. M - 0 .. M = {M} /\ M .. M = {M}
        BY <1>0
      <3> HIDE DEF M
      <3> QED BY <2>2, <3>1
    <2>4. 0 \in 0 .. M - 1
      BY <1>0
    <2> HIDE DEF M, s
    <2> QED BY <2>3, <2>4
  <1>2. ASSUME NEW k \in 1 .. M - 1, k - 1 \in T
        PROVE  k \in T
    <2>1. PICK s : Part(s, k - 1)
      BY <1>2
    <2> DEFINE b == M - k
               h == [i \in b .. M |-> IF i = b THEN Answer(s, free, n, b) ELSE s[i]]
    <2>2. b \in 1 .. M /\ M - (k - 1) = b + 1
      BY <1>0
    <2>3. \A i \in b + 1 .. M : h[i] = s[i] /\ s[i] = Answer(s, free, n, i)
      <3>1. s = [i \in b + 1 .. M |-> Answer(s, free, n, i)]
        BY <2>1, <2>2
      <3>2. \A i \in b + 1 .. M : s[i] = Answer(s, free, n, i)
        BY <3>1
      <3>3. \A i \in b + 1 .. M : i \in b .. M /\ i # b
        BY <1>0, <2>2
      <3> HIDE DEF M, b
      <3>4. \A i \in b + 1 .. M : h[i] = s[i]
        BY <3>3
      <3> QED BY <3>2, <3>4
    <2>4. h[b] = Answer(s, free, n, b)
      BY <2>2
    <2> HIDE DEF h
    <2>5. ASSUME NEW i \in b .. M
          PROVE  Answer(h, free, n, i) = Answer(s, free, n, i)
      <3> DEFINE above == {g \in free : g >= i}
                 f == Min(above)
      <3>1. CASE above = {} \/ f + n - 1 > Frames
        BY <3>1 DEF Answer
      <3>2. CASE ~(above = {} \/ f + n - 1 > Frames)
        <4>1. i \in Nat
          BY <1>0, <2>2
        <4>2. f + n \in i + 1 .. M
          BY <3>2, <4>1, SearchAhead
        <4>3. f + n \in b + 1 .. M
          BY <1>0, <2>2, <4>1, <4>2
        <4>4. h[f + n] = s[f + n]
          BY <2>3, <4>3
        <4> QED BY <4>4 DEF Answer
      <3> QED BY <3>1, <3>2
    <2>6. h = [i \in b .. M |-> Answer(h, free, n, i)]
      <3>1. \A i \in b .. M : h[i] = Answer(h, free, n, i)
        <4> SUFFICES ASSUME NEW i \in b .. M PROVE h[i] = Answer(h, free, n, i)
          OBVIOUS
        <4>1. CASE i = b
          BY <2>4, <2>5, <4>1
        <4>2. CASE i # b
          <5>1. i \in b + 1 .. M
            BY <1>0, <2>2, <4>2
          <5> QED BY <2>3, <2>5, <5>1
        <4> QED BY <4>1, <4>2
      <3>2. h = [i \in b .. M |-> h[i]]
        BY DEF h
      <3> QED BY <3>1, <3>2
    <2> QED BY <2>2, <2>6
  <1>3. M - 1 \in T
    <2> HIDE DEF T, M
    <2> QED BY <1>0, <1>1, <1>2, UpTo
  <1>4. PICK s : s = [i \in M - (M - 1) .. M |-> Answer(s, free, n, i)]
    BY <1>3
  <1>5. M - (M - 1) = 1
    BY <1>0
  <1>6. s = [i \in 1 .. Frames + n + 1 |-> Answer(s, free, n, i)]
    BY <1>4, <1>5
  <1> QED BY <1>6 DEF Scan

\* pmm_alloc_frames answers nothing, or a block of free frames.
LEMMA FitsFree ==
  ASSUME NEW free \in SUBSET Frame, NEW n \in Nat
  PROVE  /\ FirstFit(free, n) \in 0 .. Frames
         /\ FirstFit(free, n) # NoFrame =>
              n # 0 /\ FirstFit(free, n) \in Frame /\ Block(FirstFit(free, n), n) \subseteq free
  <1>1. CASE n = 0
    BY <1>1, NatConstants DEF FirstFit, NoFrame
  <1>2. CASE n # 0
    <2> DEFINE M == Frames + n + 1
               scan == Scan(free, n)
    <2>0. M \in Nat \ {0} /\ M - 1 \in Nat /\ Frames \in Nat
      BY NatConstants
    <2>1. FirstFit(free, n) = scan[1]
      BY <1>2 DEF FirstFit, Answer, Scan
    <2>2. scan = [i \in 1 .. M |-> Answer(scan, free, n, i)]
      <3>1. n \in Nat \ {0}
        BY <1>2
      <3> QED BY <3>1, ScanEquation
    <2> HIDE DEF scan
    <2>3. \A i \in 1 .. M : scan[i] = Answer(scan, free, n, i)
      BY <2>2
    <2>4. NoFrame \in Found(free, n)
      BY <2>0 DEF Found, NoFrame
    <2>5. ASSUME NEW i \in 1 .. M,
                 \A j \in i + 1 .. M : scan[j] \in Found(free, n)
          PROVE  scan[i] \in Found(free, n)
      <3> DEFINE above == {g \in free : g >= i}
                 f == Min(above)
      <3>1. CASE above = {} \/ f + n - 1 > Frames
        BY <2>3, <2>4, <3>1 DEF Answer
      <3>2. CASE ~(above = {} \/ f + n - 1 > Frames)
        <4>1. f \in Frame /\ f + n \in i + 1 .. M
          BY <1>2, <3>2, SearchAhead
        <4>2. CASE Block(f, n) \subseteq free
          <5>1. scan[i] = f
            BY <2>3, <3>2, <4>2 DEF Answer
          <5> QED BY <2>0, <4>1, <4>2, <5>1 DEF Found, Frame, NoFrame
        <4>3. CASE ~(Block(f, n) \subseteq free)
          <5>1. scan[i] = scan[f + n]
            BY <2>3, <3>2, <4>3 DEF Answer
          <5> QED BY <2>5, <4>1, <5>1
        <4> QED BY <4>2, <4>3
      <3> QED BY <3>1, <3>2
    <2> DEFINE U == {k \in 0 .. M - 1 : \A i \in M - k .. M : scan[i] \in Found(free, n)}
    <2>6. 0 \in U
      BY <2>0, <2>5
    <2>7. ASSUME NEW k \in 1 .. M - 1, k - 1 \in U
          PROVE  k \in U
      <3>1. M - k \in 1 .. M /\ (M - k) + 1 = M - (k - 1)
        BY <2>0
      <3>2. \A i \in (M - k) + 1 .. M : scan[i] \in Found(free, n)
        BY <2>7, <3>1
      <3>3. scan[M - k] \in Found(free, n)
        BY <2>5, <3>1, <3>2
      <3>4. \A i \in M - k .. M : i = M - k \/ i \in (M - k) + 1 .. M
        BY <2>0
      <3> QED BY <3>2, <3>3, <3>4
    <2>8. M - 1 \in U
      <3> HIDE DEF U, M
      <3> QED BY <2>0, <2>6, <2>7, UpTo
    <2>9. scan[1] \in Found(free, n)
      BY <2>0, <2>8
    <2> QED BY <1>2, <2>0, <2>1, <2>9 DEF Found, NoFrame, Frame
  <1> QED BY <1>1, <1>2

-----------------------------------------------------------------------------
(* Tables and ranges of pages                                              *)

LEMMA KeptSelf ==
  ASSUME NEW m \in Mem, Apart(m), NEW b \in BOOLEAN
  PROVE  [m EXCEPT !.ok = b] \in Kept(m)
  BY DEF Mem, Apart, Kept, TabOf

LEMMA KeptOn ==
  ASSUME NEW m, NEW w \in Kept(m), NEW x \in Kept(w)
  PROVE  x \in Kept(m)
  BY DEF Kept

\* A free frame becomes a table.
LEMMA LevelKeeps ==
  ASSUME NEW m \in Mem, Apart(m), NEW p \in Int, NEW k \in 1 .. Len(Spans)
  PROVE  Level(m, p, k) \in Kept(m)
  <1> DEFINE node == <<k, p \div Spans[k]>>
             f == FirstFit(m.free, 1)
             T == [x \in DOMAIN m.tab \cup {node} |-> IF x = node THEN f ELSE m.tab[x]]
             w == [free |-> m.free \ {f}, tab |-> T, pte |-> m.pte, ok |-> m.ok]
  <1>0. m \in Kept(m)
    BY DEF Kept, TabOf, Apart
  <1>1. node \in Node
    <2>1. k \in Nat /\ Spans[k] \in Nat \ {0}
      BY UserMemAssumption
    <2> QED BY <2>1 DEF Node
  <1>2. m.free \in SUBSET Frame
    BY DEF Mem
  <1>3. CASE m.ok /\ node \notin DOMAIN m.tab /\ f # NoFrame
    <2>1. f \in Frame /\ Block(f, 1) \subseteq m.free
      BY <1>2, <1>3, FitsFree
    <2>2. Block(f, 1) = {f}
      BY <2>1, NatConstants DEF Block, Frame
    <2>3. f \in m.free
      BY <2>1, <2>2
    <2>4. PICK D \in SUBSET Node : m.tab \in [D -> Frame]
      BY DEF Mem
    <2>5. DOMAIN m.tab \cup {node} \in SUBSET Node
      BY <1>1, <2>4
    <2>6. \A x \in DOMAIN m.tab : x # node /\ m.tab[x] \in Frame
      BY <1>3, <2>4
    <2> HIDE DEF node, f
    <2>7. Level(m, p, k) = [Taken(m, f, 1) EXCEPT !.tab = T]
      <3>1. Taken(m, f, 1).tab = m.tab
        BY DEF Taken, Mem
      <3> QED BY <1>3, <3>1 DEF Level, node, f
    <2>8. T \in [DOMAIN m.tab \cup {node} -> Frame]
      BY <2>1, <2>6
    <2>9. TabOf(w) = TabOf(m) \cup {f}
      BY <2>6 DEF TabOf
    <2> HIDE DEF T
    <2>10. Level(m, p, k) = w
      BY <2>2, <2>7 DEF Taken, Mem
    <2>11. w \in Mem
      BY <2>5, <2>8 DEF Mem
    <2>12. Apart(w) /\ w.free \cup TabOf(w) = m.free \cup TabOf(m)
      BY <2>3, <2>9 DEF Apart
    <2> QED BY <2>10, <2>11, <2>12 DEF Kept
  <1>4. CASE m.ok /\ node \notin DOMAIN m.tab /\ f = NoFrame
    <2>1. Level(m, p, k) = [m EXCEPT !.ok = FALSE]
      BY <1>4 DEF Level
    <2> QED BY <2>1, KeptSelf
  <1>5. CASE ~m.ok \/ node \in DOMAIN m.tab
    BY <1>0, <1>5 DEF Level
  <1> QED BY <1>3, <1>4, <1>5

LEMMA WalkedKeeps ==
  ASSUME NEW m \in Mem, Apart(m), NEW p \in Int
  PROVE  Walked(m, p) \in Kept(m)
  <1>n. Len(Spans) \in Nat
    BY UserMemAssumption
  <1>0. SUFFICES ASSUME NEW len \in Nat, len = Len(Spans)
                 PROVE  Walked(m, p) \in Kept(m)
    BY <1>n
  <1> DEFINE S == Kept(m)
             a == [m EXCEPT !.ok = TRUE]
             g == [k \in 1 .. len |-> [w \in S |-> Level(w, p, k)]]
             W == CHOOSE walk : walk = [k \in 0 .. len |->
                    IF k = 0 THEN a ELSE Level(walk[k - 1], p, k)]
             T == {k \in 0 .. len : W[k] \in S}
  <1>1. a \in S
    <2>1. TRUE \in BOOLEAN
      OBVIOUS
    <2> QED BY <2>1, KeptSelf
  <1>2. \A k \in 1 .. len : \A w \in S : Level(w, p, k) \in S
    <2> SUFFICES ASSUME NEW k \in 1 .. len, NEW w \in S PROVE Level(w, p, k) \in S
      OBVIOUS
    <2>1. w \in Mem /\ Apart(w)
      BY DEF Kept
    <2>2. Level(w, p, k) \in Kept(w)
      BY <1>0, <2>1, LevelKeeps
    <2> QED BY <2>2, KeptOn
  <1>3. Walked(m, p) = W[len]
    BY <1>0 DEF Walked
  <1> HIDE DEF S, a
  <1>4. g \in Steps(len, S)
    BY <1>2 DEF Steps
  <1>r. PICK h : IsRun(h, len, S, a, g)
    <2> HIDE DEF g
    <2> QED BY <1>1, <1>4, Iterated
  <1>5. h \in [0 .. len -> S] /\ h[0] = a /\ \A k \in 1 .. len : h[k] = g[k][h[k - 1]]
    <2> HIDE DEF g
    <2> QED BY <1>r DEF IsRun
  <1>6. \A k \in 1 .. len : k - 1 \in 0 .. len /\ h[k - 1] \in S
    BY <1>5
  <1>7. \A k \in 1 .. len : h[k] = Level(h[k - 1], p, k)
    BY <1>5, <1>6
  <1>8. h = [k \in 0 .. len |-> IF k = 0 THEN a ELSE Level(h[k - 1], p, k)]
    BY <1>1, <1>5, <1>7
  <1>9. W = [k \in 0 .. len |-> IF k = 0 THEN a ELSE Level(W[k - 1], p, k)]
    BY <1>8
  <1> HIDE DEF W
  <1>10. 0 \in T
    BY <1>1, <1>9
  <1>11. ASSUME NEW k \in 1 .. len, k - 1 \in T
         PROVE  k \in T
    <2>1. k \in 0 .. len /\ k # 0 /\ W[k - 1] \in S
      BY <1>1, <1>11
    <2>2. W[k] = Level(W[k - 1], p, k)
      BY <1>9, <2>1
    <2> QED BY <1>2, <2>1, <2>2
  <1>12. len \in T
    <2> HIDE DEF T
    <2>1. \A k \in 0 .. len : k \in T
      BY <1>1, <1>10, <1>11, UpTo
    <2> QED BY <1>1, <2>1
  <1> QED BY <1>3, <1>12 DEF S

LEMMA MapUserKeeps ==
  ASSUME NEW m \in Mem, Apart(m), NEW p \in Int, NEW f \in Int
  PROVE  MapUser(m, p, f) \in Kept(m)
  <1>1. CASE p > Limit
    <2>1. [m EXCEPT !.ok = FALSE] \in Kept(m)
      BY KeptSelf
    <2> QED BY <1>1, <2>1 DEF MapUser
  <1>2. CASE ~(p > Limit)
    <2> DEFINE w == Walked(m, p)
    <2>1. w \in Kept(m)
      BY WalkedKeeps
    <2> HIDE DEF w
    <2>2. [w EXCEPT !.pte[p] = f] \in Kept(m)
      BY <2>1 DEF Kept, Mem, Apart, TabOf
    <2> QED BY <1>2, <2>1, <2>2 DEF MapUser, w
  <1> QED BY <1>1, <1>2

\* The step of MapRange.
Mapped(m, p, f, k) == IF ~m.ok THEN m ELSE MapUser(m, p + k - 1, f + k - 1)

LEMMA MapRangeKeeps ==
  ASSUME NEW m \in Mem, Apart(m), NEW p \in Int, NEW f \in Int, NEW n \in Nat
  PROVE  MapRange(m, p, f, n) \in Kept(m)
  <1> DEFINE S == Kept(m)
             a == [m EXCEPT !.ok = TRUE]
             g == [k \in 1 .. n |-> [w \in S |-> Mapped(w, p, f, k)]]
             W == CHOOSE map : map = [k \in 0 .. n |->
                    IF k = 0 THEN a ELSE Mapped(map[k - 1], p, f, k)]
             T == {k \in 0 .. n : W[k] \in S}
  <1>1. a \in S
    <2>1. TRUE \in BOOLEAN
      OBVIOUS
    <2> QED BY <2>1, KeptSelf
  <1>2. \A k \in 1 .. n : \A w \in S : Mapped(w, p, f, k) \in S
    <2> SUFFICES ASSUME NEW k \in 1 .. n, NEW w \in S PROVE Mapped(w, p, f, k) \in S
      OBVIOUS
    <2>1. w \in Mem /\ Apart(w) /\ p + k - 1 \in Int /\ f + k - 1 \in Int
      BY DEF Kept
    <2>2. MapUser(w, p + k - 1, f + k - 1) \in Kept(w)
      BY <2>1, MapUserKeeps
    <2>3. MapUser(w, p + k - 1, f + k - 1) \in S
      BY <2>2, KeptOn
    <2> QED BY <2>3 DEF Mapped
  <1>3. MapRange(m, p, f, n) = W[n]
    BY DEF MapRange, Mapped
  <1> HIDE DEF S, a
  <1>4. g \in Steps(n, S)
    BY <1>2 DEF Steps
  <1>r. PICK h : IsRun(h, n, S, a, g)
    <2> HIDE DEF g
    <2> QED BY <1>1, <1>4, Iterated
  <1>5. h \in [0 .. n -> S] /\ h[0] = a /\ \A k \in 1 .. n : h[k] = g[k][h[k - 1]]
    <2> HIDE DEF g
    <2> QED BY <1>r DEF IsRun
  <1>6. \A k \in 1 .. n : k - 1 \in 0 .. n /\ h[k - 1] \in S
    BY <1>5
  <1>7. \A k \in 1 .. n : h[k] = Mapped(h[k - 1], p, f, k)
    BY <1>5, <1>6
  <1>8. h = [k \in 0 .. n |-> IF k = 0 THEN a ELSE Mapped(h[k - 1], p, f, k)]
    BY <1>5, <1>7
  <1>9. W = [k \in 0 .. n |-> IF k = 0 THEN a ELSE Mapped(W[k - 1], p, f, k)]
    BY <1>8
  <1> HIDE DEF W
  <1>10. 0 \in T
    BY <1>1, <1>9
  <1>11. ASSUME NEW k \in 1 .. n, k - 1 \in T
         PROVE  k \in T
    <2>1. k \in 0 .. n /\ k # 0 /\ W[k - 1] \in S
      BY <1>11
    <2>2. W[k] = Mapped(W[k - 1], p, f, k)
      BY <1>9, <2>1
    <2> QED BY <1>2, <2>1, <2>2
  <1>12. n \in T
    <2> HIDE DEF T
    <2>1. \A k \in 0 .. n : k \in T
      BY <1>10, <1>11, UpTo
    <2> QED BY <2>1
  <1> QED BY <1>3, <1>12 DEF S

-----------------------------------------------------------------------------
(* The inductive invariant                                                 *)

ShmRecord == [valid : BOOLEAN, name : Name \cup {""}, f : Nat, n : Nat, ref : Nat]
Segs == [f : Nat, n : Nat]

TypeInv ==
  /\ mem \in Mem
  /\ brk \in Nat /\ mapped \in Nat /\ next \in Nat
  /\ shm \in [Region -> ShmRecord]
  /\ hold \in [Proc -> [r : {0} \cup Region, va : Int]] /\ stolen \subseteq Region
  /\ stage \in {"idle", "header", "headers", "segments", "thread"}
  /\ prog \in [dyn : BOOLEAN, segs : Seq(Segment)]
  /\ img \in [segs : Seq(Segs), at : Nat \ {0}]
  /\ heap \in SUBSET Frame /\ areas \in SUBSET Frame /\ live \in SUBSET Frame

\* Every frame is in exactly one of seven sets.
Split(F, T, H, A, L, I, S) ==
  /\ F \cap T = {} /\ (F \cup T) \cap H = {} /\ (F \cup T \cup H) \cap A = {}
  /\ (F \cup T \cup H \cup A) \cap L = {} /\ (F \cup T \cup H \cup A \cup L) \cap I = {}
  /\ (F \cup T \cup H \cup A \cup L \cup I) \cap S = {}
  /\ F \cup T \cup H \cup A \cup L \cup I \cup S = Frame

AllShm == UNION {Shm(r) : r \in Region}

\* Two regions have no frame in common: without it, to free one could free a
\* frame of the other.
ShmApart == \A r, s \in Region : r # s => Shm(r) \cap Shm(s) = {}

FrameInv ==
  /\ Split(mem.free, TabOf(mem), heap, areas, live, ImageFrames(img), AllShm)
  /\ ShmApart

Holders(r) == {x \in Proc : hold[x].r = r}

Whole(r) == r \in Region \ stolen

\* A region that somebody has got is valid, and a valid one counts its holders,
\* unless a reference to it has been stolen.  No valid region is without one.
HoldInv ==
  /\ \A x \in Proc : /\ Whole(hold[x].r) => shm[hold[x].r].valid
                     /\ hold[x].r = 0 => hold[x].va = -1
  /\ \A r \in Region : shm[r].valid =>
       shm[r].ref # 0 /\ (Whole(r) => shm[r].ref = Cardinality(Holders(r)))

\* What the loader has open at each stage.
StageInv ==
  /\ stage = "idle" => held = {}
  /\ stage = "header" => held = {"arg", "file"}
  /\ stage \in {"headers", "segments"} => held = {"arg", "file", "headers"}
  /\ stage = "thread" => held = {"arg"}

IInv == TypeInv /\ FrameInv /\ HoldInv /\ HeapPaid /\ StageInv

-----------------------------------------------------------------------------
(* Frames change hands                                                     *)

\* Frames become tables, and the block B goes to one owner or to nobody.
LEMMA SplitGrant ==
  ASSUME NEW F, NEW T, NEW H, NEW A, NEW L, NEW I, NEW S, Split(F, T, H, A, L, I, S),
         NEW B, B \subseteq F,
         NEW F2, NEW T2, F2 \cap T2 = {}, F2 \cup T2 = (F \ B) \cup T
  PROVE  /\ Split(F2, T2, H \cup B, A, L, I, S) /\ Split(F2, T2, H, A \cup B, L, I, S)
         /\ Split(F2, T2, H, A, L, I \cup B, S) /\ Split(F2, T2, H, A, L, I, S \cup B)
  <1> USE DEF Split
  <1>1. Split(F2, T2, H \cup B, A, L, I, S)
    OBVIOUS
  <1>2. Split(F2, T2, H, A \cup B, L, I, S)
    OBVIOUS
  <1>3. Split(F2, T2, H, A, L, I \cup B, S)
    OBVIOUS
  <1>4. Split(F2, T2, H, A, L, I, S \cup B)
    OBVIOUS
  <1> QED BY <1>1, <1>2, <1>3, <1>4

LEMMA SplitSame ==
  ASSUME NEW F, NEW T, NEW H, NEW A, NEW L, NEW I, NEW S, Split(F, T, H, A, L, I, S),
         NEW F2, NEW T2, F2 \cap T2 = {}, F2 \cup T2 = F \cup T
  PROVE  Split(F2, T2, H, A, L, I, S)
  BY DEF Split

\* An image is given up, or belongs to a program from now on.
LEMMA SplitImage ==
  ASSUME NEW F, NEW T, NEW H, NEW A, NEW L, NEW I, NEW S, Split(F, T, H, A, L, I, S)
  PROVE  Split(F \cup I, T, H, A, L, {}, S) /\ Split(F, T, H, A, L \cup I, {}, S)
  BY DEF Split

\* A region is freed.
LEMMA SplitDetach ==
  ASSUME NEW F, NEW T, NEW H, NEW A, NEW L, NEW I, NEW S, Split(F, T, H, A, L, I, S),
         NEW B, B \subseteq S
  PROVE  Split(F \cup B, T, H, A, L, I, S \ B)
  BY DEF Split

\* What Split says is what the two properties say of Owners.
LEMMA SplitOwners ==
  ASSUME Split(mem.free, TabOf(mem), heap, areas, live, ImageFrames(img), AllShm)
  PROVE  OwnedOnce /\ Frame = UNION {Owners[k] : k \in DOMAIN Owners}
  <1> DEFINE F == mem.free
             T == TabOf(mem)
             I == ImageFrames(img)
             S == AllShm
  <1>1. Owners = <<F, T, heap, areas, live, I, S>>
    BY DEF Owners, Tables, TabOf, AllShm
  <1>2. Split(F, T, heap, areas, live, I, S)
    OBVIOUS
  <1> HIDE DEF F, T, I, S
  <1>3. DOMAIN Owners = 1 .. 7
    BY <1>1
  <1>4. /\ Owners[1] = F /\ Owners[2] = T /\ Owners[3] = heap /\ Owners[4] = areas
        /\ Owners[5] = live /\ Owners[6] = I /\ Owners[7] = S
    BY <1>1
  <1>5. \A k \in 1 .. 7 : k = 1 \/ k = 2 \/ k = 3 \/ k = 4 \/ k = 5 \/ k = 6 \/ k = 7
    OBVIOUS
  <1>6. OwnedOnce
    <2> SUFFICES ASSUME NEW j \in 1 .. 7, NEW k \in 1 .. 7, j # k
                 PROVE  Owners[j] \cap Owners[k] = {}
      BY <1>3 DEF OwnedOnce
    <2>1. j < k => Owners[j] \cap Owners[k] = {}
      BY <1>2, <1>4, <1>5 DEF Split
    <2>2. k < j => Owners[j] \cap Owners[k] = {}
      BY <1>2, <1>4, <1>5 DEF Split
    <2> QED BY <2>1, <2>2
  <1>7. Frame = UNION {Owners[k] : k \in DOMAIN Owners}
    <2>1. \A x : x \in Frame <=> \E k \in 1 .. 7 : x \in Owners[k]
      BY <1>2, <1>4, <1>5 DEF Split
    <2> QED BY <1>3, <2>1
  <1> QED BY <1>6, <1>7

-----------------------------------------------------------------------------
(* Taking, mapping and giving back                                         *)

LEMMA TakenRight ==
  ASSUME NEW m \in Mem, Apart(m), NEW n \in Nat, NEW f, f = FirstFit(m.free, n), f # NoFrame
  PROVE  /\ f \in Frame /\ n # 0 /\ Block(f, n) \subseteq m.free
         /\ Taken(m, f, n) \in Mem /\ Apart(Taken(m, f, n))
         /\ Taken(m, f, n).free = m.free \ Block(f, n)
         /\ TabOf(Taken(m, f, n)) = TabOf(m)
  <1>1. m.free \in SUBSET Frame
    BY DEF Mem
  <1>2. f \in Frame /\ n # 0 /\ Block(f, n) \subseteq m.free
    BY <1>1, FitsFree
  <1>3. /\ Taken(m, f, n) \in Mem
        /\ Taken(m, f, n).free = m.free \ Block(f, n)
        /\ Taken(m, f, n).tab = m.tab
    BY DEF Taken, Mem
  <1>4. TabOf(Taken(m, f, n)) = TabOf(m)
    BY <1>3 DEF TabOf
  <1> QED BY <1>2, <1>3, <1>4 DEF Apart

\* Tables made in between stay, the block is free again.
LEMMA GivenBackKeeps ==
  ASSUME NEW m \in Mem, Apart(m), NEW f, NEW n, Block(f, n) \subseteq m.free,
         NEW w \in Kept(Taken(m, f, n))
  PROVE  GivenBack(w, f, n) \in Kept(m)
  <1> DEFINE B == Block(f, n)
             v == GivenBack(w, f, n)
  <1>1. /\ Taken(m, f, n).free = m.free \ B /\ Taken(m, f, n).tab = m.tab
        /\ B \subseteq Frame
    BY DEF Taken, Mem
  <1>2. TabOf(Taken(m, f, n)) = TabOf(m)
    BY <1>1 DEF TabOf
  <1>3. w \in Mem /\ Apart(w) /\ w.free \cup TabOf(w) = (m.free \ B) \cup TabOf(m)
    BY <1>1, <1>2 DEF Kept
  <1>4. v \in Mem /\ v.free = w.free \cup B /\ v.tab = w.tab
    BY <1>1, <1>3 DEF GivenBack, Mem
  <1>5. TabOf(v) = TabOf(w)
    BY <1>4 DEF TabOf
  <1>6. B \cap TabOf(w) = {}
    <2>1. B \cap ((m.free \ B) \cup TabOf(m)) = {}
      BY DEF Apart
    <2> QED BY <1>3, <2>1
  <1> HIDE DEF v
  <1>7. v \in Kept(m)
    BY <1>3, <1>4, <1>5, <1>6 DEF Kept, Apart
  <1> QED BY <1>7 DEF v

\* brk and mmap get a block, or nothing and keep at most new tables.
LEMMA BackedRight ==
  ASSUME mem \in Mem, Apart(mem), NEW p \in Int, NEW n \in Nat
  PROVE  LET got == Backed(p, n) IN
         \/ got.f = NoFrame /\ got.m \in Kept(mem)
         \/ /\ got.f \in Frame /\ n # 0 /\ got.f # NoFrame
            /\ Block(got.f, n) \subseteq mem.free
            /\ got.m \in Kept(Taken(mem, got.f, n))
  <1> DEFINE f == FirstFit(mem.free, n)
             m == MapRange(Taken(mem, f, n), p, f, n)
  <1>1. CASE f = NoFrame
    <2>1. Backed(p, n) = [m |-> mem, f |-> NoFrame]
      BY <1>1 DEF Backed
    <2>2. mem \in Kept(mem)
      BY DEF Kept
    <2> QED BY <2>1, <2>2
  <1>2. CASE f # NoFrame
    <2>1. /\ f \in Frame /\ n # 0 /\ Block(f, n) \subseteq mem.free
          /\ Taken(mem, f, n) \in Mem /\ Apart(Taken(mem, f, n))
      BY <1>2, TakenRight
    <2>2. f \in Int
      BY <2>1, NatConstants DEF Frame
    <2>3. m \in Kept(Taken(mem, f, n))
      BY <2>1, <2>2, MapRangeKeeps
    <2>4. CASE m.ok
      <3>1. Backed(p, n) = [m |-> m, f |-> f]
        BY <1>2, <2>4 DEF Backed
      <3> HIDE DEF f, m
      <3> QED BY <1>2, <2>1, <2>3, <3>1
    <2>5. CASE ~m.ok
      <3>1. Backed(p, n) = [m |-> [GivenBack(m, f, n) EXCEPT !.ok = TRUE], f |-> NoFrame]
        BY <1>2, <2>5 DEF Backed, Failed
      <3> HIDE DEF f, m
      <3>2. GivenBack(m, f, n) \in Kept(mem)
        BY <2>1, <2>3, GivenBackKeeps
      <3>3. [GivenBack(m, f, n) EXCEPT !.ok = TRUE] \in Kept(mem)
        <4>1. GivenBack(m, f, n) \in Mem /\ Apart(GivenBack(m, f, n)) /\ TRUE \in BOOLEAN
          BY <3>2 DEF Kept
        <4>2. [GivenBack(m, f, n) EXCEPT !.ok = TRUE] \in Kept(GivenBack(m, f, n))
          BY <4>1, KeptSelf
        <4> QED BY <3>2, <4>2, KeptOn
      <3> QED BY <3>1, <3>3
    <2> QED BY <2>4, <2>5
  <1> QED BY <1>1, <1>2

-----------------------------------------------------------------------------
(* The steps                                                               *)

LEMMA MemRight ==
  ASSUME IInv
  PROVE  /\ mem \in Mem /\ Apart(mem) /\ mem \in Kept(mem)
         /\ Split(mem.free, TabOf(mem), heap, areas, live, ImageFrames(img), AllShm)
  <1>1. mem \in Mem /\ Split(mem.free, TabOf(mem), heap, areas, live, ImageFrames(img), AllShm)
    BY DEF IInv, TypeInv, FrameInv
  <1>2. Apart(mem)
    BY <1>1 DEF Split, Apart
  <1> QED BY <1>1, <1>2 DEF Kept

\* The memory has at most new tables, nobody else's frames change.
LEMMA KeptStep ==
  ASSUME IInv, mem' \in Kept(mem), UNCHANGED <<heap, areas, live, img, shm>>
  PROVE  FrameInv' /\ mem' \in Mem
  <1>1. mem' \in Mem /\ mem'.free \cap TabOf(mem') = {}
        /\ mem'.free \cup TabOf(mem') = mem.free \cup TabOf(mem)
    BY DEF Kept, Apart
  <1>2. AllShm' = AllShm /\ ImageFrames(img)' = ImageFrames(img) /\ ShmApart'
    BY DEF AllShm, Shm, ImageFrames, IInv, FrameInv, ShmApart
  <1>3. Split(mem'.free, TabOf(mem'), heap, areas, live, ImageFrames(img), AllShm)
    BY <1>1, MemRight, SplitSame
  <1>4. TabOf(mem)' = TabOf(mem')
    BY DEF TabOf
  <1> QED BY <1>1, <1>2, <1>3, <1>4 DEF FrameInv

\* What a memory is that a block B has been taken from, and tables perhaps.
LEMMA GrantRight ==
  ASSUME IInv, NEW f, NEW n, Block(f, n) \subseteq mem.free, mem' \in Kept(Taken(mem, f, n))
  PROVE  /\ mem' \in Mem /\ mem'.free \cap TabOf(mem') = {}
         /\ mem'.free \cup TabOf(mem') = (mem.free \ Block(f, n)) \cup TabOf(mem)
         /\ TabOf(mem)' = TabOf(mem') /\ Block(f, n) \subseteq Frame
  <1>1. mem \in Mem
    BY MemRight
  <1>2. Taken(mem, f, n).free = mem.free \ Block(f, n) /\ Taken(mem, f, n).tab = mem.tab
    BY <1>1 DEF Taken, Mem
  <1>3. TabOf(Taken(mem, f, n)) = TabOf(mem)
    BY <1>2 DEF TabOf
  <1>4. /\ mem' \in Mem /\ mem'.free \cap TabOf(mem') = {}
        /\ mem'.free \cup TabOf(mem') = (mem.free \ Block(f, n)) \cup TabOf(mem)
    BY <1>2, <1>3 DEF Kept, Apart
  <1>5. TabOf(mem)' = TabOf(mem')
    BY DEF TabOf
  <1>6. Block(f, n) \subseteq Frame
    BY <1>1 DEF Mem
  <1> QED BY <1>4, <1>5, <1>6

LEMMA PageUpRight ==
  ASSUME NEW b \in Nat
  PROVE  PageUp(b) \in Nat /\ b <= PageUp(b) * PageSize
  BY NatConstants DEF PageUp

LEMMA TimesMonotone ==
  ASSUME NEW a \in Nat, NEW b \in Nat, NEW c \in Nat, a <= b
  PROVE  a * c <= b * c
  OBVIOUS

\* brk.
LEMMA BrkStep ==
  ASSUME IInv, NEW b \in HeapBase * PageSize .. HeapMax * PageSize, Brk(b)
  PROVE  IInv'
  <1> DEFINE g == Grows(b)
             got == Backed(g.p, g.n)
  <1>0. /\ TypeInv /\ HeapPaid /\ HoldInv /\ StageInv /\ mem \in Mem /\ Apart(mem)
        /\ mapped \in Nat /\ heap \in SUBSET Frame
    BY MemRight DEF IInv, TypeInv
  <1>1. UNCHANGED <<next, shm, hold, stolen, stage, prog, img, held, live, areas>>
    BY DEF Brk, loader
  <1>2. b \in Nat
    <2>1. HeapBase * PageSize \in Nat
      BY NatConstants
    <2> QED BY <2>1
  <1>3. PageUp(b) \in Nat /\ b <= PageUp(b) * PageSize
    BY <1>2, PageUpRight
  <1>4. HoldInv' /\ StageInv'
    BY <1>0, <1>1 DEF HoldInv, StageInv, Holders, Whole
  <1>5. SUFFICES /\ FrameInv' /\ HeapPaid' /\ mem' \in Mem /\ brk' \in Nat
                 /\ mapped' \in Nat /\ heap' \in SUBSET Frame
    BY <1>0, <1>1, <1>4 DEF IInv, TypeInv
  <1>6. CASE g.n = 0
    <2>1. brk' = b /\ UNCHANGED <<mem, mapped, heap>>
      BY <1>6 DEF Brk
    <2>2. PageUp(b) <= mapped
      BY <1>0, <1>3, <1>6 DEF Grows
    <2>3. PageUp(b) * PageSize <= mapped * PageSize
      BY <1>0, <1>3, <2>2, NatConstants, TimesMonotone
    <2>4. PageUp(b) * PageSize \in Nat /\ mapped * PageSize \in Nat
      BY <1>0, <1>3, NatConstants
    <2>5. b <= mapped * PageSize
      <3> DEFINE x == PageUp(b) * PageSize
                 y == mapped * PageSize
      <3>1. x \in Nat /\ y \in Nat /\ b <= x /\ x <= y
        BY <1>3, <2>3, <2>4
      <3> HIDE DEF x, y
      <3>2. b <= y
        BY <1>2, <3>1
      <3> QED BY <3>2 DEF y
    <2>6. HeapPaid'
      BY <1>0, <2>1, <2>5 DEF HeapPaid
    <2>7. mem' \in Kept(mem)
      BY <2>1, MemRight
    <2> QED BY <1>0, <1>1, <1>2, <2>1, <2>6, <2>7, KeptStep
  <1>7. CASE g.n # 0
    <2>1. g.p = mapped /\ g.n = PageUp(b) - mapped /\ g.n \in Nat
      BY <1>0, <1>3, <1>7 DEF Grows
    <2>2. mem' = got.m
      BY <1>7 DEF Brk
    <2>3. \/ got.f = NoFrame /\ got.m \in Kept(mem)
          \/ /\ got.f \in Frame /\ g.n # 0 /\ got.f # NoFrame
             /\ Block(got.f, g.n) \subseteq mem.free
             /\ got.m \in Kept(Taken(mem, got.f, g.n))
      BY <1>0, <2>1, BackedRight
    <2>4. CASE got.f = NoFrame
      <3>1. UNCHANGED <<brk, mapped, heap>>
        BY <1>7, <2>4 DEF Brk
      <3>2. HeapPaid'
        BY <1>0, <3>1 DEF HeapPaid
      <3>3. mem' \in Kept(mem)
        BY <2>2, <2>3, <2>4
      <3> QED BY <1>0, <1>1, <3>1, <3>2, <3>3, KeptStep DEF TypeInv
    <2>5. CASE got.f # NoFrame
      <3> DEFINE B == Block(got.f, g.n)
      <3>1. brk' = b /\ mapped' = PageUp(b) /\ heap' = heap \cup B
        BY <1>7, <2>5 DEF Brk
      <3>2. /\ mem' \in Mem /\ mem'.free \cap TabOf(mem') = {}
            /\ mem'.free \cup TabOf(mem') = (mem.free \ B) \cup TabOf(mem)
            /\ TabOf(mem)' = TabOf(mem') /\ B \subseteq Frame
        BY <2>2, <2>3, <2>5, GrantRight
      <3>3. IsFiniteSet(B) /\ Cardinality(B) = g.n
        <4>1. got.f \in Int
          BY <2>3, <2>5, NatConstants DEF Frame
        <4> QED BY <2>1, <4>1, BlockSize
      <3>4. B \subseteq mem.free
        BY <2>3, <2>5
      <3> HIDE DEF B, g, got
      <3>5. Split(mem'.free, TabOf(mem'), heap \cup B, areas, live, ImageFrames(img), AllShm)
        BY <3>2, <3>4, MemRight, SplitGrant
      <3>6. AllShm' = AllShm /\ ImageFrames(img)' = ImageFrames(img) /\ ShmApart'
        BY <1>1 DEF AllShm, Shm, ImageFrames, IInv, FrameInv, ShmApart
      <3>7. FrameInv'
        BY <1>1, <3>1, <3>2, <3>5, <3>6 DEF FrameInv
      <3>8. heap \cap B = {}
        BY <3>4, MemRight DEF Split
      <3>9. Cardinality(heap \cup B) = Cardinality(heap) + Cardinality(B)
        <4>1. IsFiniteSet(Frame)
          BY NatConstants, FS_Interval DEF Frame
        <4>2. IsFiniteSet(heap)
          BY <1>0, <4>1, FS_Subset
        <4>3. Cardinality(heap \cap B) = 0
          BY <3>8, FS_EmptySet
        <4>4. /\ Cardinality(heap \cup B)
                  = Cardinality(heap) + Cardinality(B) - Cardinality(heap \cap B)
              /\ Cardinality(heap) \in Nat /\ Cardinality(B) \in Nat
          BY <3>3, <4>2, FS_Union, FS_CardinalityType
        <4> QED BY <4>3, <4>4
      <3>10. Cardinality(heap') = mapped' - HeapBase
        BY <1>0, <1>3, <2>1, <3>1, <3>3, <3>9, NatConstants DEF HeapPaid
      <3>11. HeapPaid'
        BY <1>3, <3>1, <3>10 DEF HeapPaid
      <3> QED BY <1>0, <1>2, <1>3, <3>1, <3>2, <3>7, <3>11
    <2> QED BY <2>4, <2>5
  <1> QED BY <1>6, <1>7

\* mmap, with a file that cannot be read or without, and munmap.
LEMMA MmapStep ==
  ASSUME IInv, NEW n \in Lengths, NEW at \in Fixed, Mmap(at, n)
  PROVE  IInv'
  <1> DEFINE got == Backed(Area(at, n), n)
             B == Block(got.f, n)
  <1>0. /\ TypeInv /\ HeapPaid /\ HoldInv /\ StageInv /\ mem \in Mem /\ Apart(mem)
        /\ areas \in SUBSET Frame
    BY MemRight DEF IInv, TypeInv
  <1>1. UNCHANGED <<brk, mapped, shm, hold, stolen, stage, prog, img, held, live, heap>> /\ mem' = got.m
    BY DEF Mmap, loader
  <1>2. n \in Nat /\ at \in Nat /\ Area(at, n) \in Int /\ next' \in Nat
    <2>1. n \in Nat /\ at \in Nat /\ Space \in Nat \ {0} /\ next \in Nat
      BY <1>0, NatConstants, UserMemAssumption DEF TypeInv
    <2>2. (next + n) % Space \in Nat
      BY <2>1
    <2> QED BY <2>1, <2>2 DEF Area, Mmap, Bump, BumpEnd
  <1>3. HoldInv' /\ StageInv' /\ HeapPaid'
    BY <1>0, <1>1 DEF HoldInv, StageInv, Holders, Whole, HeapPaid
  <1>4. SUFFICES FrameInv' /\ mem' \in Mem /\ areas' \in SUBSET Frame
    BY <1>0, <1>1, <1>2, <1>3 DEF IInv, TypeInv
  <1>5. \/ got.f = NoFrame /\ got.m \in Kept(mem)
        \/ /\ got.f \in Frame /\ n # 0 /\ got.f # NoFrame
           /\ Block(got.f, n) \subseteq mem.free
           /\ got.m \in Kept(Taken(mem, got.f, n))
    BY <1>0, <1>2, BackedRight
  <1>6. CASE got.f = NoFrame
    <2>1. areas' = areas
      BY <1>6 DEF Mmap
    <2>2. mem' \in Kept(mem)
      BY <1>1, <1>5, <1>6
    <2> QED BY <1>0, <1>1, <2>1, <2>2, KeptStep
  <1>7. CASE got.f # NoFrame
    <2>1. areas' = areas \cup B
      BY <1>7 DEF Mmap
    <2>2. /\ mem' \in Mem /\ mem'.free \cap TabOf(mem') = {}
          /\ mem'.free \cup TabOf(mem') = (mem.free \ B) \cup TabOf(mem)
          /\ TabOf(mem)' = TabOf(mem') /\ B \subseteq Frame
      BY <1>1, <1>5, <1>7, GrantRight
    <2>3. B \subseteq mem.free
      BY <1>5, <1>7
    <2> HIDE DEF B, got
    <2>4. Split(mem'.free, TabOf(mem'), heap, areas \cup B, live, ImageFrames(img), AllShm)
      BY <2>2, <2>3, MemRight, SplitGrant
    <2>5. AllShm' = AllShm /\ ImageFrames(img)' = ImageFrames(img) /\ ShmApart'
      BY <1>1 DEF AllShm, Shm, ImageFrames, IInv, FrameInv, ShmApart
    <2>6. FrameInv'
      BY <1>1, <2>1, <2>2, <2>4, <2>5 DEF FrameInv
    <2> QED BY <1>0, <2>1, <2>2, <2>6
  <1> QED BY <1>6, <1>7

\* The frames of an unread file are free again.
LEMMA MmapUnreadStep ==
  ASSUME IInv, NEW n \in Lengths, NEW at \in Fixed, MmapUnread(at, n)
  PROVE  IInv'
  <1> DEFINE f == FirstFit(mem.free, n)
  <1>0. /\ TypeInv /\ HeapPaid /\ HoldInv /\ StageInv /\ mem \in Mem /\ Apart(mem)
    BY MemRight DEF IInv
  <1>1. UNCHANGED <<brk, mapped, shm, hold, stolen, stage, prog, img, held, live, heap, areas>>
    BY DEF MmapUnread, loader
  <1>2. n \in Nat /\ next' \in Nat
    <2>1. n \in Nat /\ at \in Nat /\ Space \in Nat \ {0} /\ next \in Nat
      BY <1>0, NatConstants, UserMemAssumption DEF TypeInv
    <2>2. (next + n) % Space \in Nat
      BY <2>1
    <2> QED BY <2>1, <2>2 DEF MmapUnread, Bump, BumpEnd
  <1>3. HoldInv' /\ StageInv' /\ HeapPaid'
    BY <1>0, <1>1 DEF HoldInv, StageInv, Holders, Whole, HeapPaid
  <1>4. mem' \in Kept(mem)
    <2>1. CASE f = NoFrame
      BY <2>1, MemRight DEF MmapUnread
    <2>2. CASE f # NoFrame
      <3>1. /\ Block(f, n) \subseteq mem.free
            /\ Taken(mem, f, n) \in Mem /\ Apart(Taken(mem, f, n))
        BY <1>0, <1>2, <2>2, TakenRight
      <3>2. Taken(mem, f, n) \in Kept(Taken(mem, f, n))
        BY <3>1 DEF Kept
      <3>3. mem' = GivenBack(Taken(mem, f, n), f, n)
        BY <2>2 DEF MmapUnread, Failed
      <3> HIDE DEF f
      <3> QED BY <1>0, <3>1, <3>2, <3>3, GivenBackKeeps
    <2> QED BY <2>1, <2>2
  <1>5. FrameInv' /\ mem' \in Mem
    BY <1>1, <1>4, KeptStep
  <1> QED BY <1>0, <1>1, <1>2, <1>3, <1>5 DEF IInv, TypeInv

LEMMA UnmappedKeeps ==
  ASSUME NEW m \in Mem, Apart(m), NEW p, NEW n
  PROVE  Unmapped(m, p, n) \in Kept(m)
  <1> DEFINE e == [q \in Page |-> IF q \in Block(p, n) THEN NoFrame ELSE m.pte[q]]
  <1>1. e \in [Page -> Int]
    BY DEF Mem, NoFrame
  <1>2. Unmapped(m, p, n) = [m EXCEPT !.pte = e]
    BY DEF Unmapped
  <1> HIDE DEF e
  <1> QED BY <1>1, <1>2 DEF Mem, Kept, Apart, TabOf

LEMMA MunmapStep ==
  ASSUME IInv, NEW p, NEW n, Munmap(p, n)
  PROVE  IInv'
  <1>1. UNCHANGED <<brk, mapped, next, shm, hold, stolen, stage, prog, img, held, live, heap, areas>>
    BY DEF Munmap, loader
  <1>2. mem' \in Kept(mem)
    BY MemRight, UnmappedKeeps DEF Munmap
  <1>3. FrameInv' /\ mem' \in Mem
    BY <1>1, <1>2, KeptStep
  <1> QED BY <1>1, <1>3 DEF IInv, TypeInv, HoldInv, StageInv, Holders, Whole, HeapPaid

-----------------------------------------------------------------------------
(* Shared memory                                                           *)

LEMMA LeastRegion ==
  ASSUME NEW T \in SUBSET Region, T # {}
  PROVE  Min(T) \in T /\ Min(T) \in Region
  <1>1. T \in SUBSET Nat
    BY NatConstants DEF Region
  <1>2. \E m \in T : \A k \in T : m <= k
    BY <1>1, LeastNat
  <1> QED BY <1>2 DEF Min

LEMMA HoldersFinite ==
  \A r : IsFiniteSet(Holders(r)) /\ Cardinality(Holders(r)) \in Nat
  <1> SUFFICES ASSUME NEW r
               PROVE  IsFiniteSet(Holders(r)) /\ Cardinality(Holders(r)) \in Nat
    OBVIOUS
  <1>1. Holders(r) \subseteq Proc
    BY DEF Holders
  <1> QED BY <1>1, UserMemAssumption, FS_Subset, FS_CardinalityType

LEMMA RecordRight ==
  ASSUME NEW s \in ShmRecord
  PROVE  /\ s.ref \in Nat /\ s.f \in Nat /\ s.n \in Nat /\ s.valid \in BOOLEAN
         /\ \A k \in Nat : LET t == [s EXCEPT !.ref = k] IN
              /\ t \in ShmRecord /\ t.ref = k
              /\ t.valid = s.valid /\ t.f = s.f /\ t.n = s.n
  BY DEF ShmRecord

\* A process gets a region that is there.
LEMMA ShmFoundStep ==
  ASSUME IInv, NEW x \in Proc, NEW r \in Region, hold[x] = Nothing, shm[r].valid,
         shm' = Referenced(r), hold' = [hold EXCEPT ![x].r = r],
         UNCHANGED <<mem, brk, mapped, next, stolen, loader, heap, areas>>
  PROVE  IInv'
  <1>0. /\ TypeInv /\ HeapPaid /\ HoldInv /\ StageInv /\ mem \in Mem
        /\ shm \in [Region -> ShmRecord] /\ hold \in [Proc -> [r : {0} \cup Region, va : Int]]
    BY MemRight DEF IInv, TypeInv
  <1>a. 0 \notin Region
    BY DEF Region
  <1>1. /\ \A q \in Region : /\ shm'[q].valid = shm[q].valid
                             /\ shm'[q].f = shm[q].f /\ shm'[q].n = shm[q].n
        /\ \A q \in Region : q # r => shm'[q] = shm[q]
        /\ shm'[r].ref = shm[r].ref + 1 /\ shm' \in [Region -> ShmRecord]
    <2>0. shm[r] \in ShmRecord
      BY <1>0
    <2>1. shm[r].ref \in Nat /\ shm[r].ref + 1 \in Nat
      <3>1. shm[r].ref \in Nat
        BY <2>0, RecordRight
      <3> QED BY <3>1
    <2>2. [shm[r] EXCEPT !.ref = @ + 1] \in ShmRecord
      BY <2>0, <2>1 DEF ShmRecord
    <2>3. shm' = [shm EXCEPT ![r] = [shm[r] EXCEPT !.ref = @ + 1]]
      BY <1>0 DEF Referenced
    <2>4. shm' \in [Region -> ShmRecord]
      BY <1>0, <2>2, <2>3
    <2>5. /\ \A q \in Region : q # r => shm'[q] = shm[q]
          /\ shm'[r] = [shm[r] EXCEPT !.ref = @ + 1]
      BY <1>0, <2>3
    <2>6. /\ shm'[r].ref = shm[r].ref + 1 /\ shm'[r].valid = shm[r].valid
          /\ shm'[r].f = shm[r].f /\ shm'[r].n = shm[r].n
      BY <2>0, <2>5 DEF ShmRecord
    <2> QED BY <2>4, <2>5, <2>6
  <1>2. /\ hold' \in [Proc -> [r : {0} \cup Region, va : Int]]
        /\ hold'[x].r = r /\ \A y \in Proc : y # x => hold'[y] = hold[y]
    BY <1>0 DEF Nothing
  <1>3. /\ Holders(r)' = Holders(r) \cup {x} /\ x \notin Holders(r)
        /\ \A q \in Region : q # r => Holders(q)' = Holders(q)
    BY <1>a, <1>2 DEF Holders, Nothing
  <1>4. Cardinality(Holders(r) \cup {x}) = Cardinality(Holders(r)) + 1
    BY <1>3, HoldersFinite, FS_AddElement
  <1>5. HoldInv'
    <2>1. ASSUME NEW y \in Proc
          PROVE  /\ Whole(hold'[y].r) => shm'[hold'[y].r].valid
                 /\ hold'[y].r = 0 => hold'[y].va = -1
      <3>1. CASE y = x
        BY <1>a, <1>1, <1>2, <3>1
      <3>2. CASE y # x
        <4>1. hold'[y] = hold[y] /\ hold[y].r \in {0} \cup Region
          BY <1>0, <1>2, <3>2
        <4> QED BY <1>0, <1>1, <4>1 DEF HoldInv, Whole
      <3> QED BY <3>1, <3>2
    <2>2. ASSUME NEW q \in Region, shm'[q].valid
          PROVE  shm'[q].ref # 0 /\ (Whole(q) => shm'[q].ref = Cardinality(Holders(q)'))
      <3>1. CASE q = r
        <4>1. shm[r].ref \in Nat
          <5>1. shm[r] \in ShmRecord
            BY <1>0
          <5> QED BY <5>1, RecordRight
        <4>2. Whole(r) => shm[r].ref = Cardinality(Holders(r))
          BY <1>0 DEF HoldInv
        <4>3. shm'[r].ref # 0 /\ (Whole(r) => shm'[r].ref = Cardinality(Holders(r)'))
          BY <1>1, <1>3, <1>4, <4>1, <4>2
        <4> QED BY <3>1, <4>3 DEF Holders
      <3>2. CASE q # r
        BY <1>0, <1>1, <1>3, <2>2, <3>2 DEF HoldInv
      <3> QED BY <3>1, <3>2
    <2> QED BY <2>1, <2>2 DEF HoldInv, Whole
  <1>6. \A q \in Region : Shm(q)' = Shm(q)
    BY <1>1 DEF Shm
  <1>7. AllShm' = AllShm /\ ShmApart'
    BY <1>6 DEF AllShm, IInv, FrameInv, ShmApart
  <1>8. FrameInv'
    <2>1. UNCHANGED <<TabOf(mem), ImageFrames(img), heap, areas, live, mem>>
      BY DEF TabOf, ImageFrames, loader
    <2> QED BY <1>7, <2>1, MemRight DEF FrameInv
  <1> QED BY <1>0, <1>1, <1>2, <1>5, <1>8
       DEF IInv, TypeInv, StageInv, HeapPaid, loader

\* A process makes a region.
LEMMA ShmMadeStep ==
  ASSUME IInv, NEW x \in Proc, NEW r \in Region, NEW name \in Name, NEW n \in Nat,
         hold[x] = Nothing, ~shm[r].valid,
         NEW f, f = FirstFit(mem.free, n), f # NoFrame,
         shm' = [shm EXCEPT ![r] = [valid |-> TRUE, name |-> name, f |-> f, n |-> n, ref |-> 1]],
         hold' = [hold EXCEPT ![x].r = r], mem' = Taken(mem, f, n),
         UNCHANGED <<brk, mapped, next, stolen, loader, heap, areas>>
  PROVE  IInv'
  <1> DEFINE B == Block(f, n)
             new == [valid |-> TRUE, name |-> name, f |-> f, n |-> n, ref |-> 1]
  <1>0. /\ TypeInv /\ HeapPaid /\ HoldInv /\ StageInv /\ mem \in Mem /\ Apart(mem)
        /\ shm \in [Region -> ShmRecord] /\ hold \in [Proc -> [r : {0} \cup Region, va : Int]]
    BY MemRight DEF IInv, TypeInv
  <1>a. 0 \notin Region
    BY DEF Region
  <1>1. /\ f \in Frame /\ B \subseteq mem.free /\ mem' \in Mem /\ Apart(mem')
        /\ mem' \in Kept(Taken(mem, f, n))
    BY <1>0, TakenRight DEF Kept
  <1>2. new \in ShmRecord
    <2>1. f \in Nat
      BY <1>1, NatConstants DEF Frame
    <2> QED BY <2>1 DEF ShmRecord
  <1>3. /\ shm' \in [Region -> ShmRecord] /\ shm'[r] = new
        /\ \A q \in Region : q # r => shm'[q] = shm[q]
    BY <1>0, <1>2
  <1>4. /\ hold' \in [Proc -> [r : {0} \cup Region, va : Int]]
        /\ hold'[x].r = r /\ \A y \in Proc : y # x => hold'[y] = hold[y]
    BY <1>0 DEF Nothing
  <1>5. Whole(r) => \A y \in Proc : hold[y].r # r
    BY <1>0 DEF HoldInv
  <1>6. /\ Whole(r) => Holders(r)' = {x}
        /\ \A q \in Region : q # r => Holders(q)' = Holders(q)
    BY <1>a, <1>4, <1>5 DEF Holders, Nothing
  <1>7. Cardinality({x}) = 1
    BY FS_Singleton
  <1>8. HoldInv'
    <2>1. ASSUME NEW y \in Proc
          PROVE  /\ Whole(hold'[y].r) => shm'[hold'[y].r].valid
                 /\ hold'[y].r = 0 => hold'[y].va = -1
      <3>1. CASE y = x
        BY <1>a, <1>3, <1>4, <3>1
      <3>2. CASE y # x
        <4>1. hold'[y] = hold[y] /\ hold[y].r \in {0} \cup Region
          BY <1>0, <1>4, <3>2
        <4>2. Whole(hold[y].r) => shm'[hold[y].r] = shm[hold[y].r]
          BY <1>3, <1>5, <4>1 DEF Whole
        <4> QED BY <1>0, <4>1, <4>2 DEF HoldInv
      <3> QED BY <3>1, <3>2
    <2>2. ASSUME NEW q \in Region, shm'[q].valid
          PROVE  shm'[q].ref # 0 /\ (Whole(q) => shm'[q].ref = Cardinality(Holders(q)'))
      <3>1. CASE q = r
        BY <1>3, <1>6, <1>7, <3>1
      <3>2. CASE q # r
        BY <1>0, <1>3, <1>6, <2>2, <3>2 DEF HoldInv
      <3> QED BY <3>1, <3>2
    <2> QED BY <2>1, <2>2 DEF HoldInv, Whole
  <1>9. /\ Shm(r) = {} /\ Shm(r)' = B
        /\ \A q \in Region : q # r => Shm(q)' = Shm(q)
    BY <1>3 DEF Shm
  <1> HIDE DEF B, new
  <1>10. AllShm' = AllShm \cup B
    BY <1>9 DEF AllShm
  <1>11. ShmApart'
    <2>1. \A q \in Region : Shm(q) \cap B = {}
      <3>1. AllShm \cap B = {}
        BY <1>1, MemRight DEF Split
      <3> QED BY <3>1 DEF AllShm
    <2>2. ShmApart
      BY DEF IInv, FrameInv
    <2> QED BY <1>9, <2>1, <2>2 DEF ShmApart
  <1>12. FrameInv'
    <2>1. /\ mem'.free \cap TabOf(mem') = {}
          /\ mem'.free \cup TabOf(mem') = (mem.free \ B) \cup TabOf(mem)
          /\ TabOf(mem)' = TabOf(mem')
      BY <1>1, GrantRight DEF B
    <2>2. Split(mem'.free, TabOf(mem'), heap, areas, live, ImageFrames(img), AllShm \cup B)
      BY <1>1, <2>1, MemRight, SplitGrant
    <2>3. UNCHANGED <<ImageFrames(img), heap, areas, live>>
      BY DEF ImageFrames, loader
    <2> QED BY <1>10, <1>11, <2>1, <2>2, <2>3 DEF FrameInv
  <1> QED BY <1>0, <1>1, <1>3, <1>4, <1>8, <1>12
       DEF IInv, TypeInv, StageInv, HeapPaid, loader

LEMMA ShmGetStep ==
  ASSUME IInv, NEW x \in Proc, NEW name \in Name, NEW n \in Lengths, NEW create \in BOOLEAN,
         ShmGet(x, name, n, create)
  PROVE  IInv'
  <1> DEFINE named == {r \in Region : shm[r].valid /\ shm[r].name = name}
             unused == {r \in Region : ~shm[r].valid}
             f == FirstFit(mem.free, n)
  <1>1. hold[x] = Nothing /\ UNCHANGED <<brk, mapped, next, stolen, loader, heap, areas>>
    BY DEF ShmGet
  <1>2. CASE named # {}
    <2>1. Min(named) \in named /\ Min(named) \in Region
      BY <1>2, LeastRegion
    <2>2. /\ shm' = Referenced(Min(named)) /\ hold' = [hold EXCEPT ![x].r = Min(named)]
          /\ UNCHANGED mem
      BY <1>2 DEF ShmGet
    <2>3. shm[Min(named)].valid
      BY <2>1
    <2> HIDE DEF named
    <2> QED BY <1>1, <2>1, <2>2, <2>3, ShmFoundStep
  <1>3. CASE named = {}
    <2>1. /\ unused # {} /\ f # NoFrame /\ mem' = Taken(mem, f, n)
          /\ shm' = [shm EXCEPT ![Min(unused)] =
                       [valid |-> TRUE, name |-> name, f |-> f, n |-> n, ref |-> 1]]
          /\ hold' = [hold EXCEPT ![x].r = Min(unused)]
      BY <1>3 DEF ShmGet
    <2>2. Min(unused) \in unused /\ Min(unused) \in Region
      BY <2>1, LeastRegion
    <2>3. ~shm[Min(unused)].valid /\ n \in Nat
      BY <2>2, UserMemAssumption
    <2> HIDE DEF unused, f
    <2> QED BY <1>1, <2>1, <2>2, <2>3, ShmMadeStep DEF f
  <1> QED BY <1>2, <1>3

LEMMA ShmAtStep ==
  ASSUME IInv, NEW x \in Proc, NEW at \in Fixed, ShmAt(x, at)
  PROVE  IInv'
  <1> DEFINE s == shm[hold[x].r]
             hint == IF at <= Limit THEN at ELSE 0
             p == Area(hint, s.n)
             m == MapRange(mem, p, s.f, s.n)
  <1>0. /\ TypeInv /\ HeapPaid /\ HoldInv /\ StageInv /\ mem \in Mem /\ Apart(mem)
        /\ shm \in [Region -> ShmRecord] /\ hold \in [Proc -> [r : {0} \cup Region, va : Int]]
        /\ next \in Nat
    BY MemRight DEF IInv, TypeInv
  <1>1. /\ hold[x].r # 0 /\ UNCHANGED <<brk, mapped, shm, stolen, stage, prog, img, held, live, heap, areas>>
        /\ mem' = [m EXCEPT !.ok = TRUE] /\ Bump(hint, s.n)
        /\ hold' = IF m.ok THEN [hold EXCEPT ![x].va = p] ELSE hold
    BY DEF ShmAt, loader
  <1>2. s \in ShmRecord
    <2>1. hold[x].r \in Region
      BY <1>0, <1>1
    <2> QED BY <1>0, <2>1
  <1>3. s.f \in Nat /\ s.n \in Nat
    BY <1>2, RecordRight
  <1>4. p \in Int /\ next' \in Nat
    <2>1. hint \in Nat /\ Space \in Nat \ {0}
      BY NatConstants, UserMemAssumption
    <2> HIDE DEF hint, s
    <2>2. (next + s.n) % Space \in Nat
      BY <1>0, <1>3, <2>1
    <2> QED BY <1>0, <1>1, <2>1, <2>2 DEF Area, Bump, BumpEnd
  <1> HIDE DEF p, s
  <1>5. m \in Kept(mem)
    BY <1>0, <1>3, <1>4, MapRangeKeeps
  <1>6. mem' \in Kept(mem)
    <2>1. m \in Mem /\ Apart(m) /\ TRUE \in BOOLEAN
      BY <1>5 DEF Kept
    <2>2. mem' \in Kept(m)
      BY <1>1, <2>1, KeptSelf
    <2> QED BY <1>5, <2>2, KeptOn
  <1>7. FrameInv' /\ mem' \in Mem
    BY <1>1, <1>6, KeptStep
  <1>8. /\ hold' \in [Proc -> [r : {0} \cup Region, va : Int]]
        /\ \A y \in Proc : hold'[y].r = hold[y].r
        /\ \A y \in Proc : hold[y].r = 0 => hold'[y] = hold[y]
    <2>1. CASE m.ok
      <3>1. hold' = [hold EXCEPT ![x] = [hold[x] EXCEPT !.va = p]]
        BY <1>0, <1>1, <2>1
      <3>2. [hold[x] EXCEPT !.va = p] \in [r : {0} \cup Region, va : Int]
        BY <1>0, <1>4
      <3> QED BY <1>0, <1>1, <3>1, <3>2
    <2>2. CASE ~m.ok
      BY <1>0, <1>1, <2>2
    <2> QED BY <2>1, <2>2
  <1>9. \A r : Holders(r)' = Holders(r)
    BY <1>8 DEF Holders
  <1>10. HoldInv'
    BY <1>0, <1>1, <1>8, <1>9 DEF HoldInv, Whole
  <1> QED BY <1>0, <1>1, <1>4, <1>7, <1>8, <1>10 DEF IInv, TypeInv, StageInv, HeapPaid

LEMMA ShmDetachStep ==
  ASSUME IInv, NEW x \in Proc, NEW r \in Region, NEW va \in Int, ShmDetach(x, r, va)
  PROVE  IInv'
  <1>0. /\ TypeInv /\ HeapPaid /\ HoldInv /\ StageInv /\ mem \in Mem /\ Apart(mem)
        /\ shm \in [Region -> ShmRecord] /\ hold \in [Proc -> [r : {0} \cup Region, va : Int]]
    BY MemRight DEF IInv, TypeInv
  <1>a. 0 \notin Region
    BY DEF Region
  <1>1. /\ shm[r].valid
        /\ UNCHANGED <<brk, mapped, next, stage, prog, img, held, live, heap, areas>>
    BY DEF ShmDetach, loader
  <1> DEFINE s == [shm[r] EXCEPT !.ref = @ - 1]
             m == Unmapped(mem, va, s.n)
             B == Block(s.f, s.n)
             own == hold[x] = [r |-> r, va |-> va]
  <1>2. /\ own => hold' = [hold EXCEPT ![x] = Nothing] /\ stolen' = stolen
        /\ ~own => hold' = hold /\ stolen' = stolen \cup {r}
    BY DEF ShmDetach
  <1>3. /\ hold' \in [Proc -> [r : {0} \cup Region, va : Int]]
        /\ stolen \subseteq stolen' /\ stolen' \subseteq Region
        /\ \A y \in Proc : hold'[y] = hold[y] \/ (hold'[y].r = 0 /\ hold'[y].va = -1)
    <2>1. stolen \subseteq Region
      BY <1>0 DEF TypeInv
    <2>2. CASE own
      BY <1>0, <1>2, <2>1, <2>2 DEF Nothing
    <2>3. CASE ~own
      BY <1>0, <1>2, <2>1, <2>3
    <2> QED BY <2>2, <2>3
  <1>4. \A q \in Region : q # r => Holders(q)' = Holders(q)
    <2>1. CASE own
      <3>1. hold[x].r = r /\ hold'[x].r = 0 /\ \A y \in Proc : y # x => hold'[y] = hold[y]
        BY <1>0, <1>2, <2>1 DEF Nothing
      <3> QED BY <1>a, <3>1 DEF Holders
    <2>2. CASE ~own
      BY <1>2, <2>2 DEF Holders
    <2> QED BY <2>1, <2>2
  <1>5. /\ shm[r].ref \in Nat /\ shm[r].ref # 0 /\ shm[r] \in ShmRecord
        /\ Whole(r) => shm[r].ref = Cardinality(Holders(r))
    <2>1. shm[r] \in ShmRecord
      BY <1>0
    <2>2. shm[r].ref \in Nat
      BY <2>1, RecordRight
    <2> QED BY <1>0, <1>1, <2>1, <2>2 DEF HoldInv
  <1>6. Whole(r)' => s.ref = Cardinality(Holders(r)')
    <2> SUFFICES ASSUME Whole(r)' PROVE s.ref = Cardinality(Holders(r)')
      OBVIOUS
    <2>1. own /\ Whole(r)
      BY <1>2, <1>3 DEF Whole
    <2>2. hold[x].r = r /\ hold'[x].r = 0 /\ \A y \in Proc : y # x => hold'[y] = hold[y]
      BY <1>0, <1>2, <2>1 DEF Nothing
    <2>3. Holders(r)' = Holders(r) \ {x} /\ x \in Holders(r)
      BY <1>a, <2>2 DEF Holders
    <2>4. Cardinality(Holders(r) \ {x}) = Cardinality(Holders(r)) - 1
      BY <2>3, HoldersFinite, FS_RemoveElement
    <2>5. s.ref = shm[r].ref - 1
      <3>1. shm[r].ref - 1 \in Nat
        BY <1>5
      <3> QED BY <1>5, <3>1, RecordRight
    <2> QED BY <1>5, <2>1, <2>3, <2>4, <2>5
  <1>7. /\ s \in ShmRecord
        /\ s.valid = shm[r].valid /\ s.f = shm[r].f /\ s.n = shm[r].n
    <2>1. shm[r].ref - 1 \in Nat
      BY <1>5
    <2> QED BY <1>5, <2>1, RecordRight
  <1>8. Shm(r) = B
    BY <1>1, <1>7 DEF Shm
  <1>9. m \in Kept(mem)
    BY <1>0, UnmappedKeeps
  <1>10. /\ s.ref = 0 => mem' = GivenBack(m, s.f, s.n) /\ shm' = [shm EXCEPT ![r] = NoRegion]
         /\ s.ref # 0 => mem' = m /\ shm' = [shm EXCEPT ![r] = s]
    BY DEF ShmDetach, Emptied
  <1> HIDE DEF s, m, B, own
  <1>11. CASE s.ref = 0
    <2>1. NoRegion \in ShmRecord /\ ~NoRegion.valid
      BY DEF NoRegion, NoFrame, ShmRecord
    <2>2. /\ shm' \in [Region -> ShmRecord] /\ ~shm'[r].valid
          /\ \A q \in Region : q # r => shm'[q] = shm[q]
      BY <1>0, <1>10, <1>11, <2>1
    <2>3. Whole(r)' => Holders(r)' = {}
      <3>1. Holders(r)' \subseteq Proc
        BY DEF Holders
      <3>2. IsFiniteSet(Holders(r)')
        BY <3>1, UserMemAssumption, FS_Subset
      <3> QED BY <1>6, <1>11, <3>2, FS_EmptySet
    <2>4. Whole(r)' => \A y \in Proc : hold'[y].r # r
      BY <2>3 DEF Holders
    <2>5. HoldInv'
      <3>1. ASSUME NEW y \in Proc
            PROVE  /\ hold'[y].r \in Region \ stolen' => shm'[hold'[y].r].valid
                   /\ hold'[y].r = 0 => hold'[y].va = -1
        <4>1. CASE hold'[y].r = 0 /\ hold'[y].va = -1
          BY <1>a, <4>1 DEF Whole
        <4>2. CASE hold'[y] = hold[y]
          <5>1. /\ hold'[y].r \in Region \ stolen' => Whole(hold[y].r) /\ hold[y].r # r
                /\ hold[y].r \in {0} \cup Region
            BY <1>0, <1>3, <2>4, <4>2 DEF Whole
          <5>2. Whole(hold[y].r) => shm[hold[y].r].valid
            BY <1>0 DEF HoldInv
          <5>3. hold[y].r = 0 => hold[y].va = -1
            BY <1>0 DEF HoldInv
          <5> QED BY <2>2, <4>2, <5>1, <5>2, <5>3 DEF Whole
        <4> QED BY <1>3, <4>1, <4>2
      <3>2. ASSUME NEW q \in Region, shm'[q].valid
            PROVE  shm'[q].ref # 0 /\ (Whole(q)' => shm'[q].ref = Cardinality(Holders(q)'))
        <4>1. q # r /\ (Whole(q)' => Whole(q))
          BY <1>3, <2>2, <3>2 DEF Whole
        <4> QED BY <1>0, <1>4, <2>2, <3>2, <4>1 DEF HoldInv
      <3> QED BY <3>1, <3>2 DEF HoldInv, Whole
    <2>6. /\ Shm(r)' = {} /\ \A q \in Region : q # r => Shm(q)' = Shm(q)
      BY <2>2 DEF Shm
    <2>7. ShmApart /\ ShmApart'
      BY <2>6 DEF IInv, FrameInv, ShmApart
    <2>8. AllShm' = AllShm \ B /\ B \subseteq AllShm
      BY <1>8, <2>6, <2>7 DEF AllShm, ShmApart
    <2>9. m \in Mem /\ m.free \cap TabOf(m) = {}
          /\ m.free \cup TabOf(m) = mem.free \cup TabOf(mem)
      BY <1>9 DEF Kept, Apart
    <2>10. Split(m.free, TabOf(m), heap, areas, live, ImageFrames(img), AllShm)
      BY <2>9, MemRight, SplitSame
    <2>11. Split(m.free \cup B, TabOf(m), heap, areas, live, ImageFrames(img), AllShm \ B)
      BY <2>8, <2>10, SplitDetach
    <2>12. B \subseteq Frame
      BY <2>8, <2>10 DEF Split
    <2>13. mem' \in Mem /\ mem'.free = m.free \cup B /\ mem'.tab = m.tab
      BY <1>10, <1>11, <2>9, <2>12 DEF GivenBack, Mem, B
    <2>14. FrameInv'
      <3>1. TabOf(mem)' = TabOf(m) /\ ImageFrames(img)' = ImageFrames(img)
        BY <1>1, <2>13 DEF TabOf, ImageFrames
      <3> QED BY <1>1, <2>7, <2>8, <2>11, <2>13, <3>1 DEF FrameInv
    <2> QED BY <1>0, <1>1, <1>3, <2>2, <2>5, <2>13, <2>14
         DEF IInv, TypeInv, StageInv, HeapPaid
  <1>12. CASE s.ref # 0
    <2>1. /\ shm' \in [Region -> ShmRecord] /\ shm'[r] = s
          /\ \A q \in Region : q # r => shm'[q] = shm[q]
      BY <1>0, <1>7, <1>10, <1>12
    <2>2. \A q \in Region : /\ shm'[q].valid = shm[q].valid
                            /\ shm'[q].f = shm[q].f /\ shm'[q].n = shm[q].n
      BY <1>7, <2>1
    <2>3. HoldInv'
      <3>1. ASSUME NEW y \in Proc
            PROVE  /\ hold'[y].r \in Region \ stolen' => shm'[hold'[y].r].valid
                   /\ hold'[y].r = 0 => hold'[y].va = -1
        <4>1. CASE hold'[y].r = 0 /\ hold'[y].va = -1
          BY <1>a, <4>1 DEF Whole
        <4>2. CASE hold'[y] = hold[y]
          <5>1. hold'[y].r \in Region \ stolen' => Whole(hold[y].r) /\ hold[y].r \in Region
            BY <1>3, <4>2 DEF Whole
          <5>2. /\ Whole(hold[y].r) => shm[hold[y].r].valid
                /\ hold[y].r = 0 => hold[y].va = -1
            BY <1>0 DEF HoldInv
          <5> QED BY <2>2, <4>2, <5>1, <5>2
        <4> QED BY <1>3, <4>1, <4>2
      <3>2. ASSUME NEW q \in Region, shm'[q].valid
            PROVE  shm'[q].ref # 0 /\ (Whole(q)' => shm'[q].ref = Cardinality(Holders(q)'))
        <4>1. CASE q = r
          BY <1>6, <1>12, <2>1, <4>1
        <4>2. CASE q # r
          <5>1. Whole(q)' => Whole(q)
            BY <1>3 DEF Whole
          <5> QED BY <1>0, <1>4, <2>1, <3>2, <4>2, <5>1 DEF HoldInv
        <4> QED BY <4>1, <4>2
      <3> QED BY <3>1, <3>2 DEF HoldInv, Whole
    <2>4. AllShm' = AllShm /\ ShmApart'
      <3>1. \A q \in Region : Shm(q)' = Shm(q)
        BY <2>2 DEF Shm
      <3> QED BY <3>1 DEF AllShm, IInv, FrameInv, ShmApart
    <2>5. mem' \in Mem /\ mem'.free \cap TabOf(mem') = {}
          /\ mem'.free \cup TabOf(mem') = mem.free \cup TabOf(mem)
      BY <1>9, <1>10, <1>12 DEF Kept, Apart
    <2>6. Split(mem'.free, TabOf(mem'), heap, areas, live, ImageFrames(img), AllShm)
      BY <2>5, MemRight, SplitSame
    <2>7. FrameInv'
      <3>1. TabOf(mem)' = TabOf(mem') /\ ImageFrames(img)' = ImageFrames(img)
        BY <1>1 DEF TabOf, ImageFrames
      <3> QED BY <1>1, <2>4, <2>6, <3>1 DEF FrameInv
    <2> QED BY <1>0, <1>1, <1>3, <2>1, <2>3, <2>5, <2>7
         DEF IInv, TypeInv, StageInv, HeapPaid
  <1> QED BY <1>11, <1>12

-----------------------------------------------------------------------------
(* The loader                                                              *)

LEMMA ImageAppend ==
  ASSUME NEW i, i.segs \in Seq(Segs), NEW e \in Segs, NEW j, j.segs = Append(i.segs, e)
  PROVE  ImageFrames(j) = ImageFrames(i) \cup Block(e.f, e.n)
  <1> DEFINE q == i.segs
             l == Len(q) + 1
  <1>1. /\ DOMAIN j.segs = 1 .. l /\ DOMAIN q = 1 .. Len(q) /\ Len(q) \in Nat
        /\ j.segs[l] = e /\ \A k \in 1 .. Len(q) : j.segs[k] = q[k]
    OBVIOUS
  <1>2. 1 .. l = (1 .. Len(q)) \cup {l}
    BY <1>1
  <1>3. /\ ImageFrames(j) = UNION {Block(j.segs[k].f, j.segs[k].n) : k \in (1 .. Len(q)) \cup {l}}
        /\ ImageFrames(i) = UNION {Block(q[k].f, q[k].n) : k \in 1 .. Len(q)}
    BY <1>1, <1>2 DEF ImageFrames
  <1> HIDE DEF q, l
  <1>4. ImageFrames(j) \subseteq ImageFrames(i) \cup Block(e.f, e.n)
    <2> SUFFICES ASSUME NEW k \in (1 .. Len(q)) \cup {l}
                 PROVE  Block(j.segs[k].f, j.segs[k].n) \subseteq ImageFrames(i) \cup Block(e.f, e.n)
      BY <1>3
    <2>1. CASE k = l
      BY <1>1, <2>1
    <2>2. CASE k \in 1 .. Len(q)
      BY <1>1, <1>3, <2>2
    <2> QED BY <2>1, <2>2
  <1>5. ImageFrames(i) \subseteq ImageFrames(j)
    <2> SUFFICES ASSUME NEW k \in 1 .. Len(q)
                 PROVE  Block(q[k].f, q[k].n) \subseteq ImageFrames(j)
      BY <1>3
    <2> QED BY <1>1, <1>3
  <1>6. Block(e.f, e.n) \subseteq ImageFrames(j)
    BY <1>1, <1>3
  <1> QED BY <1>4, <1>5, <1>6

\* Whatever the load has got is free again and all it opened is given up.
LEMMA AbandonStep ==
  ASSUME IInv, NEW m \in Kept(mem), NEW paths, held \subseteq paths \cup {"arg"},
         Abandon(m, paths), Others
  PROVE  IInv'
  <1> DEFINE I == ImageFrames(img)
  <1>0. TypeInv /\ HeapPaid /\ HoldInv /\ StageInv
    BY DEF IInv
  <1>1. /\ UNCHANGED <<brk, mapped, next, shm, hold, stolen, heap, areas, live>>
        /\ stage' = "idle" /\ prog' = NoProgram /\ img' = NoImage /\ held' = {}
        /\ mem' = [Freed(m, img) EXCEPT !.ok = TRUE]
    BY DEF Abandon, Others
  <1>2. m \in Mem /\ m.free \cap TabOf(m) = {}
        /\ m.free \cup TabOf(m) = mem.free \cup TabOf(mem)
    BY DEF Kept, Apart
  <1>3. Split(m.free, TabOf(m), heap, areas, live, I, AllShm)
    BY <1>2, MemRight, SplitSame
  <1>4. I \subseteq Frame
    BY <1>3 DEF Split
  <1>5. mem' \in Mem /\ mem'.free = m.free \cup I /\ mem'.tab = m.tab
    BY <1>1, <1>2, <1>4 DEF Freed, Mem
  <1>6. ImageFrames(img)' = {}
    BY <1>1 DEF ImageFrames, NoImage
  <1>7. TabOf(mem)' = TabOf(m) /\ AllShm' = AllShm /\ ShmApart'
    BY <1>1, <1>5 DEF TabOf, AllShm, ShmApart, Shm, IInv, FrameInv
  <1>8. Split(m.free \cup I, TabOf(m), heap, areas, live, {}, AllShm)
    BY <1>3, SplitImage
  <1>9. FrameInv'
    BY <1>1, <1>5, <1>6, <1>7, <1>8 DEF FrameInv
  <1>10. /\ prog' \in [dyn : BOOLEAN, segs : Seq(Segment)]
         /\ img' \in [segs : Seq(Segs), at : Nat \ {0}]
    BY <1>1 DEF NoProgram, NoImage
  <1>11. HoldInv' /\ StageInv' /\ HeapPaid'
    BY <1>0, <1>1 DEF HoldInv, Holders, Whole, StageInv, HeapPaid
  <1>12. TypeInv'
    BY <1>0, <1>1, <1>5, <1>10 DEF TypeInv
  <1> QED BY <1>9, <1>11, <1>12 DEF IInv

\* Nothing of the memory changes.
LEMMA SameMemory ==
  ASSUME IInv, UNCHANGED <<mem, heap, areas, live, img, shm>>
  PROVE  FrameInv'
  BY MemRight, KeptStep

LEMMA SpawnStep ==
  ASSUME IInv, NEW p \in Programs, Spawn(p)
  PROVE  IInv'
  <1>1. /\ UNCHANGED <<mem, img, live, brk, mapped, next, shm, hold, stolen, heap, areas>>
        /\ stage = "idle" /\ stage' = "header" /\ prog' = p /\ held' = held \cup {"arg", "file"}
    BY DEF Spawn, Call, Goto, Others
  <1>2. held' = {"arg", "file"}
    BY <1>1 DEF IInv, StageInv
  <1>3. prog' \in [dyn : BOOLEAN, segs : Seq(Segment)]
    BY <1>1, UserMemAssumption
  <1>4. FrameInv'
    BY <1>1, SameMemory
  <1> QED BY <1>1, <1>2, <1>3, <1>4
       DEF IInv, TypeInv, HoldInv, Holders, Whole, StageInv, HeapPaid

LEMMA HeaderStep ==
  ASSUME IInv, Header \/ Headers
  PROVE  IInv'
  <1>1. mem \in Kept(mem) /\ Others
    BY MemRight DEF Header, Headers
  <1>2. CASE Header /\ Abandon(mem, {"file"})
    <2>1. held \subseteq {"file"} \cup {"arg"}
      BY <1>2 DEF Header, IInv, StageInv
    <2> QED BY <1>1, <1>2, <2>1, AbandonStep
  <1>3. CASE Headers /\ Abandon(mem, {"file", "headers"})
    <2>1. held \subseteq {"file", "headers"} \cup {"arg"}
      BY <1>3 DEF Headers, IInv, StageInv
    <2> QED BY <1>1, <1>3, <2>1, AbandonStep
  <1>4. CASE \/ Header /\ Goto("headers", {"headers"}) /\ UNCHANGED <<mem, prog, img, waiting, live>>
             \/ Headers /\ Goto("segments", {}) /\ UNCHANGED <<mem, prog, img, waiting, live>>
    <2>1. UNCHANGED <<mem, img, live, prog, brk, mapped, next, shm, hold, stolen, heap, areas>>
      BY <1>1, <1>4 DEF Others
    <2>2. \/ stage' = "headers" /\ held' = held \cup {"headers"} /\ stage = "header"
          \/ stage' = "segments" /\ held' = held /\ stage = "headers"
      BY <1>4 DEF Header, Headers, Goto
    <2>3. held' = {"arg", "file", "headers"} /\ stage' \in {"headers", "segments"}
      BY <2>2 DEF IInv, StageInv
    <2>4. FrameInv'
      BY <2>1, SameMemory
    <2> QED BY <2>1, <2>3, <2>4 DEF IInv, TypeInv, HoldInv, Holders, Whole, StageInv, HeapPaid
  <1> QED BY <1>2, <1>3, <1>4 DEF Header, Headers

\* A block gets into the image.
LEMMA LoadedRight ==
  ASSUME IInv, NEW n \in Nat, NEW f \in Frame, Block(f, n) \subseteq mem.free,
         mem' \in Kept(Taken(mem, f, n)),
         img'.segs = Append(img.segs, [f |-> f, n |-> n]),
         UNCHANGED <<heap, areas, live, shm>>
  PROVE  FrameInv' /\ mem' \in Mem /\ img'.segs \in Seq(Segs)
  <1> DEFINE B == Block(f, n)
             e == [f |-> f, n |-> n]
  <1>1. e \in Segs /\ e.f = f /\ e.n = n /\ img.segs \in Seq(Segs)
    BY NatConstants DEF Frame, Segs, IInv, TypeInv
  <1>2. /\ mem' \in Mem /\ mem'.free \cap TabOf(mem') = {}
        /\ mem'.free \cup TabOf(mem') = (mem.free \ B) \cup TabOf(mem)
        /\ TabOf(mem)' = TabOf(mem') /\ B \subseteq mem.free
    BY GrantRight
  <1>3. ImageFrames(img') = ImageFrames(img) \cup B
    <2> HIDE DEF e
    <2>1. ImageFrames(img') = ImageFrames(img) \cup Block(e.f, e.n)
      BY <1>1, ImageAppend DEF e
    <2> QED BY <1>1, <2>1
  <1>4. img'.segs \in Seq(Segs)
    BY <1>1
  <1> HIDE DEF B, e
  <1>5. Split(mem'.free, TabOf(mem'), heap, areas, live, ImageFrames(img) \cup B, AllShm)
    BY <1>2, MemRight, SplitGrant
  <1>6. AllShm' = AllShm /\ ShmApart' /\ ImageFrames(img)' = ImageFrames(img')
    BY DEF AllShm, Shm, IInv, FrameInv, ShmApart, ImageFrames
  <1>7. FrameInv'
    BY <1>2, <1>3, <1>5, <1>6 DEF FrameInv
  <1> QED BY <1>2, <1>4, <1>7

\* What the loader takes and maps, whether it keeps it or not.
LEMMA TakenMapped ==
  ASSUME IInv, NEW p \in Int, NEW n \in Nat, NEW f, f = FirstFit(mem.free, n), f # NoFrame
  PROVE  /\ f \in Frame /\ Block(f, n) \subseteq mem.free
         /\ MapRange(Taken(mem, f, n), p, f, n) \in Kept(Taken(mem, f, n))
         /\ GivenBack(Taken(mem, f, n), f, n) \in Kept(mem)
         /\ GivenBack(MapRange(Taken(mem, f, n), p, f, n), f, n) \in Kept(mem)
  <1> DEFINE t == Taken(mem, f, n)
             m == MapRange(t, p, f, n)
  <1>1. f \in Frame /\ Block(f, n) \subseteq mem.free /\ t \in Mem /\ Apart(t)
    BY MemRight, TakenRight
  <1>2. f \in Int
    BY <1>1, NatConstants DEF Frame
  <1>3. m \in Kept(t)
    BY <1>1, <1>2, MapRangeKeeps
  <1>4. t \in Kept(t)
    BY <1>1 DEF Kept
  <1> HIDE DEF m
  <1>5. GivenBack(t, f, n) \in Kept(mem) /\ GivenBack(m, f, n) \in Kept(mem)
    BY <1>1, <1>3, <1>4, MemRight, GivenBackKeeps
  <1> QED BY <1>1, <1>3, <1>5 DEF m

LEMMA ImageRight ==
  ASSUME NEW q \in Seq(Segs), NEW a \in Nat \ {0}, NEW j, j = [segs |-> q, at |-> a]
  PROVE  j \in [segs : Seq(Segs), at : Nat \ {0}]
  OBVIOUS

LEMMA SegmentRight ==
  ASSUME IInv, SegmentStep
  PROVE  IInv'
  <1> DEFINE s == prog.segs[img.at]
             p == s.p + Base
             f == FirstFit(mem.free, s.n)
             t == Taken(mem, f, s.n)
             m == MapRange(t, p, f, s.n)
             paths == {"file", "headers"}
  <1>0. TypeInv /\ HeapPaid /\ HoldInv /\ StageInv /\ Others
    BY DEF IInv, SegmentStep
  <1>1. held \subseteq paths \cup {"arg"} /\ stage = "segments"
    BY DEF SegmentStep, IInv, StageInv
  <1>2. s.n \in Nat /\ p \in Int /\ img.at \in Nat
    <2>1. prog.segs \in Seq(Segment) /\ img.at \in 1 .. Len(prog.segs)
      BY <1>0 DEF TypeInv, SegmentStep
    <2>2. s \in Segment
      BY <2>1
    <2>3. s.p \in Page /\ s.n \in Nat
      BY <2>2 DEF Segment
    <2>4. s.p \in Int /\ Base \in Int
      BY <2>3, NatConstants DEF Page, Base
    <2> QED BY <2>1, <2>3, <2>4
  <1>3. ASSUME NEW w \in Kept(mem), Abandon(w, paths)
        PROVE  IInv'
    <2> HIDE DEF paths
    <2> QED BY <1>0, <1>1, <1>3, AbandonStep
  <1>4. CASE Abandon(mem, paths)
    BY <1>3, <1>4, MemRight
  <1>5. CASE img' = [img EXCEPT !.at = @ + 1] /\ UNCHANGED <<mem, stage, prog, held, waiting, live>>
    <2>1. img' \in [segs : Seq(Segs), at : Nat \ {0}] /\ img'.segs = img.segs
      <3>1. img \in [segs : Seq(Segs), at : Nat \ {0}]
        BY <1>0 DEF TypeInv
      <3>2. img' = [segs |-> img.segs, at |-> img.at + 1]
        BY <1>5, <3>1
      <3>3. img.segs \in Seq(Segs) /\ img.at + 1 \in Nat \ {0}
        BY <3>1
      <3> QED BY <3>2, <3>3, ImageRight
    <2>2. ImageFrames(img)' = ImageFrames(img)
      BY <2>1 DEF ImageFrames
    <2>3. UNCHANGED <<mem, stage, prog, held, live, brk, mapped, next, shm, hold, stolen, heap, areas>>
      BY <1>0, <1>5 DEF Others
    <2>4. FrameInv'
      BY <2>2, <2>3 DEF IInv, FrameInv, AllShm, ShmApart, Shm, TabOf
    <2> QED BY <1>0, <2>1, <2>3, <2>4 DEF IInv, TypeInv, HoldInv, Holders, Whole, StageInv, HeapPaid
  <1>6. CASE f # NoFrame /\ Abandon(GivenBack(t, f, s.n), paths)
    <2>1. GivenBack(t, f, s.n) \in Kept(mem)
      BY <1>2, <1>6, TakenMapped
    <2> QED BY <1>3, <1>6, <2>1
  <1>7. CASE f # NoFrame /\ Abandon(GivenBack(m, f, s.n), paths)
    <2>1. GivenBack(m, f, s.n) \in Kept(mem)
      BY <1>2, <1>7, TakenMapped
    <2> QED BY <1>3, <1>7, <2>1
  <1>8. CASE /\ f # NoFrame /\ mem' = m
             /\ img' = [segs |-> Append(img.segs, [f |-> f, n |-> s.n]), at |-> img.at + 1]
             /\ UNCHANGED <<stage, prog, held, waiting, live>>
    <2>1. f \in Frame /\ Block(f, s.n) \subseteq mem.free /\ mem' \in Kept(Taken(mem, f, s.n))
      BY <1>2, <1>8, TakenMapped
    <2>2. UNCHANGED <<stage, prog, held, live, brk, mapped, next, shm, hold, stolen, heap, areas>>
      BY <1>0, <1>8 DEF Others
    <2>3. /\ img'.segs = Append(img.segs, [f |-> f, n |-> s.n])
          /\ img' = [segs |-> img'.segs, at |-> img.at + 1]
      BY <1>8
    <2> HIDE DEF f, s
    <2>4. FrameInv' /\ mem' \in Mem /\ img'.segs \in Seq(Segs)
      BY <1>2, <2>1, <2>2, <2>3, LoadedRight
    <2>5. img' \in [segs : Seq(Segs), at : Nat \ {0}]
      <3>1. img.at + 1 \in Nat \ {0}
        BY <1>2
      <3> QED BY <2>3, <2>4, <3>1, ImageRight
    <2> QED BY <1>0, <2>2, <2>4, <2>5 DEF IInv, TypeInv, HoldInv, Holders, Whole, StageInv, HeapPaid
  <1> QED BY <1>4, <1>5, <1>6, <1>7, <1>8 DEF SegmentStep

LEMMA StackRight ==
  ASSUME IInv, Stack
  PROVE  IInv'
  <1> DEFINE f == FirstFit(mem.free, StackPages)
             m == MapRange(Taken(mem, f, StackPages), StackTop - StackPages, f, StackPages)
             paths == {"file", "headers"}
  <1>0. TypeInv /\ HeapPaid /\ HoldInv /\ StageInv /\ Others
    BY DEF IInv, Stack
  <1>1. held = paths \cup {"arg"} /\ stage = "segments"
    BY DEF Stack, IInv, StageInv
  <1>2. StackPages \in Nat /\ StackTop - StackPages \in Int
    BY NatConstants
  <1>3. ASSUME NEW w \in Kept(mem), Abandon(w, paths)
        PROVE  IInv'
    <2>1. held \subseteq paths \cup {"arg"}
      BY <1>1
    <2> HIDE DEF paths
    <2> QED BY <1>0, <1>3, <2>1, AbandonStep
  <1>4. CASE Abandon(mem, paths)
    BY <1>3, <1>4, MemRight
  <1>5. CASE f # NoFrame /\ Abandon(GivenBack(m, f, StackPages), paths)
    <2>1. GivenBack(m, f, StackPages) \in Kept(mem)
      BY <1>2, <1>5, TakenMapped
    <2> QED BY <1>3, <1>5, <2>1
  <1>6. CASE /\ f # NoFrame /\ mem' = m
             /\ img' = [img EXCEPT !.segs = Append(@, [f |-> f, n |-> StackPages])]
             /\ stage' = "thread" /\ held' = held \ paths
             /\ UNCHANGED <<prog, waiting, live>>
    <2>1. f \in Frame /\ Block(f, StackPages) \subseteq mem.free
          /\ mem' \in Kept(Taken(mem, f, StackPages))
      BY <1>2, <1>6, TakenMapped
    <2>2. UNCHANGED <<prog, live, brk, mapped, next, shm, hold, stolen, heap, areas>>
      BY <1>0, <1>6 DEF Others
    <2>3. /\ img'.segs = Append(img.segs, [f |-> f, n |-> StackPages])
          /\ img' = [segs |-> img'.segs, at |-> img.at] /\ img.at \in Nat \ {0}
      BY <1>0, <1>6 DEF TypeInv
    <2>4. stage' = "thread" /\ held' = {"arg"}
      BY <1>1, <1>6
    <2> HIDE DEF f
    <2>5. FrameInv' /\ mem' \in Mem /\ img'.segs \in Seq(Segs)
      BY <1>2, <2>1, <2>2, <2>3, LoadedRight
    <2>6. img' \in [segs : Seq(Segs), at : Nat \ {0}]
      BY <2>3, <2>5, ImageRight
    <2> QED BY <1>0, <2>2, <2>4, <2>5, <2>6 DEF IInv, TypeInv, HoldInv, Holders, Whole, StageInv, HeapPaid
  <1> QED BY <1>4, <1>5, <1>6 DEF Stack

LEMMA ThreadRight ==
  ASSUME IInv, Thread
  PROVE  IInv'
  <1>0. TypeInv /\ HeapPaid /\ HoldInv /\ StageInv /\ Others
    BY DEF IInv, Thread
  <1>1. held = {"arg"}
    BY DEF Thread, IInv, StageInv
  <1>2. CASE Abandon(mem, {})
    <2>1. held \subseteq {} \cup {"arg"}
      BY <1>1
    <2> QED BY <1>0, <1>2, <2>1, MemRight, AbandonStep
  <1>3. CASE /\ stage' = "idle" /\ prog' = NoProgram /\ img' = NoImage
             /\ held' = held \ {"arg"} /\ live' = live \cup ImageFrames(img)
             /\ UNCHANGED mem
    <2>1. UNCHANGED <<mem, brk, mapped, next, shm, hold, stolen, heap, areas>>
      BY <1>0, <1>3 DEF Others
    <2>2. Split(mem.free, TabOf(mem), heap, areas, live', {}, AllShm)
      BY <1>3, MemRight, SplitImage
    <2>3. ImageFrames(img)' = {} /\ TabOf(mem)' = TabOf(mem) /\ AllShm' = AllShm /\ ShmApart'
      <3>1. ImageFrames(img)' = {}
        BY <1>3 DEF ImageFrames, NoImage
      <3>2. TabOf(mem)' = TabOf(mem)
        BY <2>1 DEF TabOf
      <3>3. AllShm' = AllShm /\ ShmApart'
        BY <2>1 DEF AllShm, Shm, ShmApart, IInv, FrameInv
      <3> QED BY <3>1, <3>2, <3>3
    <2>4. FrameInv'
      BY <2>1, <2>2, <2>3 DEF FrameInv
    <2>5. live' \in SUBSET Frame
      BY <2>2 DEF Split
    <2>6. /\ prog' \in [dyn : BOOLEAN, segs : Seq(Segment)]
          /\ img' \in [segs : Seq(Segs), at : Nat \ {0}]
      BY <1>3 DEF NoProgram, NoImage
    <2>7. stage' = "idle" /\ held' = {}
      BY <1>1, <1>3
    <2> QED BY <1>0, <2>1, <2>4, <2>5, <2>6, <2>7
         DEF IInv, TypeInv, HoldInv, Holders, Whole, StageInv, HeapPaid
  <1> QED BY <1>2, <1>3 DEF Thread

\* A program begins to run, or nothing happens.
LEMMA SameStep ==
  ASSUME IInv, Enter \/ UNCHANGED vars
  PROVE  IInv'
  <1>1. UNCHANGED <<mem, brk, mapped, next, shm, hold, stolen, stage, prog, img, held, live, heap, areas>>
    BY DEF Enter, Others, vars, loader
  <1>2. FrameInv'
    BY <1>1, SameMemory
  <1> QED BY <1>1, <1>2 DEF IInv, TypeInv, HoldInv, Holders, Whole, StageInv, HeapPaid

-----------------------------------------------------------------------------
(* The theorems                                                            *)

LEMMA InitRight == Init => IInv
  <1> SUFFICES ASSUME Init PROVE IInv
    OBVIOUS
  <1> USE DEF Init
  <1>1. DOMAIN mem.tab = {} /\ TabOf(mem) = {}
    BY DEF TabOf
  <1>2. mem \in Mem
    <2>1. <<>> \in [{} -> Frame] /\ {} \in SUBSET Node
      OBVIOUS
    <2>2. mem.tab \in UNION {[D -> Frame] : D \in SUBSET Node}
      BY <2>1
    <2>3. mem.pte \in [Page -> Int]
      BY DEF NoFrame
    <2> QED BY <2>2, <2>3 DEF Mem
  <1>3. brk \in Nat /\ mapped \in Nat /\ next \in Nat /\ mapped = HeapBase
        /\ brk <= mapped * PageSize
    BY NatConstants
  <1>4. shm \in [Region -> ShmRecord]
    BY DEF ShmRecord, NoRegion, NoFrame
  <1>5. hold \in [Proc -> [r : {0} \cup Region, va : Int]]
    BY DEF Nothing
  <1>6. /\ prog \in [dyn : BOOLEAN, segs : Seq(Segment)]
        /\ img \in [segs : Seq(Segs), at : Nat \ {0}]
    BY DEF NoProgram, NoImage
  <1>7. TypeInv
    BY <1>2, <1>3, <1>4, <1>5, <1>6 DEF TypeInv
  <1>8. \A r \in Region : ~shm[r].valid /\ Shm(r) = {}
    BY DEF NoRegion, Shm
  <1>9. FrameInv
    <2>1. AllShm = {} /\ ImageFrames(img) = {} /\ mem.free = Frame
      BY <1>8 DEF AllShm, ImageFrames, NoImage
    <2>2. heap = {} /\ areas = {} /\ live = {}
      OBVIOUS
    <2>3. Split(Frame, {}, {}, {}, {}, {}, {})
      BY DEF Split
    <2> QED BY <1>1, <1>8, <2>1, <2>2, <2>3 DEF FrameInv, ShmApart
  <1>10. HoldInv
    BY <1>8 DEF HoldInv, Nothing, Whole, Region
  <1>11. HeapPaid
    <2>1. Cardinality({}) = 0
      BY FS_EmptySet
    <2>2. mapped - HeapBase = 0 /\ heap = {}
      BY <1>3, NatConstants
    <2> QED BY <1>3, <2>1, <2>2 DEF HeapPaid
  <1>12. StageInv
    BY DEF StageInv
  <1> QED BY <1>7, <1>9, <1>10, <1>11, <1>12 DEF IInv

LEMMA NextRight == IInv /\ [Next]_vars => IInv'
  <1> SUFFICES ASSUME IInv, [Next]_vars PROVE IInv'
    OBVIOUS
  <1>1. CASE Memory
    <2>1. CASE \E b \in HeapBase * PageSize .. HeapMax * PageSize : Brk(b)
      BY <2>1, BrkStep
    <2>2. CASE \E n \in Lengths, at \in Fixed : Mmap(at, n) \/ MmapUnread(at, n)
      BY <2>2, MmapStep, MmapUnreadStep
    <2>3. CASE \E p \in Fixed, n \in Lengths : Munmap(p, n)
      BY <2>3, MunmapStep
    <2> QED BY <1>1, <2>1, <2>2, <2>3 DEF Memory
  <1>2. CASE Shared
    <2> SUFFICES ASSUME NEW x \in Proc,
                        \/ \E name \in Name, n \in Lengths, create \in BOOLEAN :
                             ShmGet(x, name, n, create)
                        \/ \E at \in Fixed : ShmAt(x, at)
                        \/ \E r \in Region, va \in Fixed \cup ({hold[x].va} \ {-1}) :
                             ShmDetach(x, r, va)
                 PROVE  IInv'
      BY <1>2 DEF Shared
    <2>1. Fixed \cup ({hold[x].va} \ {-1}) \subseteq Int
      <3>1. Fixed \subseteq Nat
        BY UserMemAssumption
      <3>2. hold \in [Proc -> [r : {0} \cup Region, va : Int]]
        BY DEF IInv, TypeInv
      <3>3. hold[x].va \in Int
        BY <3>2
      <3>4. Nat \subseteq Int
        OBVIOUS
      <3> QED BY <3>1, <3>3, <3>4, Zenon
    <2>2. CASE \E r \in Region, va \in Fixed \cup ({hold[x].va} \ {-1}) : ShmDetach(x, r, va)
      <3>1. PICK r \in Region, va \in Int : ShmDetach(x, r, va)
        BY <2>1, <2>2
      <3> QED BY <3>1, ShmDetachStep
    <2> QED BY <2>2, ShmGetStep, ShmAtStep
  <1>3. CASE Loader
    BY <1>3, SpawnStep, HeaderStep, SegmentRight, StackRight, ThreadRight, SameStep DEF Loader
  <1>4. CASE UNCHANGED vars
    BY <1>4, SameStep
  <1> QED BY <1>1, <1>2, <1>3, <1>4 DEF Next

\* The types hold and every frame is in exactly one place, in every state.
THEOREM Invariance == Spec => []IInv
  BY InitRight, NextRight, PTL DEF Spec

\* No frame is handed out twice or given back by one who does not have it
\* (brk, mmap, shared memory, the error paths of elf64_load).
THEOREM FramesOwnedOnce == Spec => []OwnedOnce
  <1>1. IInv => OwnedOnce
    BY SplitOwners DEF IInv, FrameInv
  <1> QED BY <1>1, Invariance, PTL

\* Every call that fails, at whatever page or header, has given back what it
\* took, page tables apart.
THEOREM NoFrameLost == Spec => []NoneLost
  <1>1. IInv => NoneLost
    BY SplitOwners DEF IInv, FrameInv, StageInv, NoneLost
  <1> QED BY <1>1, Invariance, PTL

\* The heap has one frame for each page below g_brk_mapped (sys_brk).
THEOREM HeapIsPaid == Spec => []HeapPaid
  <1>1. IInv => HeapPaid
    BY DEF IInv
  <1> QED BY <1>1, Invariance, PTL

\* A region of shared memory is not freed, or its slot used again, while
\* somebody holds it (sys_shm_get, sys_shm_detach), unless one who had not
\* attached it has detached it.
THEOREM AttachedIsKept == Spec => []AttachedKept
  <1>1. IInv => AttachedKept
    <2> SUFFICES ASSUME IInv, NEW x \in Proc, hold[x] # Nothing, hold[x].r \notin stolen
                 PROVE  /\ shm[hold[x].r].valid
                        /\ Shm(hold[x].r) \cap mem.free = {}
                        /\ shm[hold[x].r].ref = Cardinality(Holders(hold[x].r))
      BY DEF AttachedKept, Holders
    <2>1. hold[x].r # 0
      BY DEF IInv, HoldInv, TypeInv, Nothing
    <2>2. hold[x].r \in Region
      BY <2>1 DEF IInv, TypeInv
    <2>3. shm[hold[x].r].valid /\ shm[hold[x].r].ref = Cardinality(Holders(hold[x].r))
      BY <2>1, <2>2 DEF IInv, HoldInv, Whole
    <2>4. Shm(hold[x].r) \subseteq AllShm /\ AllShm \cap mem.free = {}
      BY <2>2, MemRight DEF AllShm, Split
    <2> QED BY <2>3, <2>4
  <1> QED BY <1>1, Invariance, PTL
=============================================================================
