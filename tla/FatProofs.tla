------------------------------ MODULE FatProofs ------------------------------
(***************************************************************************)
(* For a volume of any size, any names and any calls: what a crash leaves  *)
(* of the entries no call is about, where the clusters are between two     *)
(* calls, and whether the table in memory knows that it is not written.    *)
(* A chain is the path that runs through it (Path), a call is the disks it *)
(* leads through, one sector write each (Leads).                           *)
(***************************************************************************)
EXTENDS Fat, FiniteSetTheorems, WellFoundedInduction, TLAPS

LEMMA LeastNat ==
  ASSUME NEW S \in SUBSET Nat, S # {}
  PROVE  \E m \in S : \A n \in S : m <= n
<1> DEFINE R == {p \in Nat \X Nat : p[1] < p[2]}
<1>1. IsWellFoundedOn(R, Nat)
  BY NatLessThanWellFounded, Zenon DEF OpToRel
<1>2. PICK m \in S : \A n \in S : <<n, m>> \notin R
  <2> HIDE DEF R
  <2> QED
    BY <1>1, WFMin
<1>3. \A n \in S : m <= n
  <2> SUFFICES ASSUME NEW n \in S, n < m PROVE FALSE
    OBVIOUS
  <2>1. <<n, m>> \in Nat \X Nat /\ <<n, m>>[1] < <<n, m>>[2]
    OBVIOUS
  <2>2. <<n, m>> \in R
    BY <2>1
  <2> QED
    BY <1>2, <2>2
<1> QED
  BY <1>3

\* What is true of 0, and of k when it is true of k - 1, is true up to n.
LEMMA UpTo ==
  ASSUME NEW n \in Nat, NEW T, 0 \in T,
         \A k \in 1 .. n : k - 1 \in T => k \in T
  PROVE  \A k \in 0 .. n : k \in T
<1> DEFINE Missing == {k \in 0 .. n : k \notin T}
<1>1. SUFFICES ASSUME Missing # {} PROVE FALSE
  OBVIOUS
<1>2. PICK k \in Missing : \A l \in Missing : k <= l
  <2>1. Missing \in SUBSET Nat
    OBVIOUS
  <2> HIDE DEF Missing
  <2> QED
    BY <1>1, <2>1, LeastNat
<1>3. k \in 1 .. n /\ k - 1 \in 0 .. n /\ ~(k <= k - 1)
  OBVIOUS
<1>4. k - 1 \in T
  BY <1>2, <1>3
<1> QED
  BY <1>3, <1>4

Steps(K, S) == [1 .. K -> [S -> S]]
IsRun(f, K, S, a, g) ==
  f \in [0 .. K -> S] /\ f[0] = a /\ \A k \in 1 .. K : f[k] = g[k][f[k - 1]]

\* A loop has a value after each round.
LEMMA Iterated ==
  ASSUME NEW K \in Nat, NEW S, NEW a \in S, NEW g \in Steps(K, S)
  PROVE  \E f : IsRun(f, K, S, a, g)
<1> DEFINE Follows(f, n) == f[0] = a /\ \A k \in 1 .. n : f[k] = g[k][f[k - 1]]
           T == {n \in 0 .. K : \E f \in [0 .. n -> S] : Follows(f, n)}
<1> USE DEF Steps
<1>1. 0 \in T
  <2>1. [k \in 0 .. 0 |-> a] \in [0 .. 0 -> S] /\ Follows([k \in 0 .. 0 |-> a], 0)
    OBVIOUS
  <2>2. 0 \in 0 .. K
    OBVIOUS
  <2> QED
    BY <2>1, <2>2
<1>2. ASSUME NEW n \in 1 .. K, n - 1 \in T
      PROVE  n \in T
  <2>1. PICK f \in [0 .. n - 1 -> S] : Follows(f, n - 1)
    BY <1>2
  <2>2. n - 1 \in 0 .. n - 1 /\ g[n][f[n - 1]] \in S
    OBVIOUS
  <2> DEFINE h == [k \in 0 .. n |-> IF k = n THEN g[n][f[n - 1]] ELSE f[k]]
  <2>3. h \in [0 .. n -> S]
    BY <2>2
  <2>4. \A k \in 0 .. n - 1 : h[k] = f[k]
    OBVIOUS
  <2>5. h[n] = g[n][h[n - 1]]
    <3>1. n \in 0 .. n /\ h[n - 1] = f[n - 1]
      BY <2>2, <2>4
    <3>2. h[n] = g[n][f[n - 1]]
      BY <3>1
    <3> HIDE DEF h
    <3> QED
      BY <3>1, <3>2
  <2> HIDE DEF h
  <2>6. h[0] = a
    BY <2>1, <2>4
  <2>7. ASSUME NEW k \in 1 .. n
        PROVE  h[k] = g[k][h[k - 1]]
    <3>1. CASE k = n
      BY <2>5, <3>1
    <3>2. CASE k # n
      <4>1. k \in 1 .. n - 1 /\ k \in 0 .. n - 1 /\ k - 1 \in 0 .. n - 1
        BY <3>2
      <4> QED
        BY <2>1, <2>4, <4>1
    <3> QED
      BY <3>1, <3>2
  <2> QED
    BY <2>3, <2>6, <2>7
<1>3. K \in T
  <2> HIDE DEF T
  <2>1. \A k \in 0 .. K : k \in T
    BY <1>1, <1>2, UpTo
  <2> QED
    BY <2>1
<1>4. PICK f \in [0 .. K -> S] : Follows(f, K)
  <2> HIDE DEF Follows
  <2> QED
    BY <1>3
<1> QED
  BY <1>4 DEF IsRun

-----------------------------------------------------------------------------
(* Chains                                                                  *)

Rng(p) == {p[i] : i \in 1 .. Len(p)}

LEMMA ClusterRight ==
  /\ N \in Nat \ {0} /\ IsFiniteSet(Cluster) /\ Cardinality(Cluster) = N
  /\ Cluster \subseteq Nat /\ 0 \notin Cluster /\ Root \in Cluster
  /\ FREE \notin Cluster /\ EOC \notin Cluster /\ EOC # FREE /\ EOC \in Nat
  /\ FREE = 0
<1>1. N \in Nat \ {0}
  BY VolumeAssumption
<1>2. /\ Cluster \subseteq Nat /\ 0 \notin Cluster /\ Root \in Cluster
      /\ FREE \notin Cluster /\ EOC \notin Cluster /\ EOC # FREE /\ EOC \in Nat
  BY <1>1 DEF Cluster, Root, FREE, EOC
<1>3. IsFiniteSet(Cluster) /\ Cardinality(Cluster) = N
  <2>1. N + 1 \in Int /\ ~(2 > N + 1) /\ (N + 1) - 2 + 1 = N
    BY <1>1
  <2> QED
    BY <2>1, FS_Interval DEF Cluster
<1> QED
  BY <1>1, <1>2, <1>3 DEF FREE

\* The loops of Chain and ChainSeq, and that they have a value.
IsReach(r, f, c) ==
  r = [n \in 0 .. N |-> IF n = 0 THEN {c} \cap Cluster
                        ELSE r[n - 1] \cup ({f[x] : x \in r[n - 1]} \cap Cluster)]

\* A way through the table that meets no cluster twice and leaves the table.
Walk(f, c, p) ==
  /\ p \in Seq(Cluster)
  /\ p = <<>> => c \notin Cluster
  /\ p # <<>> => c = p[1]
  /\ \A i, j \in 1 .. Len(p) : p[i] = p[j] => i = j
  /\ \A i \in 1 .. Len(p) :
       IF i < Len(p) THEN f[p[i]] = p[i + 1] ELSE f[p[i]] \notin Cluster

LEMMA WalkLength ==
  ASSUME NEW p \in Seq(Cluster), \A i, j \in 1 .. Len(p) : p[i] = p[j] => i = j
  PROVE  /\ Len(p) \in Nat /\ Len(p) <= N
         /\ IsFiniteSet(Rng(p)) /\ Cardinality(Rng(p)) = Len(p) /\ Rng(p) \subseteq Cluster
<1> DEFINE S == 1 .. Len(p)
           T == Rng(p)
<1>1. T \subseteq Cluster /\ Len(p) \in Nat /\ p \in [S -> T]
  BY DEF Rng
<1>2. IsFiniteSet(T) /\ Cardinality(T) <= N
  BY <1>1, ClusterRight, FS_Subset
<1>3. IsFiniteSet(S) /\ Cardinality(S) = Len(p)
  BY <1>1, FS_Interval
<1>4. p \in Injection(S, T)
  BY <1>1 DEF Injection, IsInjective
<1>5. p \in Surjection(S, T)
  BY <1>1 DEF Surjection, Rng
<1>6. Cardinality(S) = Cardinality(T)
  <2> HIDE DEF S, T
  <2>1. Cardinality(S) = Cardinality(T) <=> p \in Surjection(S, T)
    BY <1>2, <1>4, FS_Injection
  <2> QED
    BY <1>5, <2>1
<1> QED
  BY <1>1, <1>2, <1>3, <1>6

\* The sets that Chain computes are those of the first clusters of the way.
LEMMA ReachRight ==
  ASSUME NEW f, NEW c, NEW p, Walk(f, c, p), NEW r, IsReach(r, f, c)
  PROVE  r[N] = Rng(p)
<1> DEFINE S(n) == {p[i] : i \in {j \in 1 .. Len(p) : j <= n + 1}}
           T == {n \in 0 .. N : r[n] = S(n)}
<1>1. N \in Nat \ {0} /\ Len(p) \in Nat /\ Len(p) <= N /\ p \in [1 .. Len(p) -> Cluster]
  BY ClusterRight, WalkLength DEF Walk
<1>2. 0 \in T
  <2>1. r[0] = {c} \cap Cluster
    BY <1>1 DEF IsReach
  <2>2. {c} \cap Cluster = S(0)
    <3>1. CASE p = <<>>
      BY <3>1 DEF Walk
    <3>2. CASE p # <<>>
      <4>1. Len(p) >= 1 /\ {j \in 1 .. Len(p) : j <= 0 + 1} = {1} /\ c = p[1] /\ c \in Cluster
        BY <1>1, <3>2 DEF Walk
      <4> QED
        BY <4>1
    <3> QED
      BY <3>1, <3>2
  <2> QED
    BY <1>1, <2>1, <2>2
<1>3. ASSUME NEW n \in 1 .. N, n - 1 \in T
      PROVE  n \in T
  <2>1. r[n] = r[n - 1] \cup ({f[x] : x \in r[n - 1]} \cap Cluster)
    <3>1. n \in 0 .. N /\ n # 0
      OBVIOUS
    <3> QED
      BY <3>1 DEF IsReach
  <2>2. r[n - 1] = S(n - 1)
    BY <1>3
  <2>3. ASSUME NEW y \in r[n] PROVE y \in S(n)
    <3>1. CASE y \in S(n - 1)
      <4>1. PICK i \in 1 .. Len(p) : i <= (n - 1) + 1 /\ y = p[i]
        BY <3>1
      <4>2. i <= n + 1
        BY <1>1, <4>1
      <4> QED
        BY <4>1, <4>2
    <3>2. CASE y \notin S(n - 1)
      <4>1. PICK x \in S(n - 1) : y = f[x] /\ y \in Cluster
        BY <2>1, <2>2, <2>3, <3>2
      <4>2. PICK i \in 1 .. Len(p) : i <= (n - 1) + 1 /\ x = p[i]
        BY <4>1
      <4>3. i < Len(p) /\ y = p[i + 1]
        BY <1>1, <4>1, <4>2 DEF Walk
      <4>4. i + 1 \in {j \in 1 .. Len(p) : j <= n + 1}
        BY <1>1, <4>2, <4>3
      <4> QED
        BY <4>3, <4>4
    <3> QED
      BY <3>1, <3>2
  <2>4. ASSUME NEW y \in S(n) PROVE y \in r[n]
    <3>1. PICK i \in 1 .. Len(p) : i <= n + 1 /\ y = p[i]
      BY <2>4
    <3>2. CASE i <= n
      <4>1. i \in {j \in 1 .. Len(p) : j <= (n - 1) + 1}
        BY <1>1, <3>2
      <4>2. y \in S(n - 1)
        BY <3>1, <4>1
      <4> QED
        BY <2>1, <2>2, <4>2
    <3>3. CASE i = n + 1
      <4>1. n \in {j \in 1 .. Len(p) : j <= (n - 1) + 1} /\ n < Len(p)
        BY <1>1, <3>3
      <4>2. p[n] \in S(n - 1) /\ f[p[n]] = p[n + 1] /\ p[n + 1] \in Cluster
        BY <1>1, <4>1 DEF Walk
      <4> QED
        BY <2>1, <2>2, <3>1, <3>3, <4>2
    <3> QED
      BY <1>1, <3>1, <3>2, <3>3
  <2> QED
    BY <2>3, <2>4
<1>4. \A n \in 0 .. N : n \in T
  <2> HIDE DEF T
  <2> QED
    BY <1>1, <1>2, <1>3, UpTo
<1>5. S(N) = Rng(p)
  BY <1>1 DEF Rng
<1>6. N \in T
  BY <1>1, <1>4
<1> QED
  BY <1>5, <1>6

\* There are such sets, also where the table has a cycle.
LEMMA ReachExists ==
  ASSUME NEW f, NEW c
  PROVE  \E r : IsReach(r, f, c) /\ r \in [0 .. N -> SUBSET Cluster]
<1> DEFINE X == SUBSET Cluster
           step(S) == S \cup ({f[x] : x \in S} \cap Cluster)
           g == [k \in 1 .. N |-> [S \in X |-> step(S)]]
           a == {c} \cap Cluster
<1>1. N \in Nat
  BY ClusterRight
<1>2. g \in Steps(N, X) /\ a \in X
  BY DEF Steps
<1>3. PICK r : IsRun(r, N, X, a, g)
  <2> HIDE DEF X, g, a
  <2> QED
    BY <1>1, <1>2, Iterated
<1>4. ASSUME NEW k \in 1 .. N
      PROVE  k - 1 \in 0 .. N /\ r[k - 1] \in X /\ r[k] = step(r[k - 1])
  <2>1. k - 1 \in 0 .. N /\ k \in 0 .. N
    BY <1>1
  <2>2. r[k - 1] \in X /\ r[k] = g[k][r[k - 1]]
    <3> HIDE DEF X, g
    <3> QED
      BY <1>1, <1>3, <2>1 DEF IsRun
  <2> QED
    BY <2>1, <2>2
<1>5. \A k \in 0 .. N : r[k] = IF k = 0 THEN {c} \cap Cluster ELSE step(r[k - 1])
  BY <1>1, <1>3, <1>4 DEF IsRun
<1>6. r \in [0 .. N -> X]
  BY <1>3 DEF IsRun
<1> QED
  BY <1>5, <1>6 DEF IsReach

LEMMA ChainReach ==
  ASSUME NEW f, NEW c
  PROVE  \E r : IsReach(r, f, c) /\ Chain(f, c) = r[N]
<1> DEFINE r == CHOOSE r : IsReach(r, f, c)
<1>1. IsReach(r, f, c)
  BY ReachExists
<1>2. Chain(f, c) = r[N]
  BY DEF Chain, IsReach
<1> QED
  BY <1>1, <1>2

LEMMA ReachUnique ==
  ASSUME NEW f, NEW c, NEW r, NEW s, IsReach(r, f, c), IsReach(s, f, c)
  PROVE  r = s
<1> DEFINE T == {n \in 0 .. N : r[n] = s[n]}
<1>1. N \in Nat
  BY ClusterRight
<1>2. 0 \in T
  BY <1>1 DEF IsReach
<1>3. ASSUME NEW n \in 1 .. N, n - 1 \in T
      PROVE  n \in T
  <2>1. n \in 0 .. N /\ n # 0 /\ r[n - 1] = s[n - 1]
    BY <1>3
  <2>2. /\ r[n] = r[n - 1] \cup ({f[x] : x \in r[n - 1]} \cap Cluster)
        /\ s[n] = s[n - 1] \cup ({f[x] : x \in s[n - 1]} \cap Cluster)
    BY <2>1 DEF IsReach
  <2> QED
    BY <2>1, <2>2
<1>4. \A n \in 0 .. N : n \in T
  <2> HIDE DEF T
  <2> QED
    BY <1>1, <1>2, <1>3, UpTo
<1>5. \A n \in 0 .. N : r[n] = s[n]
  BY <1>4
<1> QED
  BY <1>5 DEF IsReach

LEMMA ChainType ==
  ASSUME NEW f, NEW c
  PROVE  /\ Chain(f, c) \subseteq Cluster /\ IsFiniteSet(Chain(f, c))
         /\ Cardinality(Chain(f, c)) \in Nat
         /\ ChainSeq(f, c) = [n \in 1 .. Cardinality(Chain(f, c)) |-> ChainSeq(f, c)[n]]
<1>1. PICK r : IsReach(r, f, c) /\ r \in [0 .. N -> SUBSET Cluster]
  BY ReachExists
<1>2. Chain(f, c) = r[N] /\ N \in 0 .. N
  BY <1>1, ReachUnique, ChainReach, ClusterRight
<1>3. Chain(f, c) \subseteq Cluster
  BY <1>1, <1>2
<1>4. IsFiniteSet(Chain(f, c)) /\ Cardinality(Chain(f, c)) \in Nat
  BY <1>3, ClusterRight, FS_Subset, FS_CardinalityType
<1>5. ChainSeq(f, c) = [n \in 1 .. Cardinality(Chain(f, c)) |-> ChainSeq(f, c)[n]]
  BY DEF ChainSeq
<1> QED
  BY <1>3, <1>4, <1>5

IsWay(w, f, c) ==
  w = [n \in 1 .. N |-> IF n = 1 THEN c
                        ELSE IF w[n - 1] \in Cluster THEN f[w[n - 1]] ELSE EOC]

\* Chain is the set of the clusters on the way, ChainSeq is the way.
LEMMA WalkRight ==
  ASSUME NEW f, NEW c, NEW p, Walk(f, c, p)
  PROVE  /\ Chain(f, c) = Rng(p) /\ Cardinality(Chain(f, c)) = Len(p)
         /\ ChainSeq(f, c) = p
<1> DEFINE L == Len(p)
           after == IF L = 0 THEN c ELSE f[p[L]]
           v == [n \in 1 .. N |-> IF n <= L THEN p[n] ELSE IF n = L + 1 THEN after ELSE EOC]
           w == CHOOSE w : IsWay(w, f, c)
           T == {n \in 0 .. N : n <= L => n = 0 \/ w[n] = p[n]}
<1>1. L \in Nat /\ L <= N /\ p \in [1 .. L -> Cluster] /\ N \in Nat \ {0} /\ p \in Seq(Cluster)
  BY ClusterRight, WalkLength DEF Walk
<1>2. PICK r : IsReach(r, f, c) /\ Chain(f, c) = r[N]
  BY ChainReach
<1>3. Chain(f, c) = Rng(p) /\ Cardinality(Chain(f, c)) = L
  <2>1. r[N] = Rng(p)
    BY <1>2, ReachRight
  <2>2. Cardinality(Rng(p)) = L
    BY WalkLength DEF Walk
  <2> QED
    BY <1>2, <2>1, <2>2
<1>4. after \notin Cluster /\ EOC \notin Cluster
  <2>1. CASE L = 0
    BY <1>1, <2>1, ClusterRight DEF Walk
  <2>2. CASE L # 0
    BY <1>1, <2>2, ClusterRight DEF Walk
  <2> QED
    BY <2>1, <2>2
<1>5. IsWay(v, f, c)
  <2>1. v[1] = c
    <3>1. CASE L = 0
      BY <1>1, <3>1
    <3>2. CASE L # 0
      <4>1. p # <<>> /\ 1 <= L
        BY <1>1, <3>2
      <4> QED
        BY <1>1, <4>1 DEF Walk
    <3> QED
      BY <3>1, <3>2
  <2>2. ASSUME NEW n \in 1 .. N, n # 1
        PROVE  v[n] = IF v[n - 1] \in Cluster THEN f[v[n - 1]] ELSE EOC
    <3>1. n - 1 \in 1 .. N /\ n - 1 # n
      BY <1>1, <2>2
    <3>2. CASE n <= L
      <4>1. v[n - 1] = p[n - 1] /\ p[n - 1] \in Cluster /\ v[n] = p[n]
        BY <1>1, <3>1, <3>2
      <4>2. f[p[n - 1]] = p[(n - 1) + 1] /\ (n - 1) + 1 = n
        BY <1>1, <3>1, <3>2 DEF Walk
      <4> QED
        BY <4>1, <4>2
    <3>3. CASE n = L + 1
      <4>0. n - 1 = L /\ L # 0 /\ ~(n <= L) /\ n - 1 <= L
        BY <1>1, <2>2, <3>3
      <4>1. v[n] = after /\ v[n - 1] = p[L] /\ p[L] \in Cluster
        <5>1. v[n] = IF n <= L THEN p[n] ELSE IF n = L + 1 THEN after ELSE EOC
          OBVIOUS
        <5>2. v[n - 1] = p[n - 1]
          BY <3>1, <4>0
        <5>3. L \in 1 .. L
          BY <1>1, <4>0
        <5> HIDE DEF v, after
        <5> QED
          BY <1>1, <3>3, <4>0, <5>1, <5>2, <5>3
      <4>2. after = f[p[L]]
        BY <4>0
      <4> QED
        BY <4>1, <4>2
    <3>4. CASE n > L + 1
      <4>1. v[n] = EOC /\ v[n - 1] \notin Cluster
        BY <1>1, <1>4, <3>1, <3>4
      <4> QED
        BY <4>1
    <3> QED
      BY <1>1, <3>2, <3>3, <3>4
  <2>3. \A n \in 1 .. N : v[n] = IF n = 1 THEN c
                               ELSE IF v[n - 1] \in Cluster THEN f[v[n - 1]] ELSE EOC
    BY <2>1, <2>2
  <2>4. v = [n \in 1 .. N |-> v[n]]
    OBVIOUS
  <2> HIDE DEF v
  <2> QED
    BY <2>3, <2>4 DEF IsWay
<1>6. IsWay(w, f, c)
  BY <1>5
<1>7. ChainSeq(f, c) = [n \in 1 .. L |-> w[n]]
  BY <1>3 DEF ChainSeq, IsWay
<1> HIDE DEF w
<1>8. 0 \in T
  BY <1>1
<1>9. ASSUME NEW n \in 1 .. N, n - 1 \in T
      PROVE  n \in T
  <2> SUFFICES ASSUME n <= L PROVE w[n] = p[n]
    BY <1>1
  <2>1. w[n] = IF n = 1 THEN c ELSE IF w[n - 1] \in Cluster THEN f[w[n - 1]] ELSE EOC
    BY <1>6 DEF IsWay
  <2>2. CASE n = 1
    <3>1. p # <<>>
      BY <1>1, <2>2
    <3> QED
      BY <2>1, <2>2, <3>1 DEF Walk
  <2>3. CASE n # 1
    <3>1. w[n - 1] = p[n - 1] /\ p[n - 1] \in Cluster /\ n - 1 \in 1 .. L /\ n - 1 < L
      BY <1>1, <1>9, <2>3
    <3>2. f[p[n - 1]] = p[(n - 1) + 1] /\ (n - 1) + 1 = n
      BY <3>1 DEF Walk
    <3> QED
      BY <2>1, <2>3, <3>1, <3>2
  <2> QED
    BY <2>2, <2>3
<1>10. \A n \in 0 .. N : n \in T
  <2> HIDE DEF T
  <2> QED
    BY <1>1, <1>8, <1>9, UpTo
<1>11. \A n \in 1 .. L : w[n] = p[n]
  BY <1>1, <1>10
<1>12. ChainSeq(f, c) = p
  BY <1>1, <1>7, <1>11
<1> QED
  BY <1>3, <1>12

\* A path ends with EOC, which is no cluster.
LEMMA PathWalk ==
  ASSUME NEW f, NEW c, NEW p \in Seq(Cluster), Path(f, c, p)
  PROVE  Walk(f, c, p)
  BY ClusterRight DEF Path, Walk

\* A path there is for the way that ChainSeq goes.
LEMMA PathExists ==
  ASSUME NEW f, NEW c, Path(f, c, ChainSeq(f, c))
  PROVE  /\ ChainSeq(f, c) \in Seq(Cluster) /\ Len(ChainSeq(f, c)) = Cardinality(Chain(f, c))
         /\ Rng(ChainSeq(f, c)) = Chain(f, c)
<1> DEFINE p == ChainSeq(f, c)
           L == Cardinality(Chain(f, c))
<1>1. L \in Nat /\ p = [n \in 1 .. L |-> p[n]]
  BY ChainType
<1>2. Len(p) = L
  <2> HIDE DEF p, L
  <2> QED
    BY <1>1
<1>3. \A n \in 1 .. L : p[n] \in Cluster
  BY <1>2 DEF Path
<1>4. p \in Seq(Cluster)
  <2> HIDE DEF p, L
  <2> QED
    BY <1>1, <1>3
<1> QED
  BY <1>2, <1>4, PathWalk, WalkRight

-----------------------------------------------------------------------------
(* The table                                                               *)

Mem == [fat : Table, dirty : BOOLEAN, next : Nat, free : Nat]
Used(f) == {c \in Cluster : f[c] # FREE}

\* Tabled, with the paths named.
LaidOut(f, F, P) ==
  /\ P \in [DOMAIN F -> Seq(Cluster)]
  /\ \A o \in DOMAIN F : Path(f, F[o], P[o])
  /\ \A o, q \in DOMAIN F : o # q => Rng(P[o]) \cap Rng(P[q]) = {}
  /\ Used(f) = UNION {Rng(P[o]) : o \in DOMAIN F}

LEMMA TabledLaid ==
  ASSUME NEW f, NEW F, Tabled(f, F)
  PROVE  LaidOut(f, F, [o \in DOMAIN F |-> ChainSeq(f, F[o])])
<1> DEFINE P == [o \in DOMAIN F |-> ChainSeq(f, F[o])]
<1>1. ASSUME NEW o \in DOMAIN F
      PROVE  P[o] \in Seq(Cluster) /\ Path(f, F[o], P[o]) /\ Rng(P[o]) = Chain(f, F[o])
  <2>1. Path(f, F[o], ChainSeq(f, F[o])) /\ P[o] = ChainSeq(f, F[o])
    BY DEF Tabled
  <2> QED
    BY <2>1, PathExists
<1>2. P \in [DOMAIN F -> Seq(Cluster)]
  BY <1>1
<1> HIDE DEF P
<1>3. Used(f) = UNION {Chain(f, F[o]) : o \in DOMAIN F}
  BY DEF Tabled, Used
<1>4. Used(f) = UNION {Rng(P[o]) : o \in DOMAIN F}
  BY <1>1, <1>3
<1>5. \A o, q \in DOMAIN F : o # q => Rng(P[o]) \cap Rng(P[q]) = {}
  BY <1>1 DEF Tabled
<1> QED
  BY <1>1, <1>2, <1>4, <1>5 DEF LaidOut, P

LEMMA LaidChain ==
  ASSUME NEW f, NEW F, NEW P, LaidOut(f, F, P), NEW o \in DOMAIN F
  PROVE  /\ Chain(f, F[o]) = Rng(P[o]) /\ ChainSeq(f, F[o]) = P[o]
         /\ Cardinality(Chain(f, F[o])) = Len(P[o])
         /\ P[o] \in Seq(Cluster) /\ Path(f, F[o], P[o])
  BY PathWalk, WalkRight DEF LaidOut

LEMMA LaidTabled ==
  ASSUME NEW f, NEW F, NEW P, LaidOut(f, F, P)
  PROVE  Tabled(f, F)
<1>1. \A o \in DOMAIN F : Path(f, F[o], ChainSeq(f, F[o])) /\ Chain(f, F[o]) = Rng(P[o])
  BY LaidChain
<1>2. UNION {Rng(P[o]) : o \in DOMAIN F} = UNION {Chain(f, F[o]) : o \in DOMAIN F}
  BY <1>1
<1>3. Used(f) = UNION {Chain(f, F[o]) : o \in DOMAIN F}
  BY <1>2 DEF LaidOut
<1>4. \A o, q \in DOMAIN F : o # q => Chain(f, F[o]) \cap Chain(f, F[q]) = {}
  BY <1>1 DEF LaidOut
<1> QED
  BY <1>1, <1>3, <1>4 DEF Tabled, Used

\* A chain with path p in f has path q in g; what it leaves is free and what it
\* takes was free, and nothing else changes.
Repaths(f, p, g, first, q) ==
  /\ q \in Seq(Cluster) /\ Path(g, first, q)
  /\ \A c \in Cluster \ (Rng(p) \cup Rng(q)) : g[c] = f[c]
  /\ \A c \in Rng(q) \ Rng(p) : f[c] = FREE
  /\ \A c \in Rng(p) \ Rng(q) : g[c] = FREE

LEMMA Repath ==
  ASSUME NEW f, NEW F, NEW P, LaidOut(f, F, P), NEW o \in DOMAIN F,
         NEW g, NEW first, NEW q, Repaths(f, P[o], g, first, q)
  PROVE  /\ LaidOut(g, [F EXCEPT ![o] = first], [P EXCEPT ![o] = q])
         /\ Cardinality(Used(g)) = Cardinality(Used(f)) - Len(P[o]) + Len(q)
         /\ Cardinality(Used(f)) \in Nat
<1> DEFINE G == [F EXCEPT ![o] = first]
           Q == [P EXCEPT ![o] = q]
<1>0. /\ q \in Seq(Cluster) /\ Path(g, first, q)
      /\ \A c \in Cluster \ (Rng(P[o]) \cup Rng(q)) : g[c] = f[c]
      /\ \A c \in Rng(q) \ Rng(P[o]) : f[c] = FREE
      /\ \A c \in Rng(P[o]) \ Rng(q) : g[c] = FREE
  BY DEF Repaths
<1>1. DOMAIN G = DOMAIN F /\ Q \in [DOMAIN F -> Seq(Cluster)]
  BY <1>0 DEF LaidOut
<1>2. /\ G[o] = first /\ Q[o] = q
      /\ \A t \in DOMAIN F \ {o} : G[t] = F[t] /\ Q[t] = P[t]
  BY <1>0 DEF LaidOut
<1> HIDE DEF G, Q
<1>3. /\ \A t \in DOMAIN F : Rng(P[t]) \subseteq Cluster /\ Rng(P[t]) \subseteq Used(f)
      /\ Rng(q) \subseteq Cluster
  BY <1>0 DEF LaidOut, Rng
<1>4. \A t \in DOMAIN F \ {o} : Rng(P[t]) \cap (Rng(P[o]) \cup Rng(q)) = {}
  <2> SUFFICES ASSUME NEW t \in DOMAIN F \ {o}, NEW c \in Rng(P[t]), c \in Rng(P[o]) \cup Rng(q)
               PROVE  FALSE
    OBVIOUS
  <2>1. c \notin Rng(P[o])
    BY <1>0 DEF LaidOut
  <2>2. f[c] # FREE
    BY <1>0, <1>3 DEF Used
  <2> QED
    BY <1>0, <2>1, <2>2
<1>5. \A c \in Rng(q) : g[c] # FREE
  <2> SUFFICES ASSUME NEW i \in 1 .. Len(q) PROVE g[q[i]] # FREE
    BY DEF Rng
  <2>1. g[q[i]] = IF i < Len(q) THEN q[i + 1] ELSE EOC
    BY <1>0 DEF Path
  <2>2. i < Len(q) => q[i + 1] \in Cluster
    BY <1>0
  <2> QED
    BY <2>1, <2>2, ClusterRight
<1>6. Used(g) = (Used(f) \ Rng(P[o])) \cup Rng(q)
  <2> SUFFICES ASSUME NEW c \in Cluster
               PROVE  g[c] # FREE <=> (f[c] # FREE /\ c \notin Rng(P[o])) \/ c \in Rng(q)
    BY <1>0, <1>3 DEF Used
  <2>1. CASE c \in Rng(q)
    BY <1>0, <1>5, <2>1
  <2>2. CASE c \notin Rng(q) /\ c \in Rng(P[o])
    BY <1>0, <2>2
  <2>3. CASE c \notin Rng(q) /\ c \notin Rng(P[o])
    BY <1>0, <2>3
  <2> QED
    BY <2>1, <2>2, <2>3
<1>7. ASSUME NEW t \in DOMAIN F
      PROVE  Path(g, G[t], Q[t])
  <2>1. CASE t = o
    BY <1>0, <1>2, <2>1
  <2>2. CASE t # o
    <3>1. Path(f, F[t], P[t]) /\ G[t] = F[t] /\ Q[t] = P[t]
      BY <1>2, <2>2 DEF LaidOut
    <3>2. \A i \in 1 .. Len(P[t]) : P[t][i] \in Rng(P[t])
      BY DEF Rng
    <3>3. \A i \in 1 .. Len(P[t]) : g[P[t][i]] = f[P[t][i]]
      BY <1>0, <1>3, <1>4, <2>2, <3>2
    <3> QED
      BY <3>1, <3>3 DEF Path
  <2> QED
    BY <1>0, <2>1, <2>2
<1>8. ASSUME NEW s \in DOMAIN F, NEW t \in DOMAIN F, s # t
      PROVE  Rng(Q[s]) \cap Rng(Q[t]) = {}
  <2>1. CASE s # o /\ t # o
    BY <1>2, <1>8, <2>1 DEF LaidOut
  <2>2. CASE s = o
    BY <1>2, <1>4, <1>8, <2>2
  <2>3. CASE t = o
    BY <1>2, <1>4, <1>8, <2>3
  <2> QED
    BY <2>1, <2>2, <2>3
<1>9. Used(g) = UNION {Rng(Q[t]) : t \in DOMAIN F}
  <2>1. ASSUME NEW c \in Used(g) PROVE \E t \in DOMAIN F : c \in Rng(Q[t])
    <3>1. CASE c \in Rng(q)
      BY <1>2, <3>1
    <3>2. CASE c \in Used(f) \ Rng(P[o])
      <4>1. PICK t \in DOMAIN F : c \in Rng(P[t])
        BY <3>2 DEF LaidOut
      <4> QED
        BY <1>2, <3>2, <4>1
    <3> QED
      BY <1>6, <2>1, <3>1, <3>2
  <2>2. ASSUME NEW t \in DOMAIN F, NEW c \in Rng(Q[t]) PROVE c \in Used(g)
    <3>1. CASE t = o
      BY <1>2, <1>6, <2>2, <3>1
    <3>2. CASE t # o
      <4>1. c \in Rng(P[t]) /\ c \in Used(f) /\ c \notin Rng(P[o])
        BY <1>2, <1>3, <1>4, <2>2, <3>2
      <4> QED
        BY <1>6, <4>1
    <3> QED
      BY <3>1, <3>2
  <2> QED
    BY <1>0, <2>1, <2>2
<1>10. LaidOut(g, G, Q)
  BY <1>1, <1>7, <1>8, <1>9 DEF LaidOut
<1>11. /\ IsFiniteSet(Used(f)) /\ Cardinality(Used(f)) \in Nat
  BY ClusterRight, FS_Subset, FS_CardinalityType DEF Used
<1>12. /\ IsFiniteSet(Rng(P[o])) /\ Cardinality(Rng(P[o])) = Len(P[o]) /\ Len(P[o]) \in Nat
       /\ IsFiniteSet(Rng(q)) /\ Cardinality(Rng(q)) = Len(q) /\ Len(q) \in Nat
  <2>1. /\ \A i, j \in 1 .. Len(P[o]) : P[o][i] = P[o][j] => i = j
        /\ \A i, j \in 1 .. Len(q) : q[i] = q[j] => i = j
        /\ P[o] \in Seq(Cluster)
    BY <1>0 DEF LaidOut, Path
  <2> QED
    BY <1>0, <2>1, WalkLength
<1>13. Cardinality(Used(g)) = Cardinality(Used(f)) - Len(P[o]) + Len(q)
  <2> DEFINE A == Rng(P[o])
             B == Rng(q)
             U == Used(f)
             V == U \ A
  <2>1. A \in SUBSET U /\ IsFiniteSet(U) /\ IsFiniteSet(A) /\ IsFiniteSet(B) /\ V \cap B = {}
    <3>1. \A c \in V : c \notin B
      BY <1>0 DEF Used
    <3> QED
      BY <1>3, <1>11, <1>12, <3>1
  <2> HIDE DEF A, B, U
  <2>2. IsFiniteSet(V) /\ Cardinality(V) = Cardinality(U) - Cardinality(U \cap A)
    BY <2>1, FS_Difference
  <2>3. U \cap A = A
    BY <2>1
  <2>4. V \cap B = {} /\ Cardinality(V \cap B) = 0
    BY <2>1, FS_EmptySet
  <2> HIDE DEF V
  <2>5. Cardinality(V \cup B) = Cardinality(V) + Cardinality(B) - Cardinality(V \cap B)
    BY <2>1, <2>2, FS_Union
  <2>6. Cardinality(A) = Len(P[o]) /\ Cardinality(B) = Len(q) /\ Used(g) = V \cup B
    BY <1>6, <1>12 DEF A, B, V, U
  <2>7. Cardinality(U) \in Nat /\ Len(P[o]) \in Nat /\ Len(q) \in Nat
    BY <1>11, <1>12 DEF U
  <2>8. Cardinality(Used(f)) = Cardinality(U)
    BY DEF U
  <2>9. Cardinality(Used(g)) = Cardinality(U) - Len(P[o]) + Len(q) - 0
    BY <2>2, <2>3, <2>4, <2>5, <2>6, <2>7
  <2> QED
    BY <2>7, <2>8, <2>9
<1> QED
  BY <1>10, <1>11, <1>13 DEF G, Q

\* The table holds the chains of F, and free_cluster_count is right.
Counted(m) == m.free = N - Cardinality(Used(m.fat))
Holds(m, F) == m \in Mem /\ Tabled(m.fat, F) /\ Counted(m)

LEMMA MinRight ==
  ASSUME NEW S \in SUBSET Nat, S # {}
  PROVE  Min(S) \in S /\ \A n \in S : Min(S) <= n
<1>1. \E x \in S : \A y \in S : x =< y
  BY LeastNat
<1> QED
  BY <1>1 DEF Min

LEMMA NextFreeRight ==
  ASSUME NEW m \in Mem
  PROVE  /\ NoRoom(m) => NextFree(m) = 0
         /\ ~NoRoom(m) => NextFree(m) \in Cluster /\ m.fat[NextFree(m)] = FREE
         /\ NextFree(m) \in Nat
<1> DEFINE free == {c \in Cluster : m.fat[c] = FREE}
           above == {c \in free : c >= m.next}
<1>1. free \in SUBSET Nat /\ above \in SUBSET Nat
  BY ClusterRight
<1>2. ~NoRoom(m) => free # {}
  BY DEF NoRoom
<1>3. NoRoom(m) => NextFree(m) = 0
  BY DEF NextFree
<1>4. ~NoRoom(m) => NextFree(m) = IF \E c \in free : c >= m.next THEN Min(above) ELSE Min(free)
  BY DEF NextFree
<1>5. ASSUME ~NoRoom(m) PROVE NextFree(m) \in free
  <2>1. CASE \E c \in free : c >= m.next
    <3>1. above # {}
      BY <2>1
    <3> HIDE DEF above
    <3>2. Min(above) \in above
      BY <1>1, <3>1, MinRight
    <3> QED
      BY <1>4, <1>5, <2>1, <3>2 DEF above
  <2>2. CASE ~(\E c \in free : c >= m.next)
    <3> HIDE DEF free
    <3>1. Min(free) \in free
      BY <1>1, <1>2, <1>5, MinRight
    <3> QED
      BY <1>4, <1>5, <2>2, <3>1
  <2> QED
    BY <2>1, <2>2
<1>6. ~NoRoom(m) => NextFree(m) \in Cluster /\ m.fat[NextFree(m)] = FREE
  BY <1>5
<1>7. NextFree(m) \in Nat
  <2>1. CASE NoRoom(m)
    BY <1>3, <2>1
  <2>2. CASE ~NoRoom(m)
    BY <1>6, <2>2, ClusterRight
  <2> QED
    BY <2>1, <2>2
<1> QED
  BY <1>3, <1>6, <1>7

IsSet(m, n, c, v) ==
  n \in Mem /\ n.fat = [m.fat EXCEPT ![c] = v] /\ n.dirty = TRUE /\ n.free = m.free

LEMMA SetEntryRight ==
  ASSUME NEW m \in Mem, NEW c \in Cluster, NEW v \in Cluster \cup {FREE, EOC}
  PROVE  IsSet(m, SetEntry(m, c, v), c, v)
  BY DEF SetEntry, Mem, Table, IsSet

LEMMA AllocFields ==
  ASSUME NEW m \in Mem, ~NoRoom(m)
  PROVE  /\ AllocCluster(m) \in Mem
         /\ AllocCluster(m).fat = [m.fat EXCEPT ![NextFree(m)] = EOC]
         /\ AllocCluster(m).dirty = TRUE
         /\ AllocCluster(m).free = IF m.free > 0 THEN m.free - 1 ELSE 0
<1> DEFINE c == NextFree(m)
           s == SetEntry(m, c, EOC)
<1>1. c \in Cluster /\ c \in Nat
  BY NextFreeRight
<1>2. s \in Mem /\ s.fat = [m.fat EXCEPT ![c] = EOC] /\ s.dirty = TRUE /\ s.free = m.free
  <2> HIDE DEF c
  <2>1. EOC \in Cluster \cup {FREE, EOC}
    OBVIOUS
  <2> QED
    BY <1>1, <2>1, SetEntryRight DEF IsSet
<1>3. AllocCluster(m) = [s EXCEPT !.next = c + 1, !.free = IF @ > 0 THEN @ - 1 ELSE 0]
  BY DEF AllocCluster
<1> HIDE DEF s, c
<1>4. m.free \in Nat
  BY DEF Mem
<1>5. (IF s.free > 0 THEN s.free - 1 ELSE 0) \in Nat /\ c + 1 \in Nat
  BY <1>1, <1>2, <1>4
<1> QED
  BY <1>2, <1>3, <1>5 DEF Mem, c

\* The other chains are as they were.
Kept(f, g, F, o) ==
  \A q \in DOMAIN F \ {o} :
    Chain(g, F[q]) = Chain(f, F[q]) /\ \A c \in Chain(f, F[q]) : g[c] = f[c]

LEMMA KeptJoin ==
  ASSUME NEW f, NEW g, NEW h, NEW F, NEW o, NEW first, Kept(f, g, F, o),
         Kept(g, h, [F EXCEPT ![o] = first], o)
  PROVE  Kept(f, h, F, o)
<1> DEFINE G == [F EXCEPT ![o] = first]
<1>1. DOMAIN G = DOMAIN F /\ \A q \in DOMAIN F \ {o} : G[q] = F[q]
  OBVIOUS
<1> HIDE DEF G
<1>2. Kept(g, h, G, o)
  BY DEF G
<1> QED
  BY <1>1, <1>2 DEF Kept

\* Repath, for the memory.
LEMMA HoldsRepath ==
  ASSUME NEW m, NEW F, NEW P, Holds(m, F), LaidOut(m.fat, F, P), NEW o \in DOMAIN F,
         NEW n \in Mem, NEW first, NEW q, Repaths(m.fat, P[o], n.fat, first, q),
         n.free = m.free + Len(P[o]) - Len(q)
  PROVE  /\ Holds(n, [F EXCEPT ![o] = first])
         /\ LaidOut(n.fat, [F EXCEPT ![o] = first], [P EXCEPT ![o] = q])
         /\ Kept(m.fat, n.fat, F, o)
<1>1. /\ LaidOut(n.fat, [F EXCEPT ![o] = first], [P EXCEPT ![o] = q])
      /\ Cardinality(Used(n.fat)) = Cardinality(Used(m.fat)) - Len(P[o]) + Len(q)
      /\ Cardinality(Used(m.fat)) \in Nat
  BY Repath
<1>2. Len(P[o]) \in Nat /\ Len(q) \in Nat /\ N \in Nat
  BY LaidChain, ClusterRight DEF Repaths
<1>3. Counted(n)
  BY <1>1, <1>2 DEF Counted, Holds
<1>4. Tabled(n.fat, [F EXCEPT ![o] = first])
  BY <1>1, LaidTabled
<1>5. ASSUME NEW t \in DOMAIN F \ {o}
      PROVE  /\ Chain(n.fat, F[t]) = Chain(m.fat, F[t])
             /\ \A c \in Chain(m.fat, F[t]) : n.fat[c] = m.fat[c]
  <2> DEFINE G == [F EXCEPT ![o] = first]
             Q == [P EXCEPT ![o] = q]
  <2>1. t \in DOMAIN G /\ G[t] = F[t] /\ Q[t] = P[t]
    <3>1. P \in [DOMAIN F -> Seq(Cluster)]
      BY DEF LaidOut
    <3> QED
      BY <3>1
  <2>2. LaidOut(n.fat, G, Q)
    BY <1>1
  <2> HIDE DEF G, Q
  <2>3. Chain(n.fat, F[t]) = Rng(P[t]) /\ Chain(m.fat, F[t]) = Rng(P[t])
    BY <2>1, <2>2, LaidChain
  <2>4. ASSUME NEW c \in Rng(P[t]) PROVE n.fat[c] = m.fat[c]
    <3>1. c \in Used(m.fat) /\ c \notin Rng(P[o])
      BY <2>4 DEF LaidOut
    <3>2. c \in Cluster /\ m.fat[c] # FREE
      BY <3>1 DEF Used
    <3>3. c \notin Rng(q)
      BY <3>1, <3>2 DEF Repaths
    <3> QED
      BY <3>1, <3>2, <3>3 DEF Repaths
  <2> QED
    BY <2>3, <2>4
<1>6. Kept(m.fat, n.fat, F, o)
  BY <1>5 DEF Kept
<1> QED
  BY <1>1, <1>3, <1>4, <1>6 DEF Holds

LEMMA FreeLeft ==
  ASSUME NEW m, NEW F, Holds(m, F), ~NoRoom(m)
  PROVE  m.free > 0 /\ m.free \in Nat
<1>1. PICK c \in Cluster : m.fat[c] = FREE
  BY DEF NoRoom
<1>2. Used(m.fat) \in SUBSET Cluster /\ Used(m.fat) # Cluster
  BY <1>1 DEF Used
<1>3. Cardinality(Used(m.fat)) <= N /\ Cardinality(Used(m.fat)) # N
  BY <1>2, ClusterRight, FS_Subset
<1>4. Cardinality(Used(m.fat)) \in Nat
  BY <1>2, ClusterRight, FS_Subset, FS_CardinalityType
<1>5. m.free = N - Cardinality(Used(m.fat)) /\ N \in Nat
  BY ClusterRight DEF Holds, Counted
<1> QED
  BY <1>3, <1>4, <1>5

\* The first of a chain, or 0.
LEMMA FirstRight ==
  ASSUME NEW f, NEW F, Tabled(f, F), NEW o \in DOMAIN F
  PROVE  F[o] \in Cluster \cup {0}
<1>1. PICK P : LaidOut(f, F, P)
  BY TabledLaid
<1>2. P[o] \in Seq(Cluster) /\ F[o] = IF P[o] = <<>> THEN 0 ELSE P[o][1]
  BY <1>1 DEF LaidOut, Path
<1> QED
  BY <1>2

\* An empty chain gets the first free cluster.
LEMMA AllocRight ==
  ASSUME NEW m, NEW F, NEW P, Holds(m, F), LaidOut(m.fat, F, P), NEW o \in DOMAIN F,
         F[o] = 0, ~NoRoom(m)
  PROVE  LET c == NextFree(m)
             n == AllocCluster(m)
         IN /\ Holds(n, [F EXCEPT ![o] = c])
            /\ LaidOut(n.fat, [F EXCEPT ![o] = c], [P EXCEPT ![o] = <<c>>])
            /\ Kept(m.fat, n.fat, F, o)
<1> DEFINE c == NextFree(m)
           n == AllocCluster(m)
<1>1. m \in Mem /\ c \in Cluster /\ m.fat[c] = FREE /\ m.fat \in Table
  BY NextFreeRight DEF Holds, Mem
<1>2. n \in Mem /\ n.fat = [m.fat EXCEPT ![c] = EOC] /\ n.free = m.free - 1
  BY <1>1, AllocFields, FreeLeft
<1>3. P[o] = <<>>
  <2>1. P[o] \in Seq(Cluster) /\ Path(m.fat, 0, P[o])
    BY LaidChain
  <2> QED
    BY <2>1, ClusterRight DEF Path
<1> HIDE DEF c, n
<1>4. <<c>> \in Seq(Cluster) /\ Len(<<c>>) = 1 /\ <<c>>[1] = c /\ Rng(<<c>>) = {c} /\ Rng(P[o]) = {}
      /\ Len(P[o]) = 0
  BY <1>1, <1>3 DEF Rng
<1>5. Path(n.fat, c, <<c>>)
  BY <1>1, <1>2, <1>4 DEF Path, Table
<1>6. Repaths(m.fat, P[o], n.fat, c, <<c>>)
  BY <1>1, <1>2, <1>4, <1>5 DEF Repaths, Table
<1>7. n.free = m.free + Len(P[o]) - Len(<<c>>)
  BY <1>1, <1>2, <1>4 DEF Mem
<1>8. /\ Holds(n, [F EXCEPT ![o] = c])
      /\ LaidOut(n.fat, [F EXCEPT ![o] = c], [P EXCEPT ![o] = <<c>>])
      /\ Kept(m.fat, n.fat, F, o)
  BY <1>2, <1>6, <1>7, HoldsRepath
<1> QED
  BY <1>8 DEF c, n

\* What Extended does to a chain with path p.
Appended(m, F, P, o, n, first) ==
  LET q == Append(P[o], NextFree(m)) IN
  /\ Holds(n, [F EXCEPT ![o] = first])
  /\ LaidOut(n.fat, [F EXCEPT ![o] = first], [P EXCEPT ![o] = q])
  /\ Kept(m.fat, n.fat, F, o)
  /\ n.dirty = TRUE /\ first = IF F[o] = 0 THEN NextFree(m) ELSE F[o]
  /\ \A c \in Cluster : m.fat[c] # FREE => n.fat[c] # FREE

LEMMA ExtendedRight ==
  ASSUME NEW m, NEW F, NEW P, Holds(m, F), LaidOut(m.fat, F, P), NEW o \in DOMAIN F,
         ~NoRoom(m)
  PROVE  Appended(m, F, P, o, Extended(m, F[o]).m, Extended(m, F[o]).first)
<1> DEFINE c == NextFree(m)
           a == AllocCluster(m)
           p == P[o]
           q == Append(p, c)
<1>1. m \in Mem /\ c \in Cluster /\ m.fat[c] = FREE /\ m.fat \in Table
  BY NextFreeRight DEF Holds, Mem
<1>2. a \in Mem /\ a.fat = [m.fat EXCEPT ![c] = EOC] /\ a.free = m.free - 1 /\ a.dirty = TRUE
  BY <1>1, AllocFields, FreeLeft
<1>3. p \in Seq(Cluster) /\ Path(m.fat, F[o], p) /\ ChainSeq(m.fat, F[o]) = p
  BY LaidChain
<1>4. Extended(m, F[o]) = IF F[o] \notin Cluster THEN [m |-> a, first |-> c]
                          ELSE [m |-> SetEntry(a, Last(p), c), first |-> F[o]]
  BY <1>3 DEF Extended
<1>5. CASE F[o] = 0
  <2>1. Extended(m, F[o]) = [m |-> a, first |-> c]
    BY <1>4, <1>5, ClusterRight
  <2>2. p = <<>> /\ q = <<c>>
    <3>1. p = <<>>
      BY <1>3, <1>5, ClusterRight DEF Path
    <3> HIDE DEF p, c
    <3> QED
      BY <1>1, <3>1
  <2>3. /\ Holds(a, [F EXCEPT ![o] = c])
        /\ LaidOut(a.fat, [F EXCEPT ![o] = c], [P EXCEPT ![o] = <<c>>])
        /\ Kept(m.fat, a.fat, F, o)
    BY <1>5, AllocRight
  <2> HIDE DEF a, c, p
  <2>4. \A x \in Cluster : m.fat[x] # FREE => a.fat[x] # FREE
    BY <1>1, <1>2 DEF Table
  <2>5. Extended(m, F[o]).m = a /\ Extended(m, F[o]).first = c
    BY <2>1
  <2>6. NextFree(m) = c /\ Append(P[o], NextFree(m)) = <<c>>
    BY <2>2 DEF c, p
  <2> QED
    BY <1>2, <1>5, <2>3, <2>4, <2>5, <2>6 DEF Appended
<1>6. CASE F[o] # 0
  <2> DEFINE L == Len(p)
             e == p[L]
             n == SetEntry(a, e, c)
  <2>1. p # <<>> /\ L \in Nat \ {0} /\ e \in Cluster /\ F[o] = p[1] /\ F[o] \in Cluster
    BY <1>3, <1>6 DEF Path
  <2>2. Extended(m, F[o]).m = n /\ Extended(m, F[o]).first = F[o]
    BY <1>4, <2>1 DEF Last
  <2>3. n \in Mem /\ n.fat = [a.fat EXCEPT ![e] = c] /\ n.free = a.free /\ n.dirty = TRUE
    <3> HIDE DEF a, c, e
    <3>1. c \in Cluster \cup {FREE, EOC} /\ a \in Mem /\ e \in Cluster
      BY <1>1, <1>2, <2>1
    <3>2. IsSet(a, n, e, c)
      BY <3>1, SetEntryRight
    <3> QED
      BY <3>2 DEF IsSet
  <2> HIDE DEF a, c, n
  <2>4. \A i \in 1 .. L : p[i] \in Cluster /\ m.fat[p[i]] # FREE /\ p[i] # c
    <3> SUFFICES ASSUME NEW i \in 1 .. L
                 PROVE  p[i] \in Cluster /\ m.fat[p[i]] # FREE /\ p[i] # c
      OBVIOUS
    <3>1. p[i] \in Cluster /\ m.fat[p[i]] = IF i < L THEN p[i + 1] ELSE EOC
      BY <1>3 DEF Path
    <3>2. i < L => p[i + 1] \in Cluster
      BY <1>3
    <3> QED
      BY <1>1, <3>1, <3>2, ClusterRight
  <2>5. q \in Seq(Cluster) /\ Len(q) = L + 1 /\ q[L + 1] = c /\ (\A i \in 1 .. L : q[i] = p[i])
    BY <1>1, <1>3
  <2>6. L \in 1 .. L /\ e # c /\ (\A i \in 1 .. L : p[i] = e => i = L)
    BY <1>3, <2>1, <2>4 DEF Path
  <2> HIDE DEF q, e
  <2>7. /\ n.fat[c] = EOC /\ n.fat[e] = c
        /\ \A x \in Cluster \ {c, e} : n.fat[x] = m.fat[x]
    BY <1>1, <1>2, <2>1, <2>3, <2>6 DEF Table, Mem
  <2>8. Path(n.fat, F[o], q)
    <3>1. q # <<>> /\ F[o] = q[1]
      BY <2>1, <2>5
    <3>2. ASSUME NEW i \in 1 .. Len(q), NEW j \in 1 .. Len(q), q[i] = q[j]
          PROVE  i = j
      <4>1. CASE i = L + 1
        BY <2>1, <2>4, <2>5, <3>2, <4>1
      <4>2. CASE j = L + 1
        BY <2>1, <2>4, <2>5, <3>2, <4>2
      <4>3. CASE i # L + 1 /\ j # L + 1
        <5>1. i \in 1 .. L /\ j \in 1 .. L /\ p[i] = p[j]
          BY <2>1, <2>5, <3>2, <4>3
        <5> QED
          BY <1>3, <5>1 DEF Path
      <4> QED
        BY <4>1, <4>2, <4>3
    <3>3. ASSUME NEW i \in 1 .. Len(q)
          PROVE  q[i] \in Cluster /\ n.fat[q[i]] = IF i < Len(q) THEN q[i + 1] ELSE EOC
      <4>1. CASE i = L + 1
        BY <1>1, <2>1, <2>5, <2>7, <4>1
      <4>2. CASE i = L
        BY <1>1, <2>1, <2>5, <2>7, <4>2 DEF e
      <4>3. CASE i # L + 1 /\ i # L
        <5>1. i \in 1 .. L /\ i < L /\ i + 1 \in 1 .. L /\ i < Len(q)
          BY <2>1, <2>5, <4>3
        <5>2. q[i] = p[i] /\ q[i + 1] = p[i + 1] /\ p[i] # c /\ p[i] # e /\ p[i] \in Cluster
          BY <2>4, <2>5, <2>6, <4>3, <5>1
        <5>3. m.fat[p[i]] = p[i + 1]
          BY <1>3, <5>1 DEF Path
        <5> QED
          BY <2>7, <5>1, <5>2, <5>3
      <4> QED
        BY <4>1, <4>2, <4>3
    <3> QED
      BY <3>1, <3>2, <3>3 DEF Path
  <2>9. Rng(q) = Rng(p) \cup {c} /\ e \in Rng(p)
    <3>1. \A i \in 1 .. L + 1 : q[i] \in Rng(p) \cup {c}
      BY <2>1, <2>5 DEF Rng
    <3>2. \A i \in 1 .. L : p[i] \in Rng(q)
      BY <2>1, <2>5 DEF Rng
    <3>3. c \in Rng(q)
      BY <2>1, <2>5 DEF Rng
    <3>4. e \in Rng(p)
      BY <2>6 DEF Rng, e
    <3> HIDE DEF p
    <3> QED
      BY <2>5, <3>1, <3>2, <3>3, <3>4 DEF Rng
  <2>10. Repaths(m.fat, P[o], n.fat, F[o], q)
    <3>1. Repaths(m.fat, p, n.fat, F[o], q)
      <4> HIDE DEF p
      <4> QED
        BY <1>1, <2>5, <2>7, <2>8, <2>9 DEF Repaths
    <3> QED
      BY <3>1
  <2>11. n.free = m.free + Len(P[o]) - Len(q)
    <3>1. m.free \in Nat
      BY <1>1 DEF Mem
    <3> QED
      BY <1>2, <2>1, <2>3, <2>5, <3>1
  <2>12. /\ Holds(n, [F EXCEPT ![o] = F[o]])
         /\ LaidOut(n.fat, [F EXCEPT ![o] = F[o]], [P EXCEPT ![o] = q])
         /\ Kept(m.fat, n.fat, F, o)
    <3> HIDE DEF p, L
    <3> QED
      BY <2>3, <2>10, <2>11, HoldsRepath
  <2>13. \A x \in Cluster : m.fat[x] # FREE => n.fat[x] # FREE
    BY <1>1, <2>1, <2>7, ClusterRight
  <2>14. q = Append(P[o], NextFree(m))
    BY DEF q, c
  <2> HIDE DEF p, L
  <2> QED
    BY <1>6, <2>2, <2>3, <2>12, <2>13, <2>14 DEF Appended
<1>7. F[o] \in Cluster \cup {0}
  BY FirstRight DEF Holds
<1> QED
  BY <1>5, <1>6

LEMMA FreeFields ==
  ASSUME NEW m \in Mem, NEW c \in Cluster
  PROVE  /\ FreeChain(m, c) \in Mem /\ FreeChain(m, c).dirty = TRUE
         /\ FreeChain(m, c).free = m.free + Cardinality(Chain(m.fat, c))
         /\ \A x \in Cluster : FreeChain(m, c).fat[x] =
                               IF x \in Chain(m.fat, c) THEN FREE ELSE m.fat[x]
<1> DEFINE S == Chain(m.fat, c)
           g == [x \in Cluster |-> IF x \in S THEN FREE ELSE m.fat[x]]
           k == Cardinality(S)
           l == Min(S \cup {m.next})
<1>1. S \subseteq Cluster /\ k \in Nat
  BY ChainType
<1>2. l \in Nat
  <2>1. S \cup {m.next} \in SUBSET Nat /\ S \cup {m.next} # {}
    BY <1>1, ClusterRight DEF Mem
  <2> HIDE DEF S
  <2> QED
    BY <2>1, MinRight
<1>3. g \in Table
  BY DEF Mem, Table
<1>4. FreeChain(m, c) = [m EXCEPT !.fat = g, !.dirty = TRUE, !.free = m.free + k, !.next = l]
  BY DEF FreeChain, Mem
<1>5. \A x \in Cluster : g[x] = IF x \in S THEN FREE ELSE m.fat[x]
  OBVIOUS
<1>6. m.free + k \in Nat
  BY <1>1 DEF Mem
<1> HIDE DEF S, g, k, l
<1>7. /\ FreeChain(m, c) \in Mem /\ FreeChain(m, c).dirty = TRUE
      /\ FreeChain(m, c).free = m.free + k /\ FreeChain(m, c).fat = g
  BY <1>2, <1>3, <1>4, <1>6 DEF Mem
<1> QED
  BY <1>5, <1>7 DEF S, k

LEMMA FreeChainType ==
  ASSUME NEW m \in Mem, NEW c
  PROVE  FreeChain(m, c) \in Mem /\ (FreeChain(m, c) = m \/ FreeChain(m, c).dirty = TRUE)
<1>1. CASE c \in Cluster
  BY <1>1, FreeFields
<1>2. CASE c \notin Cluster
  BY <1>2 DEF FreeChain
<1> QED
  BY <1>1, <1>2

\* What is given back of a chain is empty after.
LEMMA FreeRight ==
  ASSUME NEW m, NEW F, NEW P, Holds(m, F), LaidOut(m.fat, F, P), NEW o \in DOMAIN F
  PROVE  LET n == FreeChain(m, F[o]) IN
         /\ Holds(n, [F EXCEPT ![o] = 0])
         /\ LaidOut(n.fat, [F EXCEPT ![o] = 0], [P EXCEPT ![o] = <<>>])
         /\ Kept(m.fat, n.fat, F, o)
         /\ n = m \/ n.dirty = TRUE
<1> DEFINE n == FreeChain(m, F[o])
           p == P[o]
<1>1. m \in Mem /\ n \in Mem /\ (n = m \/ n.dirty = TRUE)
  BY FreeChainType DEF Holds
<1>2. /\ p \in Seq(Cluster) /\ Path(m.fat, F[o], p) /\ Chain(m.fat, F[o]) = Rng(p)
      /\ Cardinality(Chain(m.fat, F[o])) = Len(p)
  BY LaidChain
<1>3. /\ \A x \in Cluster : n.fat[x] = IF x \in Rng(p) THEN FREE ELSE m.fat[x]
      /\ n.free = m.free + Len(p)
  <2>1. CASE F[o] \in Cluster
    <3> DEFINE c == F[o]
    <3>1. c \in Cluster /\ m \in Mem
      BY <1>1, <2>1
    <3> HIDE DEF c
    <3>2. /\ FreeChain(m, c).free = m.free + Cardinality(Chain(m.fat, c))
          /\ \A x \in Cluster : FreeChain(m, c).fat[x] =
                                IF x \in Chain(m.fat, c) THEN FREE ELSE m.fat[x]
      BY <3>1, FreeFields
    <3>3. n = FreeChain(m, c) /\ Chain(m.fat, c) = Rng(p) /\ Cardinality(Chain(m.fat, c)) = Len(p)
      BY <1>2 DEF c
    <3> HIDE DEF n, p
    <3> QED
      BY <3>2, <3>3
  <2>2. CASE F[o] \notin Cluster
    <3>1. n = m
      BY <2>2 DEF FreeChain
    <3>2. p = <<>>
      BY <1>2, <2>2 DEF Path
    <3>3. Rng(p) = {} /\ Len(p) = 0
      BY <3>2 DEF Rng
    <3>4. m.free \in Nat
      BY <1>1 DEF Mem
    <3> HIDE DEF n, p
    <3> QED
      BY <3>1, <3>3, <3>4
  <2> QED
    BY <2>1, <2>2
<1> HIDE DEF n
<1>4. <<>> \in Seq(Cluster) /\ Rng(<<>>) = {} /\ Len(<<>>) = 0 /\ Path(n.fat, 0, <<>>)
  BY DEF Rng, Path
<1>5. Repaths(m.fat, P[o], n.fat, 0, <<>>)
  <2>1. Rng(p) \subseteq Cluster
    BY <1>2 DEF Rng
  <2>2. Repaths(m.fat, p, n.fat, 0, <<>>)
    <3> HIDE DEF p
    <3> QED
      BY <1>3, <1>4, <2>1 DEF Repaths
  <2> QED
    BY <2>2
<1>6. n.free = m.free + Len(P[o]) - Len(<<>>)
  <2>1. m.free \in Nat /\ Len(P[o]) \in Nat /\ n.free = m.free + Len(P[o])
    BY <1>1, <1>2, <1>3 DEF Mem
  <2> QED
    BY <1>4, <2>1
<1> HIDE DEF p
<1>7. /\ Holds(n, [F EXCEPT ![o] = 0])
      /\ LaidOut(n.fat, [F EXCEPT ![o] = 0], [P EXCEPT ![o] = <<>>])
      /\ Kept(m.fat, n.fat, F, o)
  BY <1>1, <1>5, <1>6, HoldsRepath
<1> QED
  BY <1>1, <1>7 DEF n

\* Who has no chain may come and go.
LEMMA SameOwners ==
  ASSUME NEW f, NEW F, NEW G, Tabled(f, F),
         \A o \in DOMAIN F \cap DOMAIN G : G[o] = F[o],
         \A o \in DOMAIN F \ DOMAIN G : F[o] = 0,
         \A o \in DOMAIN G \ DOMAIN F : G[o] = 0
  PROVE  Tabled(f, G)
<1>1. Walk(f, 0, <<>>)
  BY ClusterRight DEF Walk
<1>2. Chain(f, 0) = {} /\ ChainSeq(f, 0) = <<>>
  BY <1>1, WalkRight DEF Rng
<1>3. Path(f, 0, ChainSeq(f, 0))
  BY <1>2 DEF Path
<1>4. ASSUME NEW o \in DOMAIN G PROVE Path(f, G[o], ChainSeq(f, G[o]))
  <2>1. CASE o \in DOMAIN F
    BY <2>1 DEF Tabled
  <2>2. CASE o \notin DOMAIN F
    BY <1>3, <2>2
  <2> QED
    BY <2>1, <2>2
<1>5. ASSUME NEW o \in DOMAIN G, NEW q \in DOMAIN G, o # q
      PROVE  Chain(f, G[o]) \cap Chain(f, G[q]) = {}
  <2>1. CASE o \in DOMAIN F /\ q \in DOMAIN F
    BY <1>5, <2>1 DEF Tabled
  <2>2. CASE o \notin DOMAIN F \/ q \notin DOMAIN F
    <3>1. G[o] = 0 \/ G[q] = 0
      BY <2>2
    <3> QED
      BY <1>2, <3>1
  <2> QED
    BY <2>1, <2>2
<1>6. UNION {Chain(f, F[o]) : o \in DOMAIN F} = UNION {Chain(f, G[o]) : o \in DOMAIN G}
  <2>1. ASSUME NEW o \in DOMAIN F, NEW c \in Chain(f, F[o])
        PROVE  \E q \in DOMAIN G : c \in Chain(f, G[q])
    <3>1. o \in DOMAIN G
      BY <1>2, <2>1
    <3> QED
      BY <2>1, <3>1
  <2>2. ASSUME NEW o \in DOMAIN G, NEW c \in Chain(f, G[o])
        PROVE  \E q \in DOMAIN F : c \in Chain(f, F[q])
    <3>1. o \in DOMAIN F
      BY <1>2, <2>2
    <3> QED
      BY <2>2, <3>1
  <2> QED
    BY <2>1, <2>2
<1> QED
  BY <1>4, <1>5, <1>6 DEF Tabled

\* A chain is cut after its first size clusters.
LEMMA CutRight ==
  ASSUME NEW m, NEW F, NEW P, Holds(m, F), LaidOut(m.fat, F, P), NEW o \in DOMAIN F,
         NEW size \in Nat \ {0}
  PROVE  LET n == Cut(m, F[o], size) IN
         Holds(n, F) /\ Kept(m.fat, n.fat, F, o) /\ (n = m \/ n.dirty = TRUE)
<1> DEFINE n == Cut(m, F[o], size)
           p == P[o]
           L == Len(p)
           s == size
<1>1. m \in Mem /\ Holds(m, F)
  BY DEF Holds
<1>2. /\ p \in Seq(Cluster) /\ Path(m.fat, F[o], p) /\ ChainSeq(m.fat, F[o]) = p
      /\ L \in Nat
  BY LaidChain
<1>3. n = IF s >= L THEN m ELSE SetEntry(FreeChain(m, p[s + 1]), p[s], EOC)
  BY <1>2 DEF Cut
<1>4. CASE s >= L
  <2>1. Kept(m.fat, m.fat, F, o)
    BY DEF Kept
  <2> QED
    BY <1>1, <1>3, <1>4, <2>1
<1>5. CASE ~(s >= L)
  <2> DEFINE c == p[s + 1]
             e == p[s]
             q == SubSeq(p, 1, s)
             r == SubSeq(p, s + 1, L)
             a == FreeChain(m, c)
  <2>1. s \in 1 .. L /\ s + 1 \in 1 .. L /\ s < L /\ s \in Nat \ {0}
    BY <1>2, <1>5
  <2>2. c \in Cluster /\ e \in Cluster
    BY <1>2, <2>1
  <2>3. \A i, j \in 1 .. L : p[i] = p[j] => i = j
    BY <1>2 DEF Path
  <2>4. \A i \in 1 .. L : p[i] \in Cluster /\ m.fat[p[i]] = IF i < L THEN p[i + 1] ELSE EOC
    BY <1>2 DEF Path
  <2>5. q \in Seq(Cluster) /\ Len(q) = s /\ (\A i \in 1 .. s : q[i] = p[i])
    BY <1>2, <2>1
  <2>6. r \in Seq(Cluster) /\ Len(r) = L - s /\ (\A i \in 1 .. L - s : r[i] = p[s + i])
    <3>1. \A i \in 1 .. L - s : r[i] = p[(s + 1) + i - 1] /\ (s + 1) + i - 1 = s + i
      BY <1>2, <2>1
    <3> QED
      BY <1>2, <2>1, <3>1
  <2> HIDE DEF q, r
  <2>7. Walk(m.fat, c, r)
    <3>1. r # <<>> /\ c = r[1]
      BY <1>2, <2>1, <2>6
    <3>2. \A i, j \in 1 .. Len(r) : r[i] = r[j] => i = j
      BY <1>2, <2>1, <2>3, <2>6
    <3>3. ASSUME NEW i \in 1 .. Len(r)
          PROVE  IF i < Len(r) THEN m.fat[r[i]] = r[i + 1] ELSE m.fat[r[i]] \notin Cluster
      <4>1. s + i \in 1 .. L /\ r[i] = p[s + i]
        BY <1>2, <2>1, <2>6
      <4>2. CASE i < Len(r)
        <5>1. s + i < L /\ r[i + 1] = p[s + (i + 1)] /\ s + (i + 1) = (s + i) + 1
          BY <1>2, <2>1, <2>6, <4>2
        <5> QED
          BY <2>4, <4>1, <4>2, <5>1
      <4>3. CASE ~(i < Len(r))
        <5>1. ~(s + i < L)
          BY <1>2, <2>1, <2>6, <4>3
        <5> QED
          BY <2>4, <4>1, <4>3, <5>1, ClusterRight
      <4> QED
        BY <4>2, <4>3
    <3> QED
      BY <2>6, <3>1, <3>2, <3>3 DEF Walk
  <2>8. Chain(m.fat, c) = Rng(r) /\ Cardinality(Chain(m.fat, c)) = L - s
    BY <2>6, <2>7, WalkRight
  <2>9. /\ a \in Mem /\ a.free = m.free + (L - s)
        /\ \A x \in Cluster : a.fat[x] = IF x \in Rng(r) THEN FREE ELSE m.fat[x]
    <3> HIDE DEF c
    <3>1. /\ a \in Mem /\ a.free = m.free + Cardinality(Chain(m.fat, c))
          /\ \A x \in Cluster : a.fat[x] = IF x \in Chain(m.fat, c) THEN FREE ELSE m.fat[x]
      BY <1>1, <2>2, FreeFields
    <3> HIDE DEF a
    <3> QED
      BY <2>8, <3>1
  <2>10. n = SetEntry(a, e, EOC)
    BY <1>3, <1>5
  <2> HIDE DEF a, n
  <2>11. n \in Mem /\ n.fat = [a.fat EXCEPT ![e] = EOC] /\ n.dirty = TRUE /\ n.free = a.free
    <3> DEFINE v == EOC
    <3>1. a \in Mem /\ e \in Cluster /\ v \in Cluster \cup {FREE, EOC}
      BY <2>2, <2>9
    <3> HIDE DEF e, v
    <3>2. IsSet(a, SetEntry(a, e, v), e, v)
      BY <3>1, SetEntryRight
    <3> QED
      BY <2>10, <3>2 DEF v, IsSet
  <2>12. \A i \in 1 .. s : p[i] \notin Rng(r)
    <3>1. Len(r) = L - s /\ \A j \in 1 .. L - s : r[j] = p[s + j]
      BY <2>6
    <3>2. Rng(r) = {r[j] : j \in 1 .. L - s}
      BY <3>1 DEF Rng
    <3>3. ASSUME NEW i \in 1 .. s, NEW j \in 1 .. L - s PROVE p[i] # r[j]
      <4>1. i \in 1 .. L /\ s + j \in 1 .. L /\ i # s + j
        BY <1>2, <2>1
      <4> QED
        BY <2>3, <3>1, <4>1
    <3> QED
      BY <3>2, <3>3
  <2>13. /\ n.fat[e] = EOC
         /\ \A x \in Cluster \ {e} : n.fat[x] = IF x \in Rng(r) THEN FREE ELSE m.fat[x]
    <3>1. a.fat \in Table
      BY <2>9 DEF Mem
    <3> HIDE DEF e
    <3> QED
      BY <2>2, <2>9, <2>11, <3>1 DEF Table
  <2>14. Path(n.fat, F[o], q)
    <3>1. q # <<>> /\ F[o] = q[1]
      <4>1. p # <<>> /\ q # <<>> /\ 1 \in 1 .. s
        BY <1>2, <2>1, <2>5
      <4>2. F[o] = p[1]
        BY <1>2, <4>1 DEF Path
      <4> QED
        BY <2>5, <4>1, <4>2
    <3>2. \A i, j \in 1 .. Len(q) : q[i] = q[j] => i = j
      BY <1>2, <2>1, <2>3, <2>5
    <3>3. ASSUME NEW i \in 1 .. Len(q)
          PROVE  q[i] \in Cluster /\ n.fat[q[i]] = IF i < Len(q) THEN q[i + 1] ELSE EOC
      <4>1. CASE i = s
        BY <2>1, <2>2, <2>5, <2>13, <4>1
      <4>2. CASE i # s
        <5>1. i \in 1 .. s /\ i + 1 \in 1 .. s /\ i \in 1 .. L /\ i < L /\ i < Len(q)
          BY <1>2, <2>1, <2>5, <4>2
        <5>2. q[i] = p[i] /\ q[i + 1] = p[i + 1] /\ p[i] # e /\ p[i] \in Cluster
          BY <2>1, <2>3, <2>4, <2>5, <4>2, <5>1
        <5>3. n.fat[p[i]] = m.fat[p[i]]
          BY <2>12, <2>13, <5>1, <5>2
        <5> QED
          BY <2>4, <5>1, <5>2, <5>3
      <4> QED
        BY <4>1, <4>2
    <3> QED
      BY <3>1, <3>2, <3>3 DEF Path
  <2>15. Rng(p) = Rng(q) \cup Rng(r) /\ Rng(q) \cap Rng(r) = {} /\ e \in Rng(q)
    <3>1. ASSUME NEW i \in 1 .. L PROVE p[i] \in Rng(q) \cup Rng(r)
      <4>1. CASE i <= s
        <5>1. i \in 1 .. Len(q) /\ q[i] = p[i]
          BY <2>1, <2>5, <4>1
        <5> QED
          BY <5>1 DEF Rng
      <4>2. CASE ~(i <= s)
        <5>1. i - s \in 1 .. Len(r) /\ s + (i - s) = i
          BY <1>2, <2>1, <2>6, <4>2
        <5>2. r[i - s] = p[i]
          BY <2>6, <5>1
        <5> QED
          BY <5>1, <5>2 DEF Rng
      <4> QED
        BY <4>1, <4>2
    <3>2. \A i \in 1 .. s : q[i] \in Rng(p) /\ q[i] \notin Rng(r)
      BY <1>2, <2>1, <2>5, <2>12 DEF Rng
    <3>3. \A i \in 1 .. L - s : r[i] \in Rng(p)
      <4> SUFFICES ASSUME NEW i \in 1 .. L - s PROVE p[s + i] \in Rng(p)
        BY <2>6
      <4>1. s + i \in 1 .. L
        BY <1>2, <2>1
      <4> QED
        BY <4>1 DEF Rng
    <3>4. e \in Rng(q)
      <4>1. s \in 1 .. Len(q) /\ q[s] = e
        BY <2>1, <2>5
      <4> QED
        BY <4>1 DEF Rng
    <3>5. Rng(p) = {p[i] : i \in 1 .. L} /\ Rng(q) = {q[i] : i \in 1 .. s}
          /\ Rng(r) = {r[i] : i \in 1 .. L - s}
      BY <2>5, <2>6 DEF Rng
    <3> HIDE DEF p, L, e
    <3> QED
      BY <3>1, <3>2, <3>3, <3>4, <3>5
  <2>16. Repaths(m.fat, P[o], n.fat, F[o], q)
    <3>1. Rng(p) \subseteq Cluster
      BY <1>2 DEF Rng
    <3>2. Repaths(m.fat, p, n.fat, F[o], q)
      <4> HIDE DEF p, e, L
      <4> QED
        BY <2>5, <2>13, <2>14, <2>15, <3>1 DEF Repaths
    <3> QED
      BY <3>2
  <2>17. n.free = m.free + Len(P[o]) - Len(q)
    <3>1. m.free \in Nat
      BY <1>1 DEF Mem
    <3> QED
      BY <1>2, <2>1, <2>5, <2>9, <2>11, <3>1
  <2>18. Holds(n, [F EXCEPT ![o] = F[o]]) /\ Kept(m.fat, n.fat, F, o)
    <3> HIDE DEF p, L, s
    <3> QED
      BY <2>11, <2>16, <2>17, HoldsRepath
  <2>19. DOMAIN [F EXCEPT ![o] = F[o]] = DOMAIN F
         /\ \A x \in DOMAIN F : [F EXCEPT ![o] = F[o]][x] = F[x]
    OBVIOUS
  <2>20. Tabled(n.fat, F)
    <3> DEFINE G == [F EXCEPT ![o] = F[o]]
    <3>1. Tabled(n.fat, G) /\ DOMAIN G = DOMAIN F /\ \A x \in DOMAIN F : G[x] = F[x]
      BY <2>18, <2>19 DEF Holds
    <3> HIDE DEF G
    <3> QED
      BY <3>1, SameOwners
  <2> QED
    BY <2>11, <2>18, <2>20 DEF Holds, n
<1> QED
  BY <1>4, <1>5

\* What Grown does to the chain of o.
Grew(m, F, o, n, first) ==
  /\ Holds(n, [F EXCEPT ![o] = first]) /\ Kept(m.fat, n.fat, F, o)
  /\ (n = m /\ first = F[o]) \/ n.dirty = TRUE
  /\ F[o] # 0 => first = F[o]
  /\ F[o] = 0 => first = 0 \/ (first \in Cluster /\ m.fat[first] = FREE)
  /\ \A c \in Cluster : m.fat[c] # FREE => n.fat[c] # FREE

IsFunction(F) == F = [x \in DOMAIN F |-> F[x]]

LEMMA ExtendedGrows ==
  ASSUME NEW m, NEW F, IsFunction(F), NEW o \in DOMAIN F, NEW n, NEW first,
         Grew(m, F, o, n, first)
  PROVE  Grew(m, F, o, Extended(n, first).m, Extended(n, first).first)
<1> DEFINE e == Extended(n, first)
           G == [F EXCEPT ![o] = first]
           k == e.m
           l == e.first
<1>1. DOMAIN G = DOMAIN F /\ G[o] = first /\ \A x : [G EXCEPT ![o] = x] = [F EXCEPT ![o] = x]
  BY DEF IsFunction
<1>2. Holds(n, G)
  BY DEF Grew
<1>3. PICK P : LaidOut(n.fat, G, P)
  BY <1>2, TabledLaid DEF Holds
<1>4. CASE NoRoom(n)
  <2>1. e = [m |-> n, first |-> first]
    BY <1>4 DEF Extended
  <2> QED
    BY <2>1
<1>5. CASE ~NoRoom(n)
  <2> HIDE DEF G
  <2>1. Appended(n, G, P, o, Extended(n, G[o]).m, Extended(n, G[o]).first)
    BY <1>1, <1>2, <1>3, <1>5, ExtendedRight
  <2>2. Appended(n, G, P, o, k, l)
    BY <1>1, <2>1
  <2> HIDE DEF e, k, l
  <2>3. /\ Holds(k, [G EXCEPT ![o] = l]) /\ k.dirty = TRUE /\ Kept(n.fat, k.fat, G, o)
        /\ l = IF first = 0 THEN NextFree(n) ELSE first
        /\ \A c \in Cluster : n.fat[c] # FREE => k.fat[c] # FREE
    BY <1>1, <2>2 DEF Appended
  <2>4. Holds(k, [F EXCEPT ![o] = l])
    BY <1>1, <2>3
  <2>5. F[o] # 0 => l = F[o]
    BY <2>3 DEF Grew
  <2>6. F[o] = 0 => l = 0 \/ (l \in Cluster /\ m.fat[l] = FREE)
    <3>1. CASE first = 0
      <4>1. n \in Mem
        BY <1>2 DEF Holds
      <4>2. NextFree(n) \in Cluster /\ n.fat[NextFree(n)] = FREE
        BY <1>5, <4>1, NextFreeRight
      <4> QED
        BY <2>3, <3>1, <4>2 DEF Grew
    <3>2. CASE first # 0
      BY <2>3, <3>2 DEF Grew
    <3> QED
      BY <3>1, <3>2
  <2>7. \A c \in Cluster : m.fat[c] # FREE => k.fat[c] # FREE
    BY <2>3 DEF Grew
  <2>8. Kept(m.fat, k.fat, F, o)
    BY <2>3, KeptJoin DEF Grew, G
  <2>9. Grew(m, F, o, k, l)
    BY <2>3, <2>4, <2>5, <2>6, <2>7, <2>8 DEF Grew
  <2> QED
    BY <2>9 DEF k, l, e
<1> QED
  BY <1>4, <1>5

LEMMA GrownRight ==
  ASSUME NEW m, NEW F, IsFunction(F), NEW o \in DOMAIN F, Holds(m, F), NEW n
  PROVE  Grew(m, F, o, Grown(m, F[o], n).m, Grown(m, F[o], n).first)
<1> DEFINE g0 == [m |-> m, first |-> F[o]]
           IsLoop(f) == f = [k \in 0 .. N |-> IF k = 0 THEN g0 ELSE Longer(f[k - 1], n)]
           loop == CHOOSE f : IsLoop(f)
           S == {g \in [m : Mem, first : Cluster \cup {0}] : Grew(m, F, o, g.m, g.first)}
           step == [k \in 1 .. N |-> [g \in S |-> Longer(g, n)]]
<1>1. N \in Nat
  BY ClusterRight
<1>2. Grown(m, F[o], n) = loop[N]
  BY DEF Grown
<1>3. g0 \in S
  <2>1. g0 \in [m : Mem, first : Cluster \cup {0}] /\ g0.m = m /\ g0.first = F[o]
    BY FirstRight DEF Holds
  <2>2. [F EXCEPT ![o] = F[o]] = F
    BY DEF IsFunction
  <2>3. Grew(m, F, o, m, F[o])
    <3>1. F[o] \in Cluster \cup {0}
      BY FirstRight DEF Holds
    <3> QED
      BY <2>2, <3>1, ClusterRight DEF Grew, Kept
  <2> QED
    BY <2>1, <2>3
<1>4. ASSUME NEW g \in S PROVE Longer(g, n) \in S
  <2>1. CASE Cardinality(Chain(g.m.fat, g.first)) >= n
    BY <2>1 DEF Longer
  <2>2. CASE ~(Cardinality(Chain(g.m.fat, g.first)) >= n)
    <3> DEFINE e == Extended(g.m, g.first)
    <3>1. Longer(g, n) = e
      BY <2>2 DEF Longer
    <3>2. Grew(m, F, o, e.m, e.first)
      BY ExtendedGrows
    <3>3. \E a, b : e = [m |-> a, first |-> b]
      BY DEF Extended
    <3> HIDE DEF e
    <3>4. Holds(e.m, [F EXCEPT ![o] = e.first]) /\ o \in DOMAIN [F EXCEPT ![o] = e.first]
          /\ [F EXCEPT ![o] = e.first][o] = e.first
      BY <3>2 DEF Grew
    <3> DEFINE G == [F EXCEPT ![o] = e.first]
    <3>5. e.m \in Mem /\ G[o] \in Cluster \cup {0}
      <4>1. Holds(e.m, G) /\ o \in DOMAIN G
        BY <3>4
      <4> HIDE DEF G
      <4> QED
        BY <4>1, FirstRight DEF Holds
    <3>6. e \in [m : Mem, first : Cluster \cup {0}]
      BY <3>3, <3>4, <3>5
    <3> QED
      BY <3>1, <3>2, <3>6
  <2> QED
    BY <2>1, <2>2
<1> HIDE DEF S, g0
<1>5. step \in Steps(N, S)
  BY <1>4 DEF Steps
<1>6. PICK f : IsRun(f, N, S, g0, step)
  <2> HIDE DEF step
  <2> QED
    BY <1>1, <1>3, <1>5, Iterated
<1>7. \A k \in 1 .. N : f[k] = Longer(f[k - 1], n)
  <2> SUFFICES ASSUME NEW k \in 1 .. N PROVE f[k] = Longer(f[k - 1], n)
    OBVIOUS
  <2>1. k - 1 \in 0 .. N
    BY <1>1
  <2>2. f[k - 1] \in S /\ f[k] = step[k][f[k - 1]]
    <3> HIDE DEF step
    <3> QED
      BY <1>6, <2>1 DEF IsRun
  <2> QED
    BY <2>2
<1>8. IsLoop(f)
  <2>1. f = [k \in 0 .. N |-> f[k]]
    BY <1>6 DEF IsRun
  <2>2. \A k \in 0 .. N : f[k] = IF k = 0 THEN g0 ELSE Longer(f[k - 1], n)
    <3>1. f[0] = g0
      BY <1>6 DEF IsRun
    <3>2. \A k \in 0 .. N : k # 0 => k \in 1 .. N
      BY <1>1
    <3> QED
      BY <1>7, <3>1, <3>2
  <2> QED
    BY <2>1, <2>2
<1>9. IsLoop(loop)
  <2> HIDE DEF IsLoop
  <2> QED
    BY <1>8
<1> DEFINE T == {k \in 0 .. N : loop[k] \in S}
<1> HIDE DEF loop
<1>10. 0 \in T
  BY <1>1, <1>3, <1>9
<1>11. ASSUME NEW k \in 1 .. N, k - 1 \in T PROVE k \in T
  <2>1. k \in 0 .. N /\ k # 0
    BY <1>1
  <2>2. loop[k] = Longer(loop[k - 1], n)
    BY <1>9, <2>1
  <2> QED
    BY <1>4, <1>11, <2>1, <2>2
<1>12. \A k \in 0 .. N : k \in T
  <2> HIDE DEF T
  <2> QED
    BY <1>1, <1>10, <1>11, UpTo
<1>13. loop[N] \in S
  BY <1>1, <1>12
<1> QED
  BY <1>2, <1>13 DEF S

-----------------------------------------------------------------------------
(* The entries                                                             *)

First == Cluster \cup {0}
Info == [next : Nat, free : Nat]
Disk == [fat1 : Table, fat2 : Table, info : Info, ent : Contents]

LEMMA PlaceRight ==
  /\ EPC \in Nat \ {0, 1}
  /\ \A s \in Place : s[1] \in Cluster /\ s[2] \in 1 .. EPC /\ s = <<s[1], s[2]>>
                      /\ s # <<0, 0>>
  /\ \A c \in Cluster, i \in 1 .. EPC : <<c, i>> \in Place
  BY VolumeAssumption, ClusterRight DEF Place

LEMMA AtRight ==
  ASSUME NEW d, d.ent \in Contents, NEW s \in Place
  PROVE  /\ At(d, s) \in Content
         /\ At(d, s).kind = "entry" =>
              \E nm \in Name, dir \in BOOLEAN, first \in First, size \in 0 .. MaxSize :
                At(d, s) = Entry(nm, dir, first, size)
<1>1. At(d, s) \in Content
  BY PlaceRight DEF At, Contents
<1>2. ASSUME NEW x \in Content, x.kind = "entry"
      PROVE  \E nm \in Name, dir \in BOOLEAN, first \in First, size \in 0 .. MaxSize :
                x = Entry(nm, dir, first, size)
  <2>1. x # END /\ x # DEL /\ x # Dot /\ \A nm \in Name : x # Lfn(nm)
    BY <1>2 DEF END, DEL, Dot, Lfn
  <2> QED
    BY <2>1 DEF Content, First
<1> QED
  BY <1>1, <1>2

LEMMA EntryRight ==
  ASSUME NEW nm, NEW dir, NEW first, NEW size
  PROVE  /\ Entry(nm, dir, first, size).kind = "entry" /\ Entry(nm, dir, first, size).name = nm
         /\ Entry(nm, dir, first, size).dir = dir
         /\ Entry(nm, dir, first, size).first = first /\ Entry(nm, dir, first, size).size = size
  BY DEF Entry

LEMMA EntryFields ==
  ASSUME NEW d, d.ent \in Contents, NEW s \in Live(d)
  PROVE  /\ s \in Place /\ At(d, s).first \in First /\ At(d, s).size \in 0 .. MaxSize
         /\ At(d, s).name \in Name /\ At(d, s).dir \in BOOLEAN /\ At(d, s).kind = "entry"
<1>1. s \in Place /\ At(d, s).kind = "entry"
  BY DEF Live
<1>2. PICK nm \in Name, dir \in BOOLEAN, first \in First, size \in 0 .. MaxSize :
        At(d, s) = Entry(nm, dir, first, size)
  BY <1>1, AtRight
<1> QED
  BY <1>1, <1>2, EntryRight

LEMMA FirstsRight ==
  ASSUME NEW d, d.ent \in Contents
  PROVE  /\ IsFunction(Firsts(d)) /\ DOMAIN Firsts(d) = Live(d) \cup {<<0, 0>>}
         /\ Firsts(d)[<<0, 0>>] = Root /\ <<0, 0>> \notin Live(d)
         /\ \A s \in Live(d) : Firsts(d)[s] = At(d, s).first
<1>1. <<0, 0>> \notin Live(d)
  BY PlaceRight DEF Live
<1> QED
  BY <1>1 DEF Firsts, IsFunction

LEMMA LiveSame ==
  ASSUME NEW d, NEW e, e.ent = d.ent
  PROVE  Live(e) = Live(d) /\ Firsts(e) = Firsts(d) /\ \A s : At(e, s) = At(d, s)
<1>1. \A s : At(e, s) = At(d, s)
  BY DEF At
<1>2. Live(e) = Live(d)
  BY <1>1 DEF Live
<1> QED
  BY <1>1, <1>2 DEF Firsts

-----------------------------------------------------------------------------
(* What a crash finds                                                      *)

\* CrashContained of a disk, an entry of B being the call's.
Contained(d, B, full) ==
  \A s \in Live(d) \ B :
    /\ \A c \in ChainOf(d.fat1, d, s) : d.fat1[c] # FREE
    /\ ChainOf(d.fat1, d, s) \cap Chain(d.fat1, Root) = {}
    /\ \A t \in Live(d) \ {s} : ChainOf(d.fat1, d, s) \cap ChainOf(d.fat1, d, t) = {}
    /\ full \/ ReadLength(d.fat1, At(d, s).first, At(d, s).size, 0, MaxSize) = At(d, s).size

LEMMA ReadRight ==
  ASSUME NEW f, NEW first, NEW size \in 0 .. MaxSize, size <= Cardinality(Chain(f, first))
  PROVE  ReadLength(f, first, size, 0, MaxSize) = size
<1> DEFINE k == Cardinality(Chain(f, first))
           S == {MaxSize, size - 0, k - 0}
           T == {0, Min(S)}
<1>1. MaxSize \in Nat /\ k \in Nat /\ size \in Nat /\ size <= MaxSize /\ size <= k
  BY VolumeAssumption, ChainType
<1> HIDE DEF k
<1>2. Min(S) = size
  <2>1. S \in SUBSET Nat /\ S # {} /\ size \in S /\ \A x \in S : size <= x
    BY <1>1
  <2> HIDE DEF S
  <2> DEFINE x == Min(S)
  <2>2. x \in S /\ x <= size
    BY <2>1, MinRight
  <2> HIDE DEF x
  <2>3. x \in Nat /\ size <= x
    BY <2>1, <2>2
  <2>4. x = size
    BY <1>1, <2>2, <2>3
  <2> QED
    BY <2>4 DEF x
<1> HIDE DEF S
<1>3. Max(T) = size
  <2>1. size \in T /\ T \subseteq Nat /\ \A x \in T : size >= x
    BY <1>1, <1>2
  <2> HIDE DEF T
  <2> DEFINE x == Max(T)
  <2>2. x \in T /\ x >= size
    BY <2>1 DEF Max
  <2> HIDE DEF x
  <2>3. x \in Nat /\ size >= x
    BY <2>1, <2>2
  <2>4. x = size
    BY <1>1, <2>2, <2>3
  <2> QED
    BY <2>4 DEF x
<1> QED
  BY <1>3 DEF ReadLength, S, T, k

\* As long as the table is that of d, the entries of a consistent volume are
\* those of d but the call's, which has no chain, that of d, or a free cluster.
Alongside(f, d, e, B) ==
  /\ e.fat1 = f
  /\ \A s \in Live(e) \ B : s \in Live(d) /\ At(e, s) = At(d, s)
  /\ \A s \in Live(e) \cap B :
       \/ At(e, s).first = 0
       \/ s \in Live(d) /\ At(e, s).first = At(d, s).first
       \/ At(e, s).first \in Cluster /\ f[At(e, s).first] = FREE

LEMMA ContainedAlongside ==
  ASSUME NEW f, NEW d, d.ent \in Contents, Tabled(f, Firsts(d)),
         NEW full, full \/ Sized(f, d), NEW B, NEW e, Alongside(f, d, e, B)
  PROVE  Contained(e, B, full)
<1> DEFINE F == Firsts(d)
           Ch(x) == Chain(f, x)
<1>1. /\ DOMAIN F = Live(d) \cup {<<0, 0>>} /\ F[<<0, 0>>] = Root /\ <<0, 0>> \notin Live(d)
      /\ \A s \in Live(d) : F[s] = At(d, s).first
  BY FirstsRight
<1> HIDE DEF F
<1>2. /\ \A o, q \in DOMAIN F : o # q => Ch(F[o]) \cap Ch(F[q]) = {}
      /\ \A o \in DOMAIN F : \A c \in Ch(F[o]) : f[c] # FREE
  BY DEF Tabled, F
<1>3. ASSUME NEW s \in Live(e) \ B
      PROVE  /\ \A c \in ChainOf(e.fat1, e, s) : e.fat1[c] # FREE
             /\ ChainOf(e.fat1, e, s) \cap Chain(e.fat1, Root) = {}
             /\ \A t \in Live(e) \ {s} :
                  ChainOf(e.fat1, e, s) \cap ChainOf(e.fat1, e, t) = {}
             /\ full \/ ReadLength(e.fat1, At(e, s).first, At(e, s).size, 0, MaxSize)
                          = At(e, s).size
  <2>1. s \in Live(d) /\ At(e, s) = At(d, s) /\ e.fat1 = f /\ s \in DOMAIN F /\ F[s] = At(e, s).first
    BY <1>1 DEF Alongside
  <2>2. ChainOf(e.fat1, e, s) = Ch(F[s])
    BY <2>1 DEF ChainOf
  <2>3. \A c \in Ch(F[s]) : f[c] # FREE
    BY <1>2, <2>1
  <2>4. Ch(F[s]) \cap Ch(Root) = {}
    BY <1>1, <1>2, <2>1
  <2>5. ASSUME NEW t \in Live(e) \ {s}
        PROVE  Ch(F[s]) \cap Ch(At(e, t).first) = {}
    <3>1. CASE t \in Live(d) /\ At(e, t).first = At(d, t).first
      <4>1. t \in DOMAIN F /\ F[t] = At(e, t).first
        BY <1>1, <3>1
      <4> QED
        BY <1>2, <2>1, <2>5, <4>1
    <3>2. CASE At(e, t).first = 0
      <4>1. Walk(f, 0, <<>>)
        BY ClusterRight DEF Walk
      <4>2. Ch(0) = {}
        BY <4>1, WalkRight DEF Rng
      <4> QED
        BY <3>2, <4>2
    <3>3. CASE At(e, t).first \in Cluster /\ f[At(e, t).first] = FREE
      <4> DEFINE c == At(e, t).first
      <4>1. c \in Cluster /\ f[c] = FREE
        BY <3>3
      <4> HIDE DEF c
      <4>2. <<c>> \in Seq(Cluster) /\ Len(<<c>>) = 1 /\ <<c>>[1] = c /\ Rng(<<c>>) = {c}
        BY <4>1 DEF Rng
      <4>3. Walk(f, c, <<c>>)
        BY <4>1, <4>2, ClusterRight DEF Walk
      <4>4. Ch(c) = {c}
        BY <4>2, <4>3, WalkRight
      <4> QED
        BY <2>3, <4>1, <4>4 DEF c
    <3> QED
      BY <3>1, <3>2, <3>3 DEF Alongside
  <2>6. full \/ ReadLength(f, At(e, s).first, At(e, s).size, 0, MaxSize) = At(e, s).size
    <3>1. CASE full
      BY <3>1
    <3>2. CASE ~full
      <4>1. At(e, s).size \in 0 .. MaxSize /\ At(e, s).size <= Cardinality(Chain(f, At(e, s).first))
        BY <2>1, <3>2, EntryFields DEF Sized, ChainOf
      <4> QED
        BY <4>1, ReadRight
    <3> QED
      BY <3>1, <3>2
  <2> QED
    BY <2>1, <2>2, <2>3, <2>4, <2>5, <2>6 DEF ChainOf
<1> QED
  BY <1>3 DEF Contained

-----------------------------------------------------------------------------
(* The sectors                                                             *)

Node == [at : Place \cup {<<0, 0>>}, first : First, size : 0 .. MaxSize, dirty : BOOLEAN]

\* A node that is held has an entry.
Held == {n \in Node : n.at \in Place}

Op ==
  [op : {"zero"}, c : Cluster]
  \cup [op : {"put"}, at : Place, entry : Content, undo : First]
  \cup [op : {"update"}, at : Int \X (1 .. EPC), first : First, size : 0 .. MaxSize]
  \cup [op : {"delete"}, from : Place, to : Place]
  \cup [op : {"hold"}, h : Handle, node : Held]
  \cup [op : {"fat1", "fat2", "info", "mount"}]

LEMMA UpdateRight ==
  ASSUME NEW s \in Place, NEW first \in First, NEW size \in 0 .. MaxSize
  PROVE  /\ Update(s, first, size) \in Op /\ Update(Packed(s), first, size) \in Op
         /\ Update(s, first, size).op = "update" /\ Update(Packed(s), first, size).op = "update"
<1>1. s[1] \in Int /\ s[2] \in 1 .. EPC /\ s = <<s[1], s[2]>>
  BY PlaceRight, ClusterRight
<1>2. ((Data + s[1] - 2) % W) - Data + 2 \in Int
  <2> DEFINE a == Data + s[1] - 2
  <2>1. a \in Int /\ W \in Nat \ {0} /\ Data \in Int
    BY <1>1, VolumeAssumption
  <2> HIDE DEF a
  <2>2. a % W \in Int
    BY <2>1
  <2> QED
    BY <2>1, <2>2 DEF a
<1>3. Packed(s) \in Int \X (1 .. EPC) /\ s \in Int \X (1 .. EPC)
  BY <1>1, <1>2 DEF Packed
<1>4. ASSUME NEW at \in Int \X (1 .. EPC)
      PROVE  Update(at, first, size) \in Op /\ Update(at, first, size).op = "update"
  BY DEF Update, Op
<1> QED
  BY <1>3, <1>4

LEMMA Multiples ==
  ASSUME NEW a \in Nat, NEW b \in Nat, NEW n \in Nat, a < b
  PROVE  a * n + n <= b * n /\ a * n \in Nat /\ b * n \in Nat
<1> DEFINE k == b - a - 1
<1>1. k \in Nat /\ b = a + 1 + k
  OBVIOUS
<1> HIDE DEF k
<1>2. b * n = a * n + n + k * n /\ k * n \in Nat /\ a * n \in Nat /\ b * n \in Nat
  BY <1>1
<1> QED
  BY <1>2

\* The positions on the disk are in order.
Where(s) == s[1] * EPC + s[2]

LEMMA WhereRight ==
  ASSUME NEW s \in Place, NEW t \in Place
  PROVE  /\ Where(s) \in Nat /\ (Where(s) = Where(t) => s = t)
<1>1. s[1] \in Nat /\ t[1] \in Nat /\ s[2] \in 1 .. EPC /\ t[2] \in 1 .. EPC /\ EPC \in Nat
  BY PlaceRight, ClusterRight
<1> DEFINE a == s[1]
           b == t[1]
           i == s[2]
           j == t[2]
<1>2. s = <<a, i>> /\ t = <<b, j>>
  BY PlaceRight
<1>3. a \in Nat /\ b \in Nat /\ i \in 1 .. EPC /\ j \in 1 .. EPC
  BY <1>1
<1> HIDE DEF a, b, i, j
<1>4. Where(s) = a * EPC + i /\ Where(t) = b * EPC + j
  BY DEF Where, a, b, i, j
<1>5. a * EPC \in Nat /\ b * EPC \in Nat
  BY <1>1, <1>3
<1>6. ASSUME Where(s) = Where(t) PROVE s = t
  <2>1. CASE a < b
    <3>1. a * EPC + EPC <= b * EPC
      BY <1>1, <1>3, <2>1, Multiples
    <3> HIDE DEF Where
    <3> QED
      BY <1>1, <1>3, <1>4, <1>5, <1>6, <3>1
  <2>2. CASE b < a
    <3>1. b * EPC + EPC <= a * EPC
      BY <1>1, <1>3, <2>2, Multiples
    <3> QED
      BY <1>1, <1>3, <1>4, <1>5, <1>6, <3>1
  <2>3. CASE a = b
    <3>1. i = j
      BY <1>3, <1>4, <1>5, <1>6, <2>3
    <3> QED
      BY <1>2, <2>3, <3>1
  <2> QED
    BY <1>3, <2>1, <2>2, <2>3
<1> QED
  BY <1>3, <1>4, <1>5, <1>6

LEMMA BetweenSame ==
  ASSUME NEW s \in Place
  PROVE  Between(s, s) = {s}
<1>1. \A t \in Place : Where(t) >= Where(s) /\ Where(t) <= Where(s) <=> t = s
  BY WhereRight
<1>2. Between(s, s) = {t \in Place : Where(t) >= Where(s) /\ Where(t) <= Where(s)}
  BY DEF Between, Where, Place
<1> QED
  BY <1>1, <1>2

LEMMA BetweenNext ==
  ASSUME NEW s \in Place, After(s) \in Place
  PROVE  Between(s, After(s)) = {s, After(s)}
<1> DEFINE t == After(s)
<1>1. Where(t) = Where(s) + 1
  <2>1. s[1] \in Nat /\ s[2] \in 1 .. EPC /\ EPC \in Nat \ {0, 1}
    BY PlaceRight, ClusterRight
  <2>2. CASE s[2] < EPC
    <3>1. t = <<s[1], s[2] + 1>>
      BY <2>2 DEF After
    <3>2. s[1] * EPC \in Nat
      BY <2>1
    <3> QED
      BY <2>1, <3>1, <3>2 DEF Where
  <2>3. CASE ~(s[2] < EPC)
    <3>1. t = <<s[1] + 1, 1>> /\ s[2] = EPC
      BY <2>1, <2>3 DEF After
    <3>2. (s[1] + 1) * EPC = s[1] * EPC + EPC /\ s[1] * EPC \in Nat
      BY <2>1
    <3> QED
      BY <2>1, <3>1, <3>2 DEF Where
  <2> QED
    BY <2>2, <2>3
<1>2. t \in Place
  OBVIOUS
<1> HIDE DEF t
<1>3. \A r \in Place : Where(r) >= Where(s) /\ Where(r) <= Where(t) <=> r \in {s, t}
  <2> SUFFICES ASSUME NEW r \in Place
               PROVE  Where(r) >= Where(s) /\ Where(r) <= Where(t) <=> r \in {s, t}
    OBVIOUS
  <2>1. Where(r) \in Nat /\ Where(s) \in Nat /\ (Where(r) = Where(s) => r = s)
        /\ (Where(r) = Where(t) => r = t)
    BY <1>2, WhereRight
  <2> QED
    BY <1>1, <2>1
<1>4. Between(s, t) = {r \in Place : Where(r) >= Where(s) /\ Where(r) <= Where(t)}
  BY DEF Between, Where, Place
<1>5. Between(s, t) = {s, t}
  BY <1>2, <1>3, <1>4
<1> QED
  BY <1>5 DEF t

\* Only entries change.
Entries(d, e) == e \in Disk /\ e.fat1 = d.fat1 /\ e.fat2 = d.fat2 /\ e.info = d.info

\* The entry at s is x, and nothing else changes.
PutAt(d, e, s, x) ==
  Entries(d, e) /\ \A t \in Place : At(e, t) = IF t = s THEN x ELSE At(d, t)

LEMMA WrittenZero ==
  ASSUME NEW m, NEW d \in Disk, NEW c \in Cluster
  PROVE  LET e == Written(m, d, Zero(c)) IN
         Entries(d, e) /\ \A t \in Place : At(e, t) = IF t[1] = c THEN END ELSE At(d, t)
<1> DEFINE row == [i \in 1 .. EPC |-> END]
           e == Written(m, d, Zero(c))
           ent == [d.ent EXCEPT ![c] = row]
<1>1. e = [d EXCEPT !.ent[c] = row]
  BY DEF Written, Zero
<1>2. row \in [1 .. EPC -> Content] /\ \A i \in 1 .. EPC : row[i] = END
  BY DEF Content
<1> HIDE DEF row
<1>3. d.ent \in Contents
  BY DEF Disk
<1>4. ent \in Contents /\ \A x \in Cluster : ent[x] = IF x = c THEN row ELSE d.ent[x]
  BY <1>2, <1>3 DEF Contents
<1>5. e = [d EXCEPT !.ent = ent]
  BY <1>1 DEF Disk
<1> HIDE DEF ent, e
<1>6. Entries(d, e) /\ e.ent = ent
  BY <1>4, <1>5 DEF Disk, Entries
<1>7. \A t \in Place : At(e, t) = IF t[1] = c THEN END ELSE At(d, t)
  BY <1>2, <1>4, <1>6, PlaceRight DEF At
<1> QED
  BY <1>6, <1>7 DEF e

LEMMA PutRight ==
  ASSUME NEW d \in Disk, NEW s \in Place, NEW x \in Content
  PROVE  PutAt(d, [d EXCEPT !.ent[s[1]][s[2]] = x], s, x)
<1> DEFINE c == s[1]
           i == s[2]
           row == [d.ent[c] EXCEPT ![i] = x]
           ent == [d.ent EXCEPT ![c] = row]
           e == [d EXCEPT !.ent = ent]
<1>1. c \in Cluster /\ i \in 1 .. EPC /\ s = <<c, i>>
  BY PlaceRight
<1>2. d.ent \in Contents
  BY DEF Disk
<1> HIDE DEF c, i
<1>3. row \in [1 .. EPC -> Content]
      /\ \A j \in 1 .. EPC : row[j] = IF j = i THEN x ELSE d.ent[c][j]
  BY <1>1, <1>2 DEF Contents
<1>4. [d EXCEPT !.ent[c][i] = x] = e
  BY <1>1, <1>2 DEF Disk, Contents
<1> HIDE DEF row
<1>5. ent \in Contents /\ \A y \in Cluster : ent[y] = IF y = c THEN row ELSE d.ent[y]
  BY <1>1, <1>2, <1>3 DEF Contents
<1> HIDE DEF ent
<1>6. Entries(d, e) /\ e.ent = ent
  BY <1>5 DEF Disk, Entries
<1> HIDE DEF e
<1>7. ASSUME NEW t \in Place PROVE At(e, t) = IF t = s THEN x ELSE At(d, t)
  <2>1. t[1] \in Cluster /\ t[2] \in 1 .. EPC /\ t = <<t[1], t[2]>>
    BY PlaceRight
  <2>2. CASE t[1] = c
    <3>1. At(e, t) = IF t[2] = i THEN x ELSE d.ent[c][t[2]]
      BY <1>3, <1>5, <1>6, <2>1, <2>2 DEF At
    <3>2. At(d, t) = d.ent[c][t[2]] /\ (t = s <=> t[2] = i)
      BY <1>1, <2>1, <2>2 DEF At
    <3> QED
      BY <3>1, <3>2
  <2>3. CASE t[1] # c
    <3>1. At(e, t) = At(d, t) /\ t # s
      BY <1>1, <1>5, <1>6, <2>1, <2>3 DEF At
    <3> QED
      BY <3>1
  <2> QED
    BY <2>2, <2>3
<1>8. PutAt(d, e, s, x)
  BY <1>6, <1>7 DEF PutAt
<1> QED
  BY <1>4, <1>8 DEF c, i

LEMMA WrittenPut ==
  ASSUME NEW m, NEW d \in Disk, NEW s \in Place, NEW x \in Content, NEW undo
  PROVE  PutAt(d, Written(m, d, Put(s, x, undo)), s, x)
<1>1. Written(m, d, Put(s, x, undo)) = [d EXCEPT !.ent[s[1]][s[2]] = x]
  BY DEF Written, Put
<1> QED
  BY <1>1, PutRight

Updated(x, first, size) == Entry(x.name, x.dir, first, size)

LEMMA WrittenUpdate ==
  ASSUME NEW m, NEW d \in Disk, NEW s \in Place, NEW first \in First, NEW size \in 0 .. MaxSize
  PROVE  LET e == Written(m, d, Update(s, first, size)) IN
         IF At(d, s).kind = "entry" THEN PutAt(d, e, s, Updated(At(d, s), first, size))
         ELSE e = d
<1> DEFINE e == Written(m, d, Update(s, first, size))
           x == At(d, s)
           y == Updated(x, first, size)
<1>1. e = IF x.kind # "entry" THEN d
          ELSE [d EXCEPT !.ent[s[1]][s[2]].first = first, !.ent[s[1]][s[2]].size = size]
  <2>1. s \in Cluster \X (1 .. EPC)
    BY DEF Place
  <2> QED
    BY <2>1 DEF Written, Update
<1>2. CASE x.kind # "entry"
  BY <1>1, <1>2
<1>3. CASE x.kind = "entry"
  <2> DEFINE c == s[1]
             i == s[2]
  <2>1. d.ent \in Contents /\ s \in Live(d)
    BY <1>3 DEF Disk, Live
  <2>2. PICK nm \in Name, dir \in BOOLEAN, a \in First, b \in 0 .. MaxSize :
          x = Entry(nm, dir, a, b)
    BY <1>3, <2>1, AtRight
  <2>3. y = Entry(nm, dir, first, size) /\ y \in Content
    BY <2>2, EntryRight DEF Updated, Content, First
  <2>4. y = [[x EXCEPT !.first = first] EXCEPT !.size = size]
    <3> HIDE DEF x, y
    <3>1. [Entry(nm, dir, a, b) EXCEPT !.first = first] = Entry(nm, dir, first, b)
      BY DEF Entry
    <3>2. [Entry(nm, dir, first, b) EXCEPT !.size = size] = Entry(nm, dir, first, size)
      BY DEF Entry
    <3> QED
      BY <2>2, <2>3, <3>1, <3>2, Zenon
  <2>5. c \in Cluster /\ i \in 1 .. EPC /\ x = d.ent[c][i]
    BY PlaceRight DEF At
  <2>6. e = [d EXCEPT !.ent[c][i].first = first, !.ent[c][i].size = size]
    BY <1>1, <1>3
  <2> HIDE DEF c, i, x, y
  <2>7. [d EXCEPT !.ent[c][i].first = first, !.ent[c][i].size = size] = [d EXCEPT !.ent[c][i] = y]
    <3> DEFINE x1 == [x EXCEPT !.first = first]
               row == d.ent[c]
               row1 == [row EXCEPT ![i] = x1]
               row2 == [row EXCEPT ![i] = y]
               ent1 == [d.ent EXCEPT ![c] = row1]
               ent2 == [d.ent EXCEPT ![c] = row2]
               d1 == [d EXCEPT !.ent = ent1]
    <3>1. [d EXCEPT !.ent[c][i].first = first] = d1
      BY <2>5
    <3>2. d1.ent[c][i] = x1 /\ d1.ent[c] = row1 /\ d1.ent = ent1
      BY <2>1, <2>5 DEF Disk, Contents
    <3>3. [d1 EXCEPT !.ent[c][i].size = size]
            = [d1 EXCEPT !.ent = [ent1 EXCEPT ![c] = [row1 EXCEPT ![i] = [x1 EXCEPT !.size = size]]]]
      BY <3>2
    <3>4. [row1 EXCEPT ![i] = y] = row2
      BY <2>1, <2>5 DEF Contents
    <3>5. [ent1 EXCEPT ![c] = row2] = ent2
      BY <2>1, <2>5 DEF Contents
    <3>6. [d1 EXCEPT !.ent = ent2] = [d EXCEPT !.ent = ent2]
      BY DEF Disk
    <3>7. [d1 EXCEPT !.ent[c][i].size = size] = [d EXCEPT !.ent = ent2]
      BY <2>4, <3>3, <3>4, <3>5, <3>6
    <3>8. [d EXCEPT !.ent[c][i] = y] = [d EXCEPT !.ent = ent2]
      OBVIOUS
    <3> QED
      BY <3>1, <3>7, <3>8
  <2>8. e = [d EXCEPT !.ent[s[1]][s[2]] = y]
    BY <2>6, <2>7 DEF c, i
  <2>9. PutAt(d, e, s, y)
    <3> HIDE DEF e
    <3> QED
      BY <2>3, <2>8, PutRight
  <2> QED
    BY <1>3, <2>9 DEF x, y
<1> QED
  BY <1>2, <1>3

LEMMA WrittenDelete ==
  ASSUME NEW m, NEW d \in Disk, NEW from, NEW to
  PROVE  LET e == Written(m, d, Delete(from, to)) IN
         Entries(d, e) /\ \A t \in Place :
           At(e, t) = IF t \in Between(from, to) THEN DEL ELSE At(d, t)
<1> DEFINE e == Written(m, d, Delete(from, to))
           B == Between(from, to)
           ent == [c \in Cluster |-> [i \in 1 .. EPC |->
                     IF <<c, i>> \in B THEN DEL ELSE d.ent[c][i]]]
<1>1. e = [d EXCEPT !.ent = ent]
  BY DEF Written, Delete
<1>2. d.ent \in Contents
  BY DEF Disk
<1> HIDE DEF B
<1>3. ent \in Contents
  <2>1. DEL \in Content
    BY DEF Content
  <2>2. \A c \in Cluster, i \in 1 .. EPC : d.ent[c][i] \in Content
    BY <1>2 DEF Contents
  <2> QED
    BY <2>1, <2>2 DEF Contents
<1>4. \A c \in Cluster, i \in 1 .. EPC : ent[c][i] = IF <<c, i>> \in B THEN DEL ELSE d.ent[c][i]
  OBVIOUS
<1> HIDE DEF ent, e
<1>5. Entries(d, e) /\ e.ent = ent
  BY <1>1, <1>3 DEF Disk, Entries
<1>6. \A t \in Place : At(e, t) = IF t \in B THEN DEL ELSE At(d, t)
  BY <1>4, <1>5, PlaceRight DEF At
<1> QED
  BY <1>5, <1>6 DEF e, B

\* A flush writes the table twice and then the counts.
CopyAt(d, e, fat1, fat2, info) ==
  e \in Disk /\ e.fat1 = fat1 /\ e.fat2 = fat2 /\ e.info = info /\ e.ent = d.ent

Counts(m) == [next |-> m.next, free |-> m.free]

LEMMA WrittenRest ==
  ASSUME NEW m \in Mem, NEW d \in Disk
  PROVE  /\ CopyAt(d, Written(m, d, [op |-> "fat1"]), m.fat, d.fat2, d.info)
         /\ CopyAt(d, Written(m, d, [op |-> "fat2"]), d.fat1, m.fat, d.info)
         /\ CopyAt(d, Written(m, d, [op |-> "info"]), d.fat1, d.fat2, Counts(m))
         /\ Written(m, d, [op |-> "mount"]) = d
         /\ \A h, n : Written(m, d, Hold(h, n)) = d
<1>1. CopyAt(d, Written(m, d, [op |-> "fat1"]), m.fat, d.fat2, d.info)
  <2>1. Written(m, d, [op |-> "fat1"]) = [d EXCEPT !.fat1 = m.fat]
    BY DEF Written
  <2> QED
    BY <2>1 DEF Disk, Mem, CopyAt
<1>2. CopyAt(d, Written(m, d, [op |-> "fat2"]), d.fat1, m.fat, d.info)
  <2>1. Written(m, d, [op |-> "fat2"]) = [d EXCEPT !.fat2 = m.fat]
    BY DEF Written
  <2> QED
    BY <2>1 DEF Disk, Mem, CopyAt
<1>3. CopyAt(d, Written(m, d, [op |-> "info"]), d.fat1, d.fat2, Counts(m))
  <2>1. Written(m, d, [op |-> "info"]) = [d EXCEPT !.info = Counts(m)]
    BY DEF Written, Counts
  <2>2. Counts(m) \in Info
    BY DEF Counts, Mem, Info
  <2> HIDE DEF Counts
  <2> QED
    BY <2>1, <2>2 DEF Disk, CopyAt
<1>4. Written(m, d, [op |-> "mount"]) = d
  BY DEF Written
<1>5. \A h, n : Written(m, d, Hold(h, n)) = d
  BY DEF Written, Hold
<1> QED
  BY <1>1, <1>2, <1>3, <1>4, <1>5

LEMMA WrittenType ==
  ASSUME NEW m \in Mem, NEW d \in Disk, NEW w \in Op
  PROVE  Written(m, d, w) \in Disk
<1>1. CASE w \in [op : {"zero"}, c : Cluster]
  <2>1. w = Zero(w.c) /\ w.c \in Cluster
    BY <1>1 DEF Zero
  <2> DEFINE c == w.c
  <2>2. c \in Cluster /\ Written(m, d, w) = Written(m, d, Zero(c))
    BY <2>1
  <2> HIDE DEF c
  <2> QED
    BY <2>2, WrittenZero DEF Entries
<1>2. CASE w \in [op : {"put"}, at : Place, entry : Content, undo : First]
  <2> DEFINE s == w.at
             x == w.entry
             u == w.undo
  <2>1. w = Put(s, x, u) /\ s \in Place /\ x \in Content
    BY <1>2 DEF Put
  <2> HIDE DEF s, x, u
  <2>2. PutAt(d, Written(m, d, Put(s, x, u)), s, x)
    BY <2>1, WrittenPut
  <2> QED
    BY <2>1, <2>2 DEF PutAt, Entries
<1>3. CASE w \in [op : {"update"}, at : Int \X (1 .. EPC), first : First, size : 0 .. MaxSize]
  <2> DEFINE s == w.at
             first == w.first
             size == w.size
  <2>1. w = Update(s, first, size) /\ first \in First /\ size \in 0 .. MaxSize
    BY <1>3 DEF Update
  <2> HIDE DEF s, first, size
  <2> DEFINE e == Written(m, d, Update(s, first, size))
  <2>2. CASE s \in Place
    <3>1. IF At(d, s).kind = "entry" THEN PutAt(d, e, s, Updated(At(d, s), first, size)) ELSE e = d
      BY <2>1, <2>2, WrittenUpdate
    <3> HIDE DEF e
    <3>2. e \in Disk
      BY <3>1 DEF PutAt, Entries
    <3> QED
      BY <2>1, <3>2 DEF e
  <2>3. CASE s \notin Place
    <3>1. e = d
      BY <2>3 DEF Written, Update, Place
    <3> QED
      BY <2>1, <3>1
  <2> QED
    BY <2>2, <2>3
<1>4. CASE w \in [op : {"delete"}, from : Place, to : Place]
  <2> DEFINE from == w.from
             to == w.to
  <2>1. w = Delete(from, to)
    BY <1>4 DEF Delete
  <2> HIDE DEF from, to
  <2> QED
    BY <2>1, WrittenDelete DEF Entries
<1>5. CASE w \in [op : {"hold"}, h : Handle, node : Held]
  <2>1. w.op = "hold"
    BY <1>5
  <2> QED
    BY <2>1 DEF Written
<1>6. CASE w \in [op : {"fat1", "fat2", "info", "mount"}]
  <2>1. w \in {[op |-> "fat1"], [op |-> "fat2"], [op |-> "info"], [op |-> "mount"]}
    BY <1>6
  <2> QED
    BY <2>1, WrittenRest DEF CopyAt
<1> QED
  BY <1>1, <1>2, <1>3, <1>4, <1>5, <1>6 DEF Op

\* What is written depends on the table and on the counts alone.
SameVolume(m, n) == n.fat = m.fat /\ n.next = m.next /\ n.free = m.free

LEMMA WrittenSame ==
  ASSUME NEW m, NEW n, SameVolume(m, n), NEW d, NEW w
  PROVE  Written(n, d, w) = Written(m, d, w) /\ Torn(n, d, w) = Torn(m, d, w)
<1>1. Written(n, d, w) = Written(m, d, w)
  BY DEF Written, SameVolume
<1>2. Torn(n, d, w) = Torn(m, d, w)
  BY DEF Torn, SameVolume
<1> QED
  BY <1>1, <1>2

-----------------------------------------------------------------------------
(* The disks a call goes through                                           *)

\* A crash within the write w is contained.
Breaks(m, d, w, B, full) ==
  \A x \in Torn(m, d, w) : x \in Disk /\ Contained(x, B, full)

\* From disk d the writes p lead to e, and a crash on the way is contained.
Way(m, d, p, B, full, e, ds) ==
  /\ ds \in [0 .. Len(p) -> Disk] /\ ds[0] = d /\ ds[Len(p)] = e
  /\ \A k \in 1 .. Len(p) : ds[k] = Written(m, ds[k - 1], p[k])
  /\ \A k \in 0 .. Len(p) : Contained(ds[k], B, full)
  /\ \A k \in 1 .. Len(p) : Breaks(m, ds[k - 1], p[k], B, full)

Leads(m, d, p, B, full, e) == \E ds : Way(m, d, p, B, full, e, ds)

LEMMA LeadsNil ==
  ASSUME NEW m, NEW d \in Disk, NEW B, NEW full, Contained(d, B, full)
  PROVE  Leads(m, d, <<>>, B, full, d)
<1> DEFINE ds == [k \in 0 .. 0 |-> d]
<1>1. ds \in [0 .. 0 -> Disk] /\ ds[0] = d /\ Len(<<>>) = 0 /\ \A k \in 0 .. 0 : ds[k] = d
  OBVIOUS
<1> HIDE DEF ds
<1>2. Way(m, d, <<>>, B, full, d, ds)
  BY <1>1 DEF Way
<1> QED
  BY <1>2 DEF Leads

LEMMA LeadsAny ==
  ASSUME NEW m, NEW d \in Disk, NEW e \in Disk, NEW B, NEW full, NEW w,
         e = Written(m, d, w), Contained(d, B, full), Contained(e, B, full),
         Breaks(m, d, w, B, full)
  PROVE  Leads(m, d, <<w>>, B, full, e)
<1> DEFINE ds == [k \in 0 .. 1 |-> IF k = 0 THEN d ELSE e]
           p == <<w>>
<1>1. ds \in [0 .. 1 -> Disk] /\ ds[0] = d /\ ds[1] = e /\ Len(p) = 1 /\ p[1] = w
  OBVIOUS
<1>2. \A k \in 0 .. 1 : ds[k] = d \/ ds[k] = e
  OBVIOUS
<1> HIDE DEF ds, p
<1>3. \A k \in 0 .. 1 : Contained(ds[k], B, full)
  BY <1>2
<1>4. \A k \in 1 .. 1 : ds[k] = Written(m, ds[k - 1], p[k])
  <2>1. \A k \in 1 .. 1 : k = 1 /\ k - 1 = 0
    OBVIOUS
  <2> QED
    BY <1>1, <2>1
<1>5. \A k \in 1 .. 1 : Breaks(m, ds[k - 1], p[k], B, full)
  <2>1. \A k \in 1 .. 1 : k = 1 /\ k - 1 = 0
    OBVIOUS
  <2> QED
    BY <1>1, <2>1
<1>6. Way(m, d, p, B, full, e, ds)
  BY <1>1, <1>3, <1>4, <1>5 DEF Way
<1> QED
  BY <1>6 DEF Leads, p

\* All but the copies of the table is written in whole or not at all.
LEMMA LeadsOne ==
  ASSUME NEW m, NEW d \in Disk, NEW e \in Disk, NEW B, NEW full, NEW w,
         w.op \notin {"fat1", "fat2"},
         e = Written(m, d, w), Contained(d, B, full), Contained(e, B, full)
  PROVE  Leads(m, d, <<w>>, B, full, e)
<1>1. Torn(m, d, w) = {d}
  BY DEF Torn
<1>2. Breaks(m, d, w, B, full)
  BY <1>1 DEF Breaks
<1> QED
  BY <1>2, LeadsAny

LEMMA LeadsStart ==
  ASSUME NEW m, NEW d, NEW p \in Seq(Op), NEW B, NEW full, NEW e, Leads(m, d, p, B, full, e)
  PROVE  d \in Disk /\ e \in Disk /\ Contained(d, B, full) /\ Contained(e, B, full)
         /\ (p = <<>> => e = d)
<1>1. PICK ds : Way(m, d, p, B, full, e, ds)
  BY DEF Leads
<1>2. Len(p) \in Nat /\ 0 \in 0 .. Len(p) /\ Len(p) \in 0 .. Len(p)
  OBVIOUS
<1>3. p = <<>> => Len(p) = 0
  OBVIOUS
<1> QED
  BY <1>1, <1>2, <1>3 DEF Way

LEMMA LeadsTorn ==
  ASSUME NEW m, NEW d, NEW p \in Seq(Op), NEW B, NEW full, NEW e, Leads(m, d, p, B, full, e),
         p # <<>>
  PROVE  Breaks(m, d, Head(p), B, full)
<1>1. PICK ds : Way(m, d, p, B, full, e, ds)
  BY DEF Leads
<1>2. 1 \in 1 .. Len(p) /\ 1 - 1 = 0 /\ Head(p) = p[1]
  OBVIOUS
<1> QED
  BY <1>1, <1>2 DEF Way

LEMMA LeadsStep ==
  ASSUME NEW m, NEW d, NEW p \in Seq(Op), NEW B, NEW full, NEW e, Leads(m, d, p, B, full, e),
         p # <<>>
  PROVE  Leads(m, Written(m, d, Head(p)), Tail(p), B, full, e)
<1>1. PICK ds : Way(m, d, p, B, full, e, ds)
  BY DEF Leads
<1> DEFINE L == Len(p)
           q == Tail(p)
           es == [k \in 0 .. L - 1 |-> ds[k + 1]]
<1>2. L \in Nat \ {0} /\ Len(q) = L - 1 /\ Head(p) = p[1] /\ \A k \in 1 .. L - 1 : q[k] = p[k + 1]
  OBVIOUS
<1> HIDE DEF q
<1>3. \A k \in 0 .. L - 1 : k + 1 \in 1 .. L /\ k + 1 \in 0 .. L /\ (k + 1) - 1 = k /\ es[k] = ds[k + 1]
  BY <1>2
<1>4. /\ ds \in [0 .. L -> Disk] /\ ds[0] = d /\ ds[L] = e
      /\ \A k \in 1 .. L : ds[k] = Written(m, ds[k - 1], p[k])
      /\ \A k \in 0 .. L : Contained(ds[k], B, full)
      /\ \A k \in 1 .. L : Breaks(m, ds[k - 1], p[k], B, full)
  BY <1>1 DEF Way
<1>5. es \in [0 .. L - 1 -> Disk]
  BY <1>3, <1>4
<1> HIDE DEF es, L
<1>6. es[0] = Written(m, d, Head(p)) /\ es[L - 1] = e
  <2>1. 0 \in 0 .. L - 1 /\ L - 1 \in 0 .. L - 1 /\ (L - 1) + 1 = L /\ 0 + 1 = 1 /\ 1 \in 1 .. L /\ 1 - 1 = 0
    BY <1>2
  <2> QED
    BY <1>2, <1>3, <1>4, <2>1
<1>7. ASSUME NEW k \in 1 .. L - 1
      PROVE  es[k] = Written(m, es[k - 1], q[k]) /\ Breaks(m, es[k - 1], q[k], B, full)
  <2>1. k \in 0 .. L - 1 /\ k - 1 \in 0 .. L - 1 /\ (k - 1) + 1 = k
    BY <1>2
  <2>2. es[k] = ds[k + 1] /\ es[k - 1] = ds[k] /\ k + 1 \in 1 .. L /\ (k + 1) - 1 = k
    BY <1>3, <2>1
  <2>3. ds[k + 1] = Written(m, ds[k], p[k + 1]) /\ Breaks(m, ds[k], p[k + 1], B, full)
    BY <1>4, <2>2
  <2> QED
    BY <1>2, <2>2, <2>3
<1>8. \A k \in 0 .. L - 1 : Contained(es[k], B, full)
  BY <1>3, <1>4
<1>9. Way(m, Written(m, d, Head(p)), q, B, full, e, es)
  BY <1>2, <1>5, <1>6, <1>7, <1>8 DEF Way
<1> QED
  BY <1>9 DEF Leads, q

LEMMA LeadsJoin ==
  ASSUME NEW m, NEW d, NEW p \in Seq(Op), NEW B, NEW full, NEW e, Leads(m, d, p, B, full, e),
         NEW q \in Seq(Op), NEW g, Leads(m, e, q, B, full, g)
  PROVE  Leads(m, d, p \o q, B, full, g)
<1>1. PICK ds : Way(m, d, p, B, full, e, ds)
  BY DEF Leads
<1>2. PICK es : Way(m, e, q, B, full, g, es)
  BY DEF Leads
<1> DEFINE K == Len(p)
           L == Len(q)
           r == p \o q
           fs == [k \in 0 .. K + L |-> IF k <= K THEN ds[k] ELSE es[k - K]]
<1>3. K \in Nat /\ L \in Nat /\ Len(r) = K + L /\ (\A k \in 1 .. K : r[k] = p[k])
      /\ \A k \in 1 .. K + L : k > K => r[k] = q[k - K]
  OBVIOUS
<1> HIDE DEF r
<1>4. /\ ds \in [0 .. K -> Disk] /\ ds[0] = d /\ ds[K] = e
      /\ \A k \in 1 .. K : ds[k] = Written(m, ds[k - 1], p[k])
      /\ \A k \in 0 .. K : Contained(ds[k], B, full)
      /\ \A k \in 1 .. K : Breaks(m, ds[k - 1], p[k], B, full)
  BY <1>1 DEF Way
<1>5. /\ es \in [0 .. L -> Disk] /\ es[0] = e /\ es[L] = g
      /\ \A k \in 1 .. L : es[k] = Written(m, es[k - 1], q[k])
      /\ \A k \in 0 .. L : Contained(es[k], B, full)
      /\ \A k \in 1 .. L : Breaks(m, es[k - 1], q[k], B, full)
  BY <1>2 DEF Way
<1> HIDE DEF K, L
<1>6. /\ \A k \in 0 .. K : fs[k] = ds[k]
      /\ \A k \in 0 .. L : fs[K + k] = es[k]
  <2>1. \A k \in 0 .. K : k \in 0 .. K + L /\ k <= K
    BY <1>3
  <2>2. ASSUME NEW k \in 0 .. L PROVE fs[K + k] = es[k]
    <3>1. K + k \in 0 .. K + L /\ (K + k) - K = k
      BY <1>3
    <3>2. CASE k = 0
      BY <1>3, <1>4, <1>5, <3>1, <3>2
    <3>3. CASE k # 0
      <4>1. ~(K + k <= K)
        BY <1>3, <3>3
      <4> QED
        BY <3>1, <4>1
    <3> QED
      BY <3>2, <3>3
  <2> QED
    BY <2>1, <2>2
<1>7. \A k \in 0 .. K + L : k \in 0 .. K \/ (k - K \in 1 .. L /\ k = K + (k - K))
  BY <1>3
<1>8. fs \in [0 .. K + L -> Disk]
  <2>1. \A k \in 0 .. K + L : fs[k] \in Disk
    <3>1. \A k \in 1 .. L : k \in 0 .. L
      OBVIOUS
    <3> HIDE DEF fs
    <3> QED
      BY <1>4, <1>5, <1>6, <1>7, <3>1
  <2>2. fs = [k \in 0 .. K + L |-> fs[k]]
    OBVIOUS
  <2> HIDE DEF fs
  <2> QED
    BY <2>1, <2>2
<1> HIDE DEF fs
<1>9. fs[0] = d /\ fs[K + L] = g
  BY <1>3, <1>4, <1>5, <1>6
<1>10. ASSUME NEW k \in 1 .. K + L
       PROVE  fs[k] = Written(m, fs[k - 1], r[k]) /\ Breaks(m, fs[k - 1], r[k], B, full)
  <2>1. CASE k <= K
    <3>1. k \in 1 .. K /\ k \in 0 .. K /\ k - 1 \in 0 .. K
      BY <1>3, <2>1
    <3> QED
      BY <1>3, <1>4, <1>6, <3>1
  <2>2. CASE ~(k <= K)
    <3> DEFINE j == k - K
    <3>1. j \in 1 .. L /\ j \in 0 .. L /\ j - 1 \in 0 .. L /\ K + j = k /\ K + (j - 1) = k - 1
      BY <1>3, <2>2
    <3>2. r[k] = q[j]
      BY <1>3, <2>2
    <3> HIDE DEF j
    <3>3. fs[k] = es[j] /\ fs[k - 1] = es[j - 1]
      BY <1>6, <3>1
    <3> QED
      BY <1>5, <3>1, <3>2, <3>3
  <2> QED
    BY <2>1, <2>2
<1>11. \A k \in 0 .. K + L : Contained(fs[k], B, full)
  <2>1. \A k \in 1 .. L : k \in 0 .. L
    OBVIOUS
  <2> QED
    BY <1>4, <1>5, <1>6, <1>7, <2>1
<1>12. Way(m, d, r, B, full, g, fs)
  BY <1>3, <1>8, <1>9, <1>10, <1>11 DEF Way
<1> QED
  BY <1>12 DEF Leads, r

LEMMA LeadsSame ==
  ASSUME NEW m, NEW n, SameVolume(m, n), NEW d, NEW p, NEW B, NEW full, NEW e,
         Leads(m, d, p, B, full, e)
  PROVE  Leads(n, d, p, B, full, e)
<1>1. PICK ds : Way(m, d, p, B, full, e, ds)
  BY DEF Leads
<1>2. \A x, w : Written(n, x, w) = Written(m, x, w) /\ Torn(n, x, w) = Torn(m, x, w)
  BY WrittenSame
<1>3. \A x, w : Breaks(m, x, w, B, full) => Breaks(n, x, w, B, full)
  BY <1>2 DEF Breaks
<1>4. Way(n, d, p, B, full, e, ds)
  BY <1>1, <1>2, <1>3 DEF Way
<1> QED
  BY <1>4 DEF Leads

-----------------------------------------------------------------------------
(* A volume between two calls                                              *)

Settled(m, e, full) ==
  /\ m \in Mem /\ e \in Disk /\ Counted(m)
  /\ Consistent(m.fat, e) /\ (full \/ Sized(m.fat, e))
  /\ e.fat1 = m.fat /\ e.fat2 = m.fat /\ e.info.free = m.free

LEMMA ConsistentSame ==
  ASSUME NEW f, NEW d, NEW e, e.ent = d.ent
  PROVE  (Consistent(f, d) => Consistent(f, e)) /\ (Sized(f, d) => Sized(f, e))
<1>1. Live(e) = Live(d) /\ Firsts(e) = Firsts(d) /\ \A s : At(e, s) = At(d, s)
  BY LiveSame
<1>2. \A s : ChainOf(f, e, s) = ChainOf(f, d, s)
  BY <1>1 DEF ChainOf
<1>3. Sized(f, d) => Sized(f, e)
  BY <1>1, <1>2 DEF Sized
<1>4. Consistent(f, d) => Consistent(f, e)
  BY <1>1 DEF Consistent
<1> QED
  BY <1>3, <1>4

LEMMA ContainedSame ==
  ASSUME NEW f, NEW d \in Disk, Consistent(f, d), NEW full, full \/ Sized(f, d), NEW B,
         NEW e, e.ent = d.ent, e.fat1 = f
  PROVE  Contained(e, B, full)
<1>1. Live(e) = Live(d) /\ \A s : At(e, s) = At(d, s)
  BY LiveSame
<1>2. Alongside(f, d, e, B)
  BY <1>1 DEF Alongside
<1>3. d.ent \in Contents /\ Tabled(f, Firsts(d))
  BY DEF Disk, Consistent
<1> QED
  BY <1>2, <1>3, ContainedAlongside

LEMMA SettledContained ==
  ASSUME NEW m, NEW e, NEW full, Settled(m, e, full), NEW B
  PROVE  Contained(e, B, full)
<1>1. e \in Disk /\ Consistent(m.fat, e) /\ (full \/ Sized(m.fat, e)) /\ e.fat1 = m.fat
  BY DEF Settled
<1> QED
  BY <1>1, ContainedSame

\* The chains of other entries than the call's are in the table n as they are
\* in the table f that is on the disk.
Steady(f, n, d, B) ==
  \E d0 : /\ d0.ent \in Contents /\ Tabled(f, Firsts(d0)) /\ Alongside(f, d0, d, B)
          /\ \A s \in Live(d) \ B : \A c \in ChainOf(f, d, s) : n[c] = f[c]

\* Nothing outside a chain points into it.
LEMMA ClosedOutside ==
  ASSUME NEW f, NEW F, Tabled(f, F), NEW o \in DOMAIN F, NEW c \in Cluster \ Chain(f, F[o])
  PROVE  f[c] \notin Chain(f, F[o])
<1>1. CASE f[c] = FREE
  BY <1>1, ChainType, ClusterRight
<1>2. CASE f[c] # FREE
  <2>1. c \in UNION {Chain(f, F[q]) : q \in DOMAIN F}
    BY <1>2 DEF Tabled
  <2>2. PICK q \in DOMAIN F : c \in Chain(f, F[q])
    BY <2>1
  <2> DEFINE p == ChainSeq(f, F[q])
  <2>3. Path(f, F[q], p)
    BY DEF Tabled
  <2>4. p \in Seq(Cluster) /\ Rng(p) = Chain(f, F[q])
    BY <2>3, PathExists
  <2> HIDE DEF p
  <2>5. PICK i \in 1 .. Len(p) : p[i] = c
    BY <2>2, <2>4 DEF Rng
  <2>6. f[c] = EOC \/ f[c] \in Rng(p)
    <3>1. CASE i < Len(p)
      <4>1. i + 1 \in 1 .. Len(p) /\ f[c] = p[i + 1]
        BY <2>3, <2>4, <2>5, <3>1 DEF Path
      <4> QED
        BY <4>1 DEF Rng
    <3>2. CASE ~(i < Len(p))
      BY <2>3, <2>5, <3>2 DEF Path
    <3> QED
      BY <3>1, <3>2
  <2>7. o # q
    BY <2>2
  <2>8. Chain(f, F[o]) \cap Chain(f, F[q]) = {}
    BY <2>7 DEF Tabled
  <2> QED
    BY <2>4, <2>6, <2>8, ChainType, ClusterRight
<1> QED
  BY <1>1, <1>2

\* A chain that starts outside a set nothing points into stays outside.
LEMMA ReachOutside ==
  ASSUME NEW g, NEW X, NEW c, c \notin X, \A x \in Cluster \ X : g[x] \notin X
  PROVE  Chain(g, c) \cap X = {}
<1>1. PICK r : IsReach(r, g, c) /\ Chain(g, c) = r[N]
  BY ChainReach
<1> DEFINE T == {n \in 0 .. N : r[n] \subseteq Cluster \ X}
<1>2. N \in Nat
  BY ClusterRight
<1>3. 0 \in T
  BY <1>1, <1>2 DEF IsReach
<1>4. ASSUME NEW n \in 1 .. N, n - 1 \in T
      PROVE  n \in T
  <2>1. n \in 0 .. N /\ n # 0
    BY <1>2
  <2>2. r[n] = r[n - 1] \cup ({g[x] : x \in r[n - 1]} \cap Cluster)
    BY <1>1, <2>1 DEF IsReach
  <2>3. r[n - 1] \subseteq Cluster \ X
    BY <1>4
  <2> QED
    BY <2>1, <2>2, <2>3
<1> HIDE DEF T
<1>5. N \in T
  BY <1>2, <1>3, <1>4, UpTo
<1> QED
  BY <1>1, <1>5 DEF T

\* The way of a chain is one of any table that agrees with it there.
LEMMA SamePath ==
  ASSUME NEW f, NEW c, Path(f, c, ChainSeq(f, c)), NEW g, \A x \in Chain(f, c) : g[x] = f[x]
  PROVE  Chain(g, c) = Chain(f, c)
<1> DEFINE p == ChainSeq(f, c)
<1>1. p \in Seq(Cluster) /\ Rng(p) = Chain(f, c)
  BY PathExists
<1>2. Path(f, c, p)
  OBVIOUS
<1> HIDE DEF p
<1>3. \A i \in 1 .. Len(p) : g[p[i]] = f[p[i]]
  BY <1>1 DEF Rng
<1>4. Path(g, c, p)
  BY <1>2, <1>3 DEF Path
<1>5. Chain(g, c) = Rng(p)
  BY <1>1, <1>4, PathWalk, WalkRight
<1> QED
  BY <1>1, <1>5

LEMMA MixedRight ==
  ASSUME NEW f \in Table, NEW n \in Table, NEW g \in Mixed(f, n)
  PROVE  g \in Table /\ \A c \in Cluster : g[c] = f[c] \/ g[c] = n[c]
<1>1. PICK S : g = [c \in Cluster |-> IF c \div EPF \in S THEN n[c] ELSE f[c]]
  BY DEF Mixed
<1> QED
  BY <1>1 DEF Table

\* A first copy of which only some sectors have been written is contained.
LEMMA ContainedMixed ==
  ASSUME NEW n \in Table, NEW d \in Disk, NEW B, NEW full, Steady(d.fat1, n, d, B),
         Consistent(n, d), full \/ Sized(n, d), NEW g \in Mixed(d.fat1, n)
  PROVE  [d EXCEPT !.fat1 = g] \in Disk /\ Contained([d EXCEPT !.fat1 = g], B, full)
<1> DEFINE f == d.fat1
           x == [d EXCEPT !.fat1 = g]
<1>1. f \in Table /\ d.ent \in Contents
  BY DEF Disk
<1>2. PICK d0 : /\ d0.ent \in Contents /\ Tabled(f, Firsts(d0)) /\ Alongside(f, d0, d, B)
                /\ \A s \in Live(d) \ B : \A c \in ChainOf(f, d, s) : n[c] = f[c]
  BY DEF Steady
<1>3. g \in Table /\ \A c \in Cluster : g[c] = f[c] \/ g[c] = n[c]
  BY <1>1, MixedRight
<1>4. x \in Disk /\ x.fat1 = g /\ x.ent = d.ent
  BY <1>3 DEF Disk
<1> HIDE DEF f, x
<1>5. Live(x) = Live(d) /\ \A s : At(x, s) = At(d, s)
  BY <1>4, LiveSame
<1> DEFINE F == Firsts(d0)
           G == Firsts(d)
<1>6. /\ DOMAIN F = Live(d0) \cup {<<0, 0>>} /\ \A s \in Live(d0) : F[s] = At(d0, s).first
  BY <1>2, FirstsRight
<1>7. /\ DOMAIN G = Live(d) \cup {<<0, 0>>} /\ G[<<0, 0>>] = Root /\ <<0, 0>> \notin Live(d)
      /\ \A s \in Live(d) : G[s] = At(d, s).first
  BY <1>1, FirstsRight
<1>8. Tabled(f, F) /\ Tabled(n, G)
  BY <1>2 DEF Consistent
<1> HIDE DEF F, G
<1>9. ASSUME NEW s \in Live(d) \ B
      PROVE  /\ \A c \in ChainOf(g, d, s) : g[c] # FREE
             /\ ChainOf(g, d, s) \cap Chain(g, Root) = {}
             /\ \A t \in Live(d) \ {s} : ChainOf(g, d, s) \cap ChainOf(g, d, t) = {}
             /\ full \/ ReadLength(g, At(d, s).first, At(d, s).size, 0, MaxSize) = At(d, s).size
  <2> DEFINE c0 == At(d, s).first
             X == Chain(f, c0)
  <2>1. s \in DOMAIN F /\ F[s] = c0 /\ s \in DOMAIN G /\ G[s] = c0
    BY <1>2, <1>6, <1>7, <1>9 DEF Alongside
  <2>2. Path(f, c0, ChainSeq(f, c0))
    <3>1. Path(f, F[s], ChainSeq(f, F[s]))
      BY <1>8, <2>1 DEF Tabled
    <3> QED
      BY <2>1, <3>1
  <2>3. \A c \in X : n[c] = f[c]
    BY <1>2, <1>9 DEF ChainOf
  <2>4. X \subseteq Cluster
    BY ChainType
  <2>5. \A c \in X : g[c] = f[c]
    BY <1>3, <2>3, <2>4
  <2> HIDE DEF c0
  <2>6. Chain(g, c0) = X /\ Chain(n, c0) = X
    BY <2>2, <2>3, <2>5, SamePath
  <2>7. \A c \in Cluster \ X : f[c] \notin X
    <3>1. \A c \in Cluster \ Chain(f, F[s]) : f[c] \notin Chain(f, F[s])
      BY <1>8, <2>1, ClosedOutside
    <3> QED
      BY <2>1, <3>1
  <2>8. \A c \in Cluster \ X : n[c] \notin X
    <3>1. \A c \in Cluster \ Chain(n, G[s]) : n[c] \notin Chain(n, G[s])
      BY <1>8, <2>1, ClosedOutside
    <3> QED
      BY <2>1, <2>6, <3>1
  <2>9. \A c \in Cluster \ X : g[c] \notin X
    BY <1>3, <2>7, <2>8
  <2>10. \A c \in X : f[c] # FREE
    <3>1. \A c \in Chain(f, F[s]) : f[c] # FREE
      BY <1>8, <2>1 DEF Tabled
    <3> QED
      BY <2>1, <3>1
  <2>11. ASSUME NEW q \in DOMAIN G \ {s} PROVE X \cap Chain(g, G[q]) = {}
    <3>1. Chain(n, G[s]) \cap Chain(n, G[q]) = {}
      BY <1>8, <2>1 DEF Tabled
    <3>2. G[q] \notin X
      <4>1. Path(n, G[q], ChainSeq(n, G[q]))
        BY <1>8 DEF Tabled
      <4>2. G[q] = 0 \/ G[q] \in Chain(n, G[q])
        <5> DEFINE k == G[q]
                   p == ChainSeq(n, k)
        <5>1. Path(n, k, p) /\ p \in Seq(Cluster) /\ Rng(p) = Chain(n, k)
          BY <4>1, PathExists
        <5> HIDE DEF p
        <5>2. p # <<>> => k = p[1] /\ 1 \in 1 .. Len(p)
          BY <5>1 DEF Path
        <5>3. p = <<>> => k = 0
          BY <5>1 DEF Path
        <5> QED
          BY <5>1, <5>2, <5>3 DEF Rng
      <4> QED
        BY <2>1, <2>4, <2>6, <3>1, <4>2, ClusterRight
    <3> HIDE DEF X
    <3> QED
      BY <2>9, <3>2, ReachOutside
  <2> HIDE DEF X
  <2>12. ChainOf(g, d, s) = X
    BY <2>6 DEF ChainOf, c0
  <2>13. X \cap Chain(g, Root) = {}
    <3>1. <<0, 0>> \in DOMAIN G \ {s} /\ G[<<0, 0>>] = Root
      BY <1>7
    <3> QED
      BY <2>11, <3>1
  <2>14. ASSUME NEW t \in Live(d) \ {s} PROVE X \cap ChainOf(g, d, t) = {}
    <3>1. t \in DOMAIN G \ {s} /\ G[t] = At(d, t).first
      BY <1>7
    <3>2. X \cap Chain(g, G[t]) = {}
      BY <2>11, <3>1
    <3> QED
      BY <3>1, <3>2 DEF ChainOf
  <2>15. full \/ ReadLength(g, c0, At(d, s).size, 0, MaxSize) = At(d, s).size
    <3>1. CASE full
      BY <3>1
    <3>2. CASE ~full
      <4>1. At(d, s).size \in 0 .. MaxSize /\ At(d, s).size <= Cardinality(ChainOf(n, d, s))
        BY <1>1, <3>2, EntryFields DEF Sized
      <4>2. ChainOf(n, d, s) = Chain(g, c0)
        BY <2>6 DEF ChainOf, c0
      <4>3. At(d, s).size <= Cardinality(Chain(g, c0))
        BY <4>1, <4>2
      <4> QED
        BY <4>1, <4>3, ReadRight
    <3> QED
      BY <3>1, <3>2
  <2> QED
    BY <2>5, <2>10, <2>12, <2>13, <2>14, <2>15 DEF c0
<1>10. Contained(x, B, full)
  BY <1>4, <1>5, <1>9 DEF Contained, ChainOf
<1> QED
  BY <1>4, <1>10 DEF x

\* Entries and table agree: all that is left is to flush.
Flushable(m, d, full) ==
  /\ m \in Mem /\ d \in Disk /\ Counted(m)
  /\ Consistent(m.fat, d) /\ (full \/ Sized(m.fat, d))
  /\ ~m.dirty => d.fat1 = m.fat /\ d.fat2 = m.fat

LEMMA FlushType ==
  ASSUME NEW b
  PROVE  Flush(b) \in Seq(Op)
<1>1. [op |-> "fat1"] \in Op /\ [op |-> "fat2"] \in Op /\ [op |-> "info"] \in Op
  BY DEF Op
<1> QED
  BY <1>1 DEF Flush

LEMMA FlushLeads ==
  ASSUME NEW m, NEW d, NEW B, NEW full, Flushable(m, d, full), Contained(d, B, full),
         Steady(d.fat1, m.fat, d, B)
  PROVE  \E e : /\ Leads(m, d, Flush(m.dirty), B, full, e) /\ Settled(m, e, full)
                /\ e.ent = d.ent
<1> DEFINE w1 == [op |-> "fat1"]
           w2 == [op |-> "fat2"]
           w3 == [op |-> "info"]
<1>1. w1 \in Op /\ w2 \in Op /\ w3 \in Op
  BY DEF Op
<1>2. Flush(m.dirty) = (IF m.dirty THEN <<w1, w2>> ELSE <<>>) \o <<w3>>
  BY DEF Flush
<1>3. ASSUME NEW x \in Disk
      PROVE  /\ CopyAt(x, Written(m, x, w1), m.fat, x.fat2, x.info)
             /\ CopyAt(x, Written(m, x, w2), x.fat1, m.fat, x.info)
             /\ CopyAt(x, Written(m, x, w3), x.fat1, x.fat2, Counts(m))
  BY WrittenRest DEF Flushable
<1> HIDE DEF w1, w2, w3
<1>4. ASSUME NEW x \in Disk, x.ent = d.ent, x.fat1 = m.fat
      PROVE  Contained(x, B, full)
  BY <1>4, ContainedSame DEF Flushable
<1>5. Breaks(m, d, w1, B, full)
  <2>1. Torn(m, d, w1) = {[d EXCEPT !.fat1 = g] : g \in Mixed(d.fat1, m.fat)}
    BY DEF Torn, w1
  <2>2. m.fat \in Table /\ d \in Disk /\ Consistent(m.fat, d) /\ (full \/ Sized(m.fat, d))
    BY DEF Flushable, Mem
  <2>3. \A g \in Mixed(d.fat1, m.fat) :
          [d EXCEPT !.fat1 = g] \in Disk /\ Contained([d EXCEPT !.fat1 = g], B, full)
    BY <2>2, ContainedMixed
  <2> QED
    BY <2>1, <2>3 DEF Breaks
<1>6. ASSUME NEW x \in Disk, x.ent = d.ent, x.fat1 = m.fat
      PROVE  Breaks(m, x, w2, B, full)
  <2>1. Torn(m, x, w2) = {[x EXCEPT !.fat2 = g] : g \in Mixed(x.fat2, m.fat)}
    BY DEF Torn, w2
  <2>2. ASSUME NEW g \in Mixed(x.fat2, m.fat)
        PROVE  [x EXCEPT !.fat2 = g] \in Disk /\ Contained([x EXCEPT !.fat2 = g], B, full)
    <3>1. x.fat2 \in Table /\ m.fat \in Table
      BY DEF Disk, Flushable, Mem
    <3>2. g \in Table
      BY <3>1, MixedRight
    <3> DEFINE y == [x EXCEPT !.fat2 = g]
    <3>3. y \in Disk /\ y.ent = d.ent /\ y.fat1 = m.fat
      BY <1>6, <3>2 DEF Disk
    <3> HIDE DEF y
    <3>4. Contained(y, B, full)
      BY <1>4, <3>3
    <3> QED
      BY <3>3, <3>4 DEF y
  <2> QED
    BY <2>1, <2>2 DEF Breaks
<1>7. \E x \in Disk : /\ Leads(m, d, IF m.dirty THEN <<w1, w2>> ELSE <<>>, B, full, x)
                      /\ x.ent = d.ent /\ x.fat1 = m.fat /\ x.fat2 = m.fat
  <2>1. CASE m.dirty
    <3> HIDE DEF w1, w2
    <3> DEFINE d1 == Written(m, d, w1)
               d2 == Written(m, d1, w2)
    <3>1. d \in Disk
      BY DEF Flushable
    <3>2. d1 \in Disk /\ d1.fat1 = m.fat /\ d1.ent = d.ent
      BY <1>3, <3>1 DEF CopyAt
    <3>3. d2 \in Disk /\ d2.fat1 = m.fat /\ d2.fat2 = m.fat /\ d2.ent = d.ent
      <4> HIDE DEF d1
      <4> QED
        BY <1>3, <3>2 DEF CopyAt
    <3>4. Leads(m, d, <<w1>>, B, full, d1)
      <4>1. Contained(d1, B, full)
        BY <1>4, <3>2
      <4> DEFINE z == d1
      <4>2. z = Written(m, d, w1) /\ z \in Disk /\ Contained(z, B, full)
        BY <3>2, <4>1
      <4> HIDE DEF z
      <4>3. Leads(m, d, <<w1>>, B, full, z)
        BY <1>5, <3>1, <4>2, LeadsAny
      <4> QED
        BY <4>3 DEF z
    <3>5. Leads(m, d1, <<w2>>, B, full, d2)
      <4>1. Contained(d2, B, full) /\ Contained(d1, B, full)
        BY <1>4, <3>2, <3>3
      <4> DEFINE y == d1
                 z == d2
      <4>2. z = Written(m, y, w2) /\ y \in Disk /\ z \in Disk
            /\ Contained(z, B, full) /\ Contained(y, B, full) /\ Breaks(m, y, w2, B, full)
        BY <1>6, <3>2, <3>3, <4>1
      <4> HIDE DEF y, z
      <4>3. Leads(m, y, <<w2>>, B, full, z)
        BY <4>2, LeadsAny
      <4> QED
        BY <4>3 DEF y, z
    <3> HIDE DEF d1, d2
    <3>6. <<w1>> \in Seq(Op) /\ <<w2>> \in Seq(Op)
      BY <1>1
    <3>7. <<w1>> \o <<w2>> = <<w1, w2>>
      <4> DEFINE r == <<w1>> \o <<w2>>
      <4>1. r \in Seq(Op) /\ Len(r) = 2 /\ r[1] = w1 /\ r[2] = w2
        BY <3>6
      <4> HIDE DEF r
      <4>2. r = <<r[1], r[2]>>
        BY <4>1
      <4> QED
        BY <4>1, <4>2 DEF r
    <3>8. Leads(m, d, <<w1>> \o <<w2>>, B, full, d2)
      BY <3>4, <3>5, <3>6, LeadsJoin
    <3>9. Leads(m, d, <<w1, w2>>, B, full, d2)
      BY <3>7, <3>8
    <3> QED
      BY <2>1, <3>3, <3>9
  <2>2. CASE ~m.dirty
    <3>1. Leads(m, d, <<>>, B, full, d)
      BY LeadsNil DEF Flushable
    <3> QED
      BY <2>2, <3>1 DEF Flushable
  <2> QED
    BY <2>1, <2>2
<1> DEFINE first == IF m.dirty THEN <<w1, w2>> ELSE <<>>
<1>8. first \in Seq(Op) /\ <<w3>> \in Seq(Op)
  BY <1>1
<1>9. PICK x \in Disk : Leads(m, d, first, B, full, x) /\ x.ent = d.ent
                        /\ x.fat1 = m.fat /\ x.fat2 = m.fat
  BY <1>7
<1> HIDE DEF first
<1> DEFINE e == Written(m, x, w3)
<1>10. e \in Disk /\ e.fat1 = m.fat /\ e.fat2 = m.fat /\ e.ent = d.ent /\ e.info = Counts(m)
  BY <1>3, <1>9 DEF CopyAt
<1>11. e = Written(m, x, w3)
  OBVIOUS
<1> HIDE DEF e
<1>12. Leads(m, x, <<w3>>, B, full, e)
  BY <1>4, <1>9, <1>10, <1>11, LeadsOne DEF w3
<1>13. Leads(m, d, first \o <<w3>>, B, full, e)
  BY <1>8, <1>9, <1>12, LeadsJoin
<1>14. Settled(m, e, full)
  <2>1. e.info.free = m.free
    BY <1>10 DEF Counts
  <2>2. Consistent(m.fat, e) /\ (full \/ Sized(m.fat, e))
    BY <1>10, ConsistentSame DEF Flushable
  <2> QED
    BY <1>10, <2>1, <2>2 DEF Flushable, Settled
<1>15. Flush(m.dirty) = first \o <<w3>>
  BY <1>2 DEF first
<1> QED
  BY <1>10, <1>13, <1>14, <1>15

-----------------------------------------------------------------------------
(* The positions of a directory                                            *)

LEMMA Division ==
  ASSUME NEW a \in Nat, NEW n \in Nat \ {0}
  PROVE  /\ a \div n \in Nat /\ a % n \in 0 .. n - 1 /\ a = (a \div n) * n + (a % n)
         /\ (a \div n) * n \in Nat
<1>1. a \div n \in Int /\ a % n \in 0 .. n - 1
  OBVIOUS
<1>2. a = n * (a \div n) + (a % n)
  OBVIOUS
<1> DEFINE q == a \div n
           r == a % n
<1>3. q \in Int /\ r \in 0 .. n - 1 /\ a = n * q + r
  BY <1>1, <1>2
<1> HIDE DEF q, r
<1>4. q \in Nat
  <2> SUFFICES ASSUME q < 0 PROVE FALSE
    BY <1>3
  <2> DEFINE k == 0 - q - 1
  <2>1. k \in Nat /\ q = 0 - (k + 1)
    BY <1>3
  <2> HIDE DEF k
  <2>2. n * q = 0 - (n * k + n) /\ n * k \in Nat
    BY <2>1
  <2> QED
    BY <1>3, <2>2
<1>5. n * q = q * n /\ q * n \in Nat
  BY <1>4
<1> QED
  BY <1>3, <1>4, <1>5 DEF q, r

LEMMA DivisionUnique ==
  ASSUME NEW n \in Nat \ {0}, NEW q \in Nat, NEW r \in 0 .. n - 1,
         NEW x \in Nat, NEW y \in 0 .. n - 1, q * n + r = x * n + y
  PROVE  q = x /\ r = y
<1>1. q * n \in Nat /\ x * n \in Nat
  OBVIOUS
<1>2. CASE q < x
  <2>1. q * n + n <= x * n
    BY <1>2, Multiples
  <2> QED
    BY <1>1, <2>1
<1>3. CASE x < q
  <2>1. x * n + n <= q * n
    BY <1>3, Multiples
  <2> QED
    BY <1>1, <2>1
<1>4. CASE q = x
  BY <1>1, <1>4
<1> QED
  BY <1>2, <1>3, <1>4

\* What is read after s.
Follow(f, s) == IF s[2] < EPC THEN <<s[1], s[2] + 1>> ELSE <<f[s[1]], 1>>

IsSlots(s, f, p) ==
  /\ s \in Seq(Place)
  /\ \A k \in 1 .. Len(s) : s[k][1] \in Rng(p)
  /\ \A j, k \in 1 .. Len(s) : s[j] = s[k] => j = k
  /\ \A k \in 2 .. Len(s) : s[k] = Follow(f, s[k - 1])

\* The places of s are those in the clusters of p, one cluster after the other.
SlotsAre(s, p) ==
  /\ s \in Seq(Place) /\ Len(s) = Len(p) * EPC
  /\ \A k \in 1 .. Len(p) * EPC :
       LET q == (k - 1) \div EPC
           r == (k - 1) % EPC
       IN /\ q \in 0 .. Len(p) - 1 /\ q + 1 \in 1 .. Len(p) /\ r \in 0 .. EPC - 1
          /\ k - 1 = q * EPC + r
          /\ s[k] = <<p[q + 1], r + 1>> /\ s[k][1] \in Rng(p)

LEMMA SlotsType ==
  ASSUME NEW f, NEW dir, NEW p \in Seq(Cluster), ChainSeq(f, dir) = p
  PROVE  SlotsAre(Slots(f, dir), p)
<1> DEFINE L == Len(p)
           M == L * EPC
           s == Slots(f, dir)
           q(k) == (k - 1) \div EPC
           r(k) == (k - 1) % EPC
<1>1. s = [k \in 1 .. M |-> <<p[q(k) + 1], r(k) + 1>>]
  BY DEF Slots
<1>2. L \in Nat /\ EPC \in Nat \ {0, 1} /\ M \in Nat
  BY PlaceRight
<1>3. ASSUME NEW k \in 1 .. M
      PROVE  /\ q(k) \in 0 .. L - 1 /\ r(k) \in 0 .. EPC - 1 /\ k - 1 = q(k) * EPC + r(k)
             /\ q(k) + 1 \in 1 .. L
  <2> DEFINE a == k - 1
             x == a \div EPC
             y == a % EPC
  <2>1. a \in Nat /\ a < M
    BY <1>2
  <2> HIDE DEF a, M
  <2>2. x \in Nat /\ y \in 0 .. EPC - 1 /\ a = x * EPC + y /\ x * EPC \in Nat
    <3>1. EPC \in Nat \ {0}
      BY <1>2
    <3> QED
      BY <2>1, <3>1, Division
  <2> HIDE DEF x, y
  <2>3. x < L
    <3> SUFFICES ASSUME ~(x < L) PROVE FALSE
      OBVIOUS
    <3>1. L * EPC <= x * EPC
      <4>1. CASE L < x
        <5>1. L * EPC + EPC <= x * EPC /\ L * EPC \in Nat
          BY <1>2, <2>2, <4>1, Multiples
        <5> QED
          BY <1>2, <2>2, <5>1
      <4>2. CASE L = x
        BY <1>2, <2>2, <4>2
      <4> QED
        BY <1>2, <2>2, <4>1, <4>2
    <3> QED
      BY <1>2, <2>1, <2>2, <3>1 DEF M
  <2>4. x \in 0 .. L - 1 /\ x + 1 \in 1 .. L
    BY <1>2, <2>2, <2>3
  <2> QED
    BY <2>2, <2>4 DEF a, x, y
<1> HIDE DEF q, r, M, s
<1>4. Len(s) = M /\ \A k \in 1 .. M : s[k] = <<p[q(k) + 1], r(k) + 1>>
  BY <1>1, <1>2
<1>5. ASSUME NEW k \in 1 .. M PROVE s[k] \in Place /\ s[k][1] \in Rng(p)
  <2>1. p[q(k) + 1] \in Cluster /\ p[q(k) + 1] \in Rng(p)
    BY <1>3 DEF Rng
  <2>2. r(k) + 1 \in 1 .. EPC
    BY <1>2, <1>3
  <2>3. s[k] = <<p[q(k) + 1], r(k) + 1>>
    BY <1>4
  <2> QED
    BY <2>1, <2>2, <2>3, PlaceRight
<1>6. s \in Seq(Place)
  <2>1. s = [k \in 1 .. M |-> s[k]]
    BY <1>1
  <2> QED
    BY <1>2, <1>5, <2>1
<1>7. ASSUME NEW k \in 1 .. M
      PROVE  /\ q(k) \in 0 .. L - 1 /\ q(k) + 1 \in 1 .. L /\ r(k) \in 0 .. EPC - 1
             /\ k - 1 = q(k) * EPC + r(k)
             /\ s[k] = <<p[q(k) + 1], r(k) + 1>> /\ s[k][1] \in Rng(p)
  BY <1>3, <1>4, <1>5
<1> QED
  BY <1>4, <1>6, <1>7 DEF SlotsAre, q, r, M, s

LEMMA SlotsRight ==
  ASSUME NEW f, NEW dir, NEW p \in Seq(Cluster), Path(f, dir, p), ChainSeq(f, dir) = p
  PROVE  IsSlots(Slots(f, dir), f, p)
<1> DEFINE L == Len(p)
           M == L * EPC
           s == Slots(f, dir)
           q(k) == (k - 1) \div EPC
           r(k) == (k - 1) % EPC
<1>1. SlotsAre(s, p)
  BY SlotsType
<1>2. L \in Nat /\ EPC \in Nat \ {0, 1} /\ M \in Nat
  BY PlaceRight
<1>3. ASSUME NEW k \in 1 .. M
      PROVE  /\ q(k) \in 0 .. L - 1 /\ r(k) \in 0 .. EPC - 1 /\ k - 1 = q(k) * EPC + r(k)
             /\ q(k) + 1 \in 1 .. L
  BY <1>1 DEF SlotsAre
<1>4. Len(s) = M /\ \A k \in 1 .. M : s[k] = <<p[q(k) + 1], r(k) + 1>>
  BY <1>1 DEF SlotsAre
<1>5. ASSUME NEW k \in 1 .. M PROVE s[k] \in Place /\ s[k][1] \in Rng(p)
  BY <1>1, <1>2 DEF SlotsAre
<1>6. s \in Seq(Place)
  BY <1>1 DEF SlotsAre
<1> HIDE DEF q, r, M, s
<1>7. \A i, j \in 1 .. L : p[i] = p[j] => i = j
  BY DEF Path
<1>8. ASSUME NEW j \in 1 .. M, NEW k \in 1 .. M, s[j] = s[k] PROVE j = k
  <2>1. p[q(j) + 1] = p[q(k) + 1] /\ r(j) + 1 = r(k) + 1
    BY <1>4, <1>8
  <2>2. q(j) + 1 = q(k) + 1
    BY <1>3, <1>7, <2>1
  <2>3. q(j) = q(k) /\ r(j) = r(k)
    <3> DEFINE x == q(j)
               y == q(k)
               z == r(j)
               w == r(k)
    <3>1. x \in 0 .. L - 1 /\ y \in 0 .. L - 1 /\ z \in 0 .. EPC - 1 /\ w \in 0 .. EPC - 1
      BY <1>3
    <3>2. x + 1 = y + 1 /\ z + 1 = w + 1
      BY <2>1, <2>2
    <3> HIDE DEF x, y, z, w
    <3>3. x = y /\ z = w
      BY <1>2, <3>1, <3>2
    <3> QED
      BY <3>3 DEF x, y, z, w
  <2>4. j - 1 = k - 1
    BY <1>3, <2>3
  <2> QED
    BY <1>2, <2>4
<1>9. ASSUME NEW k \in 2 .. M PROVE s[k] = Follow(f, s[k - 1])
  <2> DEFINE j == k - 1
  <2>1. j \in 1 .. M /\ k \in 1 .. M /\ k - 1 = (j - 1) + 1
    BY <1>2
  <2> HIDE DEF j
  <2> DEFINE x == q(j)
             y == r(j)
             z == q(k)
             w == r(k)
  <2>2. /\ x \in 0 .. L - 1 /\ y \in 0 .. EPC - 1 /\ j - 1 = x * EPC + y /\ x + 1 \in 1 .. L
        /\ z \in 0 .. L - 1 /\ w \in 0 .. EPC - 1 /\ k - 1 = z * EPC + w /\ z + 1 \in 1 .. L
    BY <1>3, <2>1
  <2>3. s[j] = <<p[x + 1], y + 1>> /\ s[k] = <<p[z + 1], w + 1>>
    BY <1>4, <2>1
  <2> HIDE DEF x, y, z, w
  <2>4. x * EPC \in Nat /\ x \in Nat /\ z \in Nat /\ y \in Nat /\ EPC \in Nat \ {0}
    BY <1>2, <2>2
  <2>5. CASE y + 1 < EPC
    <3>1. y + 1 \in 0 .. EPC - 1 /\ x * EPC + (y + 1) = z * EPC + w
      BY <2>1, <2>2, <2>4, <2>5
    <3> DEFINE v == y + 1
    <3>2. v \in 0 .. EPC - 1 /\ x * EPC + v = z * EPC + w
      BY <3>1
    <3> HIDE DEF v
    <3>3. x = z /\ v = w
      BY <2>2, <2>4, <3>2, DivisionUnique
    <3>4. s[k] = <<p[x + 1], (y + 1) + 1>>
      BY <2>3, <3>3 DEF v
    <3> QED
      BY <2>3, <2>5, <3>4 DEF Follow, j
  <2>6. CASE ~(y + 1 < EPC)
    <3> DEFINE v == x + 1
    <3>1. y + 1 = EPC /\ v \in Nat
      BY <2>2, <2>4, <2>6
    <3>2. v * EPC = x * EPC + EPC
      BY <2>4
    <3>3. v * EPC + 0 = z * EPC + w /\ 0 \in 0 .. EPC - 1
      BY <2>1, <2>2, <2>4, <3>1, <3>2
    <3> HIDE DEF v
    <3>4. v = z /\ 0 = w
      BY <2>2, <2>4, <3>1, <3>3, DivisionUnique
    <3>5. x + 1 < L /\ (x + 1) + 1 = z + 1
      BY <1>2, <2>2, <2>4, <3>4 DEF v
    <3>6. f[p[x + 1]] = p[(x + 1) + 1]
      BY <2>2, <3>5 DEF Path
    <3>7. s[k] = <<f[p[x + 1]], 1>>
      BY <2>3, <3>4, <3>5, <3>6
    <3> QED
      BY <2>3, <2>6, <3>7 DEF Follow, j
  <2> QED
    BY <2>5, <2>6
<1>10. IsSlots(s, f, p)
  BY <1>4, <1>5, <1>6, <1>8, <1>9 DEF IsSlots
<1> QED
  BY <1>10 DEF s

-----------------------------------------------------------------------------
(* What a call leaves to do                                                *)

Plain(p) == \A k \in 1 .. Len(p) : p[k].op \notin {"fat1", "fat2", "mount"}

\* The two copies of the table are written one after the other and once, and a
\* mount comes last.
Ordered(p) ==
  \A k \in 1 .. Len(p) :
    /\ p[k].op = "fat1" => k < Len(p) /\ p[k + 1].op = "fat2"
    /\ p[k].op = "fat2" => k = 1 \/ p[k - 1].op = "fat1"
    /\ p[k].op = "mount" => k = Len(p)
    /\ p[k].op \in {"fat1", "fat2"} => \A j \in k + 1 .. Len(p) : p[j].op # "fat1"

\* The table is written only if the cache is marked dirty.
Marked(p, dirty) == \A k \in 1 .. Len(p) : p[k].op = "fat1" => dirty

OpensWith(p, op) == p # <<>> /\ p[1].op = op

LEMMA Joined ==
  ASSUME NEW S, NEW p \in Seq(S), NEW q \in Seq(S)
  PROVE  /\ p \o q \in Seq(S) /\ Len(p \o q) = Len(p) + Len(q)
         /\ Len(p) \in Nat /\ Len(q) \in Nat
         /\ \A k \in 1 .. Len(p) : (p \o q)[k] = p[k]
         /\ \A k \in 1 .. Len(q) : (p \o q)[Len(p) + k] = q[k]
  OBVIOUS

LEMMA OrderedPlain ==
  ASSUME NEW p \in Seq(Op), Plain(p)
  PROVE  Ordered(p) /\ ~OpensWith(p, "fat2") /\ \A b : Marked(p, b)
<1>1. p # <<>> => 1 \in 1 .. Len(p)
  OBVIOUS
<1> QED
  BY <1>1 DEF Plain, Ordered, OpensWith, Marked

LEMMA OrderedTail ==
  ASSUME NEW p \in Seq(Op), Ordered(p), p # <<>>
  PROVE  /\ Ordered(Tail(p)) /\ Tail(p) \in Seq(Op)
         /\ OpensWith(Tail(p), "fat2") => OpensWith(p, "fat1")
         /\ OpensWith(p, "mount") => Tail(p) = <<>>
         /\ OpensWith(p, "fat1") => OpensWith(Tail(p), "fat2")
         /\ OpensWith(p, "fat2") => \A b : Marked(Tail(p), b)
         /\ \A b : Marked(p, b) => Marked(Tail(p), b)
<1> DEFINE q == Tail(p)
           L == Len(p)
<1>1. L \in Nat \ {0} /\ q \in Seq(Op) /\ Len(q) = L - 1 /\ \A k \in 1 .. L - 1 : q[k] = p[k + 1]
  OBVIOUS
<1> HIDE DEF q, L
<1>2. q = <<>> <=> L = 1
  <2>1. q = <<>> <=> Len(q) = 0
    BY <1>1
  <2> QED
    BY <1>1, <2>1
<1>3. \A k \in 1 .. L :
        /\ p[k].op = "fat1" => k < L /\ p[k + 1].op = "fat2"
        /\ p[k].op = "fat2" => k = 1 \/ p[k - 1].op = "fat1"
        /\ p[k].op = "mount" => k = L
        /\ p[k].op \in {"fat1", "fat2"} => \A j \in k + 1 .. L : p[j].op # "fat1"
  BY DEF Ordered, L
<1>4. ASSUME NEW k \in 1 .. L - 1
      PROVE  /\ q[k].op = "fat1" => k < L - 1 /\ q[k + 1].op = "fat2"
             /\ q[k].op = "fat2" => p[k].op = "fat1"
             /\ q[k].op = "mount" => k = L - 1
  <2>1. k + 1 \in 1 .. L /\ q[k] = p[k + 1] /\ (k + 1) - 1 = k /\ k + 1 # 1
    BY <1>1
  <2>2. q[k].op = "fat1" => k + 1 < L /\ p[(k + 1) + 1].op = "fat2"
    BY <1>3, <2>1
  <2>3. k + 1 < L => k + 1 \in 1 .. L - 1 /\ k < L - 1
    BY <1>1
  <2>4. k + 1 < L => q[k + 1] = p[(k + 1) + 1]
    BY <1>1, <2>3
  <2>5. q[k].op = "fat2" => p[k].op = "fat1"
    BY <1>3, <2>1
  <2>6. q[k].op = "mount" => k + 1 = L
    BY <1>3, <2>1
  <2>7. k + 1 = L => k = L - 1
    BY <1>1
  <2> QED
    BY <2>2, <2>3, <2>4, <2>5, <2>6, <2>7
<1>5. Ordered(q)
  <2>1. ASSUME NEW k \in 1 .. L - 1, q[k].op = "fat2", k # 1
        PROVE  q[k - 1].op = "fat1"
    <3>1. k - 1 \in 1 .. L - 1 /\ (k - 1) + 1 = k
      BY <1>1, <2>1
    <3> QED
      BY <1>1, <1>4, <2>1, <3>1
  <2>2. ASSUME NEW k \in 1 .. L - 1, q[k].op \in {"fat1", "fat2"}, NEW j \in k + 1 .. L - 1
        PROVE  q[j].op # "fat1"
    <3>1. /\ k + 1 \in 1 .. L /\ j \in 1 .. L - 1 /\ j + 1 \in (k + 1) + 1 .. L
      BY <1>1, <2>2
    <3> QED
      BY <1>1, <1>3, <2>2, <3>1
  <2> QED
    BY <1>1, <1>4, <2>1, <2>2 DEF Ordered
<1>6. OpensWith(q, "fat2") => OpensWith(p, "fat1")
  <2>1. q # <<>> => 1 \in 1 .. L - 1 /\ p # <<>>
    BY <1>1, <1>2
  <2> QED
    BY <1>4, <2>1 DEF OpensWith
<1>7. OpensWith(p, "mount") => q = <<>>
  BY <1>1, <1>2, <1>3 DEF OpensWith
<1>8. OpensWith(p, "fat1") => OpensWith(q, "fat2")
  <2> SUFFICES ASSUME p[1].op = "fat1" PROVE OpensWith(q, "fat2")
    BY DEF OpensWith
  <2>1. 1 < L /\ p[1 + 1].op = "fat2"
    BY <1>1, <1>3
  <2>2. 1 \in 1 .. L - 1
    BY <1>1, <2>1
  <2> QED
    BY <1>1, <1>2, <2>1, <2>2 DEF OpensWith
<1>9. \A j \in 1 .. L - 1 : j + 1 \in 1 .. L /\ j + 1 \in 1 + 1 .. L
  BY <1>1
<1>10. OpensWith(p, "fat2") => \A b : Marked(q, b)
  <2> SUFFICES ASSUME p[1].op = "fat2", NEW k \in 1 .. L - 1 PROVE q[k].op # "fat1"
    BY <1>1 DEF OpensWith, Marked
  <2>1. 1 \in 1 .. L
    BY <1>1
  <2> QED
    BY <1>1, <1>3, <1>9, <2>1
<1>11. \A b : Marked(p, b) => Marked(q, b)
  BY <1>1, <1>9 DEF Marked, L
<1> QED
  BY <1>1, <1>5, <1>6, <1>7, <1>8, <1>10, <1>11 DEF q

\* What follows a flush: nothing, a node to hold, or a mount.
After1(q) == q \in Seq(Op) /\ (q = <<>> \/ (Len(q) = 1 /\ q[1].op \in {"hold", "mount"}))

LEMMA OrderedFlush ==
  ASSUME NEW p \in Seq(Op), Plain(p), NEW b \in BOOLEAN, NEW q, After1(q)
  PROVE  LET r == p \o Flush(b) \o q IN
         r \in Seq(Op) /\ Ordered(r) /\ ~OpensWith(r, "fat2") /\ Marked(r, b)
<1> DEFINE r == p \o Flush(b) \o q
           K == Len(p)
<1>1. Flush(b) \in Seq(Op) /\ r \in Seq(Op) /\ K \in Nat /\ q \in Seq(Op)
  BY FlushType DEF After1
<1> HIDE DEF K
<1>2. CASE b = TRUE
  <2> DEFINE w1 == [op |-> "fat1"]
             w2 == [op |-> "fat2"]
             w3 == [op |-> "info"]
             g == Flush(b)
  <2>1. w1.op = "fat1" /\ w2.op = "fat2" /\ w3.op = "info" /\ w1 \in Op /\ w2 \in Op /\ w3 \in Op
    BY DEF Op
  <2>2. g = <<w1, w2>> \o <<w3>>
    BY <1>2 DEF Flush
  <2> HIDE DEF w1, w2, w3
  <2>3. Len(g) = 3 /\ g[1] = w1 /\ g[2] = w2 /\ g[3] = w3
    <3>1. <<w1, w2>> \in Seq(Op) /\ <<w3>> \in Seq(Op)
      BY <2>1
    <3> HIDE DEF g
    <3> QED
      BY <2>2, <3>1
  <2> HIDE DEF g
  <2>4. /\ Len(r) = K + 3 + Len(q) /\ (\A k \in 1 .. K : r[k] = p[k])
        /\ r[K + 1] = w1 /\ r[K + 2] = w2 /\ r[K + 3] = w3 /\ (Len(q) = 1 => r[K + 4] = q[1])
        /\ Len(q) \in Nat
    <3> DEFINE h == p \o g
    <3>1. r = h \o q
      BY DEF g
    <3>2. /\ h \in Seq(Op) /\ Len(h) = K + Len(g) /\ (\A k \in 1 .. K : h[k] = p[k])
          /\ \A k \in 1 .. Len(g) : h[K + k] = g[k]
      BY <1>1, Joined DEF K, g
    <3> HIDE DEF h, r
    <3>3. 1 \in 1 .. 3 /\ 2 \in 1 .. 3 /\ 3 \in 1 .. 3
      OBVIOUS
    <3>4. Len(h) = K + 3 /\ h[K + 1] = w1 /\ h[K + 2] = w2 /\ h[K + 3] = w3
      BY <2>3, <3>2, <3>3
    <3>5. /\ Len(r) = Len(h) + Len(q) /\ Len(q) \in Nat /\ (\A k \in 1 .. Len(h) : r[k] = h[k])
          /\ \A k \in 1 .. Len(q) : r[Len(h) + k] = q[k]
      <4>1. /\ Len(h \o q) = Len(h) + Len(q) /\ Len(q) \in Nat
            /\ \A k \in 1 .. Len(h) : (h \o q)[k] = h[k]
            /\ \A k \in 1 .. Len(q) : (h \o q)[Len(h) + k] = q[k]
        <5>1. h \in Seq(Op) /\ q \in Seq(Op)
          BY <1>1, <3>2
        <5> QED
          BY <5>1, Joined
      <4> QED
        BY <3>1, <4>1, Zenon
    <3>6. \A k \in 1 .. K + 3 : r[k] = h[k]
      BY <3>4, <3>5
    <3>7. K + 1 \in 1 .. K + 3 /\ K + 2 \in 1 .. K + 3 /\ K + 3 \in 1 .. K + 3
          /\ (\A k \in 1 .. K : k \in 1 .. K + 3) /\ (K + 3) + 1 = K + 4
      BY <1>1
    <3>8. Len(q) = 1 => r[(K + 3) + 1] = q[1]
      BY <3>4, <3>5
    <3> QED
      BY <3>2, <3>4, <3>5, <3>6, <3>7, <3>8
  <2> HIDE DEF r
  <2>5. Len(q) = 0 \/ (Len(q) = 1 /\ q[1].op \in {"hold", "mount"})
    <3>1. q = <<>> => Len(q) = 0
      OBVIOUS
    <3> QED
      BY <3>1 DEF After1
  <2>6. ASSUME NEW k \in 1 .. Len(r)
        PROVE  k \in 1 .. K \/ k = K + 1 \/ k = K + 2 \/ k = K + 3 \/ (k = K + 4 /\ Len(q) = 1)
    <3>1. K \in Nat /\ Len(q) \in 0 .. 1 /\ k \in 1 .. K + 3 + Len(q)
      <4>1. k \in 1 .. K + 3 + Len(q)
        BY <2>4
      <4> QED
        BY <1>1, <2>5, <4>1
    <3> DEFINE l == Len(q)
    <3> HIDE DEF l
    <3>2. l = 0 \/ l = 1
      BY <3>1 DEF l
    <3>3. k \in Nat /\ k >= 1 /\ k <= K + 3 + l
      BY <3>1, <3>2 DEF l
    <3>4. CASE l = 0
      BY <3>1, <3>3, <3>4
    <3>5. CASE l = 1
      <4>1. k <= K \/ k = K + 1 \/ k = K + 2 \/ k = K + 3 \/ k = K + 4
        BY <3>1, <3>3, <3>5
      <4> QED
        BY <3>1, <3>3, <3>5, <4>1 DEF l
    <3> QED
      BY <3>2, <3>4, <3>5
  <2>7. \A k \in 1 .. K : r[k].op \notin {"fat1", "fat2", "mount"}
    BY <2>4 DEF Plain, K
  <2>8. /\ r[K + 1].op = "fat1" /\ r[K + 2].op = "fat2" /\ r[K + 3].op = "info"
        /\ Len(q) = 1 => r[K + 4].op \in {"hold", "mount"}
    BY <2>1, <2>4, <2>5
  <2>9. Ordered(r)
    <3> SUFFICES ASSUME NEW k \in 1 .. Len(r)
                 PROVE  /\ r[k].op = "fat1" => k < Len(r) /\ r[k + 1].op = "fat2"
                        /\ r[k].op = "fat2" => k = 1 \/ r[k - 1].op = "fat1"
                        /\ r[k].op = "mount" => k = Len(r)
                        /\ r[k].op \in {"fat1", "fat2"} =>
                             \A j \in k + 1 .. Len(r) : r[j].op # "fat1"
      BY DEF Ordered
    <3>6. ASSUME k \in {K + 1, K + 2}, NEW j \in k + 1 .. Len(r)
          PROVE  r[j].op # "fat1"
      <4>1. j \in 1 .. Len(r) /\ j \notin 1 .. K /\ j # K + 1
        BY <1>1, <3>6
      <4> QED
        BY <2>6, <2>8, <4>1
    <3>1. CASE k \in 1 .. K
      BY <2>7, <3>1
    <3>2. CASE k = K + 1
      <4>1. k + 1 = K + 2 /\ k < Len(r)
        BY <1>1, <2>4, <3>2
      <4> QED
        BY <2>8, <3>2, <3>6, <4>1
    <3>3. CASE k = K + 2
      <4>1. k - 1 = K + 1
        BY <1>1, <3>3
      <4> QED
        BY <2>8, <3>3, <3>6, <4>1
    <3>4. CASE k = K + 3
      BY <2>8, <3>4
    <3>5. CASE k = K + 4 /\ Len(q) = 1
      BY <1>1, <2>4, <2>8, <3>5
    <3> QED
      BY <2>6, <3>1, <3>2, <3>3, <3>4, <3>5
  <2>10. r[1].op # "fat2"
    <3>1. CASE K = 0
      BY <2>8, <3>1
    <3>2. CASE K # 0
      <4>1. 1 \in 1 .. K
        BY <1>1, <3>2
      <4> QED
        BY <2>7, <4>1
    <3> QED
      BY <3>1, <3>2
  <2>11. Marked(r, b)
    BY <1>2 DEF Marked
  <2> QED
    BY <1>1, <2>9, <2>10, <2>11 DEF OpensWith, r
<1>3. CASE b = FALSE
  <2> DEFINE w3 == [op |-> "info"]
             g == Flush(b)
  <2>1. w3.op = "info" /\ w3 \in Op
    BY DEF Op
  <2>2. g = <<>> \o <<w3>>
    BY <1>3 DEF Flush
  <2> HIDE DEF w3
  <2>3. Len(g) = 1 /\ g[1] = w3
    <3>1. <<>> \in Seq(Op) /\ <<w3>> \in Seq(Op)
      BY <2>1
    <3> HIDE DEF g
    <3> QED
      BY <2>2, <3>1
  <2> HIDE DEF g
  <2>4. /\ Len(r) = K + 1 + Len(q) /\ (\A k \in 1 .. K : r[k] = p[k])
        /\ r[K + 1] = w3 /\ (Len(q) = 1 => r[K + 2] = q[1]) /\ Len(q) \in Nat
    <3> DEFINE h == p \o g
    <3>1. r = h \o q
      BY DEF g
    <3>2. /\ h \in Seq(Op) /\ Len(h) = K + Len(g) /\ (\A k \in 1 .. K : h[k] = p[k])
          /\ \A k \in 1 .. Len(g) : h[K + k] = g[k]
      BY <1>1, Joined DEF K, g
    <3> HIDE DEF h, r
    <3>3. 1 \in 1 .. 1
      OBVIOUS
    <3>4. Len(h) = K + 1 /\ h[K + 1] = w3
      BY <2>3, <3>2, <3>3
    <3>5. /\ Len(r) = Len(h) + Len(q) /\ Len(q) \in Nat /\ (\A k \in 1 .. Len(h) : r[k] = h[k])
          /\ \A k \in 1 .. Len(q) : r[Len(h) + k] = q[k]
      <4>1. /\ Len(h \o q) = Len(h) + Len(q) /\ Len(q) \in Nat
            /\ \A k \in 1 .. Len(h) : (h \o q)[k] = h[k]
            /\ \A k \in 1 .. Len(q) : (h \o q)[Len(h) + k] = q[k]
        <5>1. h \in Seq(Op) /\ q \in Seq(Op)
          BY <1>1, <3>2
        <5> QED
          BY <5>1, Joined
      <4> QED
        BY <3>1, <4>1, Zenon
    <3>6. \A k \in 1 .. K + 1 : r[k] = h[k]
      BY <3>4, <3>5
    <3>7. K + 1 \in 1 .. K + 1
          /\ (\A k \in 1 .. K : k \in 1 .. K + 1) /\ (K + 1) + 1 = K + 2
      BY <1>1
    <3>8. Len(q) = 1 => r[(K + 1) + 1] = q[1]
      BY <3>4, <3>5
    <3> QED
      BY <3>2, <3>4, <3>5, <3>6, <3>7, <3>8
  <2> HIDE DEF r
  <2>5. Len(q) = 0 \/ (Len(q) = 1 /\ q[1].op \in {"hold", "mount"})
    <3>1. q = <<>> => Len(q) = 0
      OBVIOUS
    <3> QED
      BY <3>1 DEF After1
  <2>6. ASSUME NEW k \in 1 .. Len(r)
        PROVE  k \in 1 .. K \/ k = K + 1 \/ (k = K + 2 /\ Len(q) = 1)
    <3>1. K \in Nat /\ Len(q) \in 0 .. 1 /\ k \in 1 .. K + 1 + Len(q)
      <4>1. k \in 1 .. K + 1 + Len(q)
        BY <2>4
      <4> QED
        BY <1>1, <2>5, <4>1
    <3> DEFINE l == Len(q)
    <3> HIDE DEF l
    <3>2. l = 0 \/ l = 1
      BY <3>1 DEF l
    <3>3. k \in Nat /\ k >= 1 /\ k <= K + 1 + l
      BY <3>1, <3>2 DEF l
    <3>4. CASE l = 0
      BY <3>1, <3>3, <3>4
    <3>5. CASE l = 1
      <4>1. k <= K \/ k = K + 1 \/ k = K + 2
        BY <3>1, <3>3, <3>5
      <4> QED
        BY <3>1, <3>3, <3>5, <4>1 DEF l
    <3> QED
      BY <3>2, <3>4, <3>5
  <2>7. \A k \in 1 .. K : r[k].op \notin {"fat1", "fat2", "mount"}
    BY <2>4 DEF Plain, K
  <2>8. r[K + 1].op = "info" /\ (Len(q) = 1 => r[K + 2].op \in {"hold", "mount"})
    BY <2>1, <2>4, <2>5
  <2>9. ASSUME NEW k \in 1 .. Len(r)
        PROVE  r[k].op \notin {"fat1", "fat2"} /\ (r[k].op = "mount" => k = Len(r))
    <3>1. CASE k \in 1 .. K
      BY <2>7, <3>1
    <3>2. CASE k = K + 1
      BY <2>8, <3>2
    <3>3. CASE k = K + 2 /\ Len(q) = 1
      BY <1>1, <2>4, <2>8, <3>3
    <3> QED
      BY <2>6, <3>1, <3>2, <3>3
  <2>10. Ordered(r)
    BY <2>9 DEF Ordered
  <2>11. 1 \in 1 .. Len(r)
    BY <1>1, <2>4
  <2>12. Marked(r, b)
    BY <2>9 DEF Marked
  <2> QED
    BY <1>1, <2>9, <2>10, <2>11, <2>12 DEF OpensWith, r
<1> QED
  BY <1>2, <1>3

-----------------------------------------------------------------------------
(* The calls                                                               *)

\* What holds once a call has changed the memory: the writes it leaves to do
\* lead to a settled volume, and the order they have.
Begun(m, d, todo) ==
  /\ m \in Mem /\ todo \in Seq(Op) /\ Ordered(todo) /\ ~OpensWith(todo, "fat2")
  /\ (~m.dirty => d.fat1 = m.fat) /\ Marked(todo, m.dirty)

Called(m, d, todo, B, full) ==
  /\ Begun(m, d, todo)
  /\ \E e : Leads(m, d, todo, B, full, e) /\ Settled(m, e, full)

Closing(q) ==
  \/ q = <<>> \/ q = <<[op |-> "mount"]>>
  \/ \E h \in Handle, n \in Held : q = <<Hold(h, n)>>

LEMMA ClosingRight ==
  ASSUME NEW q, Closing(q), NEW m \in Mem, NEW e \in Disk, NEW B, NEW full,
         Contained(e, B, full)
  PROVE  After1(q) /\ Leads(m, e, q, B, full, e)
<1>1. CASE q = <<>>
  BY <1>1, LeadsNil DEF After1
<1>2. CASE q # <<>>
  <2>1. PICK w \in Op : q = <<w>> /\ w.op \in {"hold", "mount"} /\ Written(m, e, w) = e
    <3>1. CASE q = <<[op |-> "mount"]>>
      <4>1. [op |-> "mount"] \in Op /\ Written(m, e, [op |-> "mount"]) = e
        BY WrittenRest DEF Op
      <4> QED
        BY <3>1, <4>1
    <3>2. ASSUME NEW h \in Handle, NEW n \in Held, q = <<Hold(h, n)>>
          PROVE  \E w \in Op : q = <<w>> /\ w.op \in {"hold", "mount"} /\ Written(m, e, w) = e
      <4>1. Hold(h, n) \in Op /\ Hold(h, n).op = "hold"
        BY DEF Hold, Op
      <4>2. Written(m, e, Hold(h, n)) = e
        BY WrittenRest
      <4> QED
        BY <3>2, <4>1, <4>2
    <3> QED
      BY <1>2, <3>1, <3>2 DEF Closing
  <2>2. q \in Seq(Op) /\ Len(q) = 1 /\ q[1] = w
    BY <2>1
  <2>3. Leads(m, e, <<w>>, B, full, e)
    BY <2>1, LeadsOne
  <2> QED
    BY <2>1, <2>2, <2>3 DEF After1
<1> QED
  BY <1>1, <1>2

LEMMA FlushCall ==
  ASSUME NEW m, NEW d, NEW B, NEW full, NEW p \in Seq(Op), Plain(p), NEW x,
         Leads(m, d, p, B, full, x), Flushable(m, x, full), x.fat1 = d.fat1,
         Steady(d.fat1, m.fat, x, B),
         NEW q, Closing(q)
  PROVE  Called(m, d, p \o Flush(m.dirty) \o q, B, full)
<1> DEFINE g == Flush(m.dirty)
<1>1. m \in Mem /\ m.dirty \in BOOLEAN /\ Contained(x, B, full)
  BY LeadsStart DEF Flushable, Mem
<1>2. PICK e : Leads(m, x, g, B, full, e) /\ Settled(m, e, full)
  BY <1>1, FlushLeads
<1>3. Contained(e, B, full) /\ e \in Disk
  BY <1>2, SettledContained DEF Settled
<1>4. After1(q) /\ Leads(m, e, q, B, full, e)
  BY <1>1, <1>3, ClosingRight
<1>5. g \in Seq(Op) /\ q \in Seq(Op)
  BY <1>4, FlushType DEF After1
<1>6. LET r == p \o g \o q IN r \in Seq(Op) /\ Ordered(r) /\ ~OpensWith(r, "fat2")
                                /\ Marked(r, m.dirty)
  BY <1>1, <1>4, OrderedFlush
<1> HIDE DEF g
<1>7. Leads(m, d, p \o g, B, full, e)
  BY <1>2, <1>5, LeadsJoin
<1>8. p \o g \in Seq(Op)
  BY <1>5
<1>9. Leads(m, d, (p \o g) \o q, B, full, e)
  BY <1>4, <1>5, <1>7, <1>8, LeadsJoin
<1>10. ~m.dirty => d.fat1 = m.fat
  BY DEF Flushable
<1>11. Called(m, d, p \o g \o q, B, full)
  BY <1>1, <1>2, <1>6, <1>9, <1>10 DEF Called, Begun
<1> QED
  BY <1>11 DEF g

\* The entries and the table of a volume in which the root has not moved, and
\* nothing is new.
Fewer(d, e) ==
  \A t \in Place : \/ At(e, t) = At(d, t) \/ At(e, t) = DEL
                   \/ /\ At(e, t).kind = "entry" /\ At(d, t).kind = "entry"
                      /\ At(e, t).name = At(d, t).name

LEMMA ConsistentKept ==
  ASSUME NEW f, NEW g, NEW d, NEW e, Consistent(f, d), Tabled(g, Firsts(e)),
         Chain(g, Root) = Chain(f, Root), \A c \in Chain(f, Root) : g[c] = f[c],
         Fewer(d, e)
  PROVE  Consistent(g, e)
<1>1. DEL.kind # "entry" /\ \A nm : DEL # Lfn(nm) /\ Lfn(nm).kind # "entry"
  BY DEF DEL, Lfn
<1>2. \A t \in Place : At(e, t).kind = "entry" =>
                       At(d, t).kind = "entry" /\ At(e, t).name = At(d, t).name
  BY <1>1 DEF Fewer
<1>3. \A t \in Place, nm \in Long : At(e, t) = Lfn(nm) => At(d, t) = Lfn(nm)
  BY <1>1 DEF Fewer
<1>4. \A s \in Live(e) : s[1] \in Chain(g, Root)
  BY <1>2 DEF Live, Consistent
<1>5. ASSUME NEW c \in Chain(g, Root), NEW nm \in Long,
             g[c] \in Cluster, At(e, <<c, EPC>>) = Lfn(nm),
             At(e, <<g[c], 1>>).kind = "entry", At(e, <<g[c], 1>>).name = nm
      PROVE  g[c] = c + 1
  <2>1. c \in Chain(f, Root) /\ g[c] = f[c] /\ c \in Cluster
    BY ChainType
  <2>2. <<c, EPC>> \in Place /\ <<g[c], 1>> \in Place
    BY <1>5, <2>1, PlaceRight
  <2>3. At(d, <<c, EPC>>) = Lfn(nm) /\ At(d, <<f[c], 1>>).kind = "entry"
        /\ At(d, <<f[c], 1>>).name = nm
    BY <1>2, <1>3, <1>5, <2>1, <2>2
  <2> QED
    BY <1>5, <2>1, <2>3 DEF Consistent
<1> QED
  BY <1>4, <1>5 DEF Consistent

LEMMA KeptFacts ==
  ASSUME NEW f, NEW g, NEW d \in Disk, NEW s \in Live(d), Kept(f, g, Firsts(d), s)
  PROVE  /\ Chain(g, Root) = Chain(f, Root) /\ \A c \in Chain(f, Root) : g[c] = f[c]
         /\ \A t \in Live(d) \ {s} : ChainOf(g, d, t) = ChainOf(f, d, t)
<1>1. /\ DOMAIN Firsts(d) = Live(d) \cup {<<0, 0>>}
      /\ Firsts(d)[<<0, 0>>] = Root /\ <<0, 0>> \notin Live(d)
      /\ \A t \in Live(d) : Firsts(d)[t] = At(d, t).first
  BY FirstsRight DEF Disk
<1>2. <<0, 0>> \in DOMAIN Firsts(d) \ {s}
  BY <1>1
<1>3. Chain(g, Root) = Chain(f, Root) /\ \A c \in Chain(f, Root) : g[c] = f[c]
  BY <1>1, <1>2 DEF Kept
<1>4. \A t \in Live(d) \ {s} : t \in DOMAIN Firsts(d) \ {s} /\ Firsts(d)[t] = At(d, t).first
  BY <1>1
<1>5. \A t \in Live(d) \ {s} : ChainOf(g, d, t) = ChainOf(f, d, t)
  BY <1>4 DEF Kept, ChainOf
<1> QED
  BY <1>3, <1>5

\* Save: the entry at s and the table get a new first cluster and size.
Saved(m, n, d, s, first, size, full) ==
  /\ Holds(n, [Firsts(d) EXCEPT ![s] = first]) /\ Kept(m.fat, n.fat, Firsts(d), s)
  /\ n = m \/ n.dirty = TRUE
  /\ \/ first = 0 \/ first = At(d, s).first
     \/ first \in Cluster /\ m.fat[first] = FREE
  /\ full \/ size <= Cardinality(Chain(n.fat, first))

LEMMA SaveRight ==
  ASSUME NEW m, NEW d, NEW full, Settled(m, d, full), NEW s \in Live(d), NEW n,
         NEW first \in First, NEW size \in 0 .. MaxSize, Saved(m, n, d, s, first, size, full)
  PROVE  Called(n, d, <<Update(s, first, size)>> \o Flush(n.dirty), {s}, full)
<1> DEFINE w == Update(s, first, size)
           e == Written(n, d, w)
           y == Updated(At(d, s), first, size)
           F == Firsts(d)
           B == {s}
<1>1. /\ d \in Disk /\ d.ent \in Contents /\ s \in Place /\ At(d, s).kind = "entry"
      /\ n \in Mem /\ m \in Mem
  <2>1. d \in Disk /\ m \in Mem
    BY DEF Settled
  <2> QED
    BY <2>1 DEF Disk, Live, Saved, Holds
<1>2. PutAt(d, e, s, y)
  BY <1>1, WrittenUpdate
<1>3. y.kind = "entry" /\ y.name = At(d, s).name /\ y.first = first /\ y.size = size
  BY EntryRight DEF Updated
<1> HIDE DEF y
<1>4. w \in Op /\ w.op = "update"
  BY <1>1, UpdateRight
<1>5. e = Written(n, d, w)
  OBVIOUS
<1> HIDE DEF e, w
<1>6. /\ e \in Disk /\ e.fat1 = d.fat1 /\ e.fat2 = d.fat2 /\ e.ent \in Contents
      /\ At(e, s) = y /\ \A t \in Place \ {s} : At(e, t) = At(d, t)
  BY <1>1, <1>2 DEF PutAt, Entries, Disk
<1>7. Live(e) = Live(d)
  BY <1>1, <1>3, <1>6 DEF Live
<1>8. /\ DOMAIN F = Live(d) \cup {<<0, 0>>} /\ F[<<0, 0>>] = Root /\ <<0, 0>> \notin Live(d)
      /\ \A t \in Live(d) : F[t] = At(d, t).first
  BY <1>1, FirstsRight
<1>9. /\ DOMAIN Firsts(e) = Live(d) \cup {<<0, 0>>} /\ Firsts(e)[<<0, 0>>] = Root
      /\ \A t \in Live(d) : Firsts(e)[t] = At(e, t).first
  BY <1>6, <1>7, FirstsRight
<1>10. \A t \in Live(d) : t \in Place
  BY DEF Live
<1>11. Tabled(n.fat, Firsts(e))
  <2> DEFINE G == [F EXCEPT ![s] = first]
             H == Firsts(e)
  <2>1. Tabled(n.fat, G)
    BY DEF Saved, Holds
  <2>2. DOMAIN G = DOMAIN F /\ DOMAIN H = DOMAIN F
    BY <1>8, <1>9
  <2>3. ASSUME NEW o \in DOMAIN F PROVE H[o] = G[o]
    <3>1. CASE o = s
      <4>1. G[o] = first
        BY <3>1
      <4>2. H[o] = first
        BY <1>3, <1>6, <1>9, <3>1
      <4> QED
        BY <4>1, <4>2
    <3>2. CASE o # s
      <4>1. G[o] = F[o]
        BY <3>2
      <4>2. H[o] = F[o]
        BY <1>6, <1>8, <1>9, <1>10, <3>2
      <4> QED
        BY <4>1, <4>2
    <3> QED
      BY <3>1, <3>2
  <2> HIDE DEF G, H, F
  <2>4. Tabled(n.fat, H)
    BY <2>1, <2>2, <2>3, SameOwners
  <2> QED
    BY <2>4 DEF H
<1>12. /\ Chain(n.fat, Root) = Chain(m.fat, Root)
       /\ \A c \in Chain(m.fat, Root) : n.fat[c] = m.fat[c]
       /\ \A t \in Live(d) \ {s} : ChainOf(n.fat, d, t) = ChainOf(m.fat, d, t)
  BY <1>1, KeptFacts DEF Saved
<1>13. Consistent(n.fat, e)
  <2>1. Fewer(d, e)
    BY <1>1, <1>3, <1>6 DEF Fewer
  <2>2. Consistent(m.fat, d)
    BY DEF Settled
  <2> QED
    BY <1>11, <1>12, <2>1, <2>2, ConsistentKept
<1>14. full \/ Sized(n.fat, e)
  <2> SUFFICES ASSUME ~full, NEW t \in Live(e)
               PROVE  At(e, t).size <= Cardinality(ChainOf(n.fat, e, t))
    BY DEF Sized
  <2>1. CASE t = s
    BY <1>3, <1>6, <2>1 DEF Saved, ChainOf
  <2>2. CASE t # s
    <3>1. At(e, t) = At(d, t) /\ t \in Live(d) \ {s}
      BY <1>6, <1>7, <1>10, <2>2
    <3>2. ChainOf(n.fat, e, t) = ChainOf(m.fat, d, t)
      BY <1>12, <3>1 DEF ChainOf
    <3>3. At(d, t).size <= Cardinality(ChainOf(m.fat, d, t))
      BY <3>1 DEF Settled, Sized
    <3> QED
      BY <3>1, <3>2, <3>3
  <2> QED
    BY <2>1, <2>2
<1>15. Contained(d, B, full)
  BY SettledContained
<1>16. Contained(e, B, full) /\ Steady(d.fat1, n.fat, e, B)
  <2> DEFINE f == m.fat
  <2>1. Tabled(f, Firsts(d)) /\ (full \/ Sized(f, d)) /\ d.fat1 = f
    BY DEF Settled, Consistent
  <2>2. Alongside(f, d, e, B)
    <3>1. e.fat1 = f
      BY <1>6, <2>1
    <3>2. \A t \in Live(e) \ B : t \in Live(d) /\ At(e, t) = At(d, t)
      BY <1>6, <1>7, <1>10
    <3>3. ASSUME NEW t \in Live(e) \cap B
          PROVE  \/ At(e, t).first = 0
                 \/ t \in Live(d) /\ At(e, t).first = At(d, t).first
                 \/ At(e, t).first \in Cluster /\ f[At(e, t).first] = FREE
      <4>1. t = s /\ At(e, t).first = first
        BY <1>3, <1>6
      <4> QED
        BY <4>1 DEF Saved
    <3> QED
      BY <3>1, <3>2, <3>3 DEF Alongside
  <2>3. ASSUME NEW t \in Live(e) \ B, NEW c \in ChainOf(f, e, t) PROVE n.fat[c] = f[c]
    <3>1. t \in DOMAIN F \ {s} /\ F[t] = At(d, t).first /\ At(e, t) = At(d, t)
      BY <1>6, <1>7, <1>8, <1>10
    <3>2. c \in Chain(f, F[t])
      BY <3>1 DEF ChainOf
    <3> QED
      BY <3>1, <3>2 DEF Saved, Kept
  <2> HIDE DEF f, B
  <2>4. Contained(e, B, full)
    BY <1>1, <2>1, <2>2, ContainedAlongside
  <2>5. Steady(f, n.fat, e, B)
    BY <1>1, <2>1, <2>2, <2>3 DEF Steady
  <2> QED
    BY <2>1, <2>4, <2>5
<1>17. Flushable(n, e, full)
  <2>1. Counted(n)
    BY DEF Saved, Holds
  <2>2. ~n.dirty => e.fat1 = n.fat /\ e.fat2 = n.fat
    BY <1>6 DEF Saved, Settled
  <2> QED
    BY <1>1, <1>6, <1>13, <1>14, <2>1, <2>2 DEF Flushable
<1>18. Leads(n, d, <<w>>, B, full, e)
  BY <1>1, <1>4, <1>5, <1>6, <1>15, <1>16, LeadsOne
<1> DEFINE p == <<w>>
<1>19. p \in Seq(Op) /\ Plain(p)
  <2>1. p \in Seq(Op) /\ Len(p) = 1 /\ p[1] = w
    BY <1>4
  <2> QED
    BY <1>4, <2>1 DEF Plain
<1>20. Leads(n, d, p, B, full, e)
  BY <1>18
<1> HIDE DEF p
<1>21. Called(n, d, p \o Flush(n.dirty) \o <<>>, B, full)
  BY <1>6, <1>16, <1>17, <1>19, <1>20, FlushCall DEF Closing
<1>22. p \o Flush(n.dirty) \o <<>> = p \o Flush(n.dirty)
  <2>1. p \o Flush(n.dirty) \in Seq(Op)
    BY <1>19, FlushType
  <2> QED
    BY <2>1
<1> QED
  BY <1>21, <1>22 DEF p, w

\* The slots of the root, and what Find finds there.
LEMMA RootRight ==
  ASSUME NEW f, NEW F, Tabled(f, F), NEW o \in DOMAIN F
  PROVE  LET p == ChainSeq(f, F[o]) IN
         /\ p \in Seq(Cluster) /\ Path(f, F[o], p) /\ Rng(p) = Chain(f, F[o])
         /\ IsSlots(Slots(f, F[o]), f, p)
<1>1. Path(f, F[o], ChainSeq(f, F[o]))
  BY DEF Tabled
<1> DEFINE c == F[o]
           p == ChainSeq(f, c)
<1>2. Path(f, c, p)
  BY <1>1
<1> HIDE DEF c
<1>3. p \in Seq(Cluster) /\ Rng(p) = Chain(f, c)
  BY <1>2, PathExists
<1>4. IsSlots(Slots(f, c), f, p)
  BY <1>2, <1>3, SlotsRight
<1> QED
  BY <1>2, <1>3, <1>4 DEF c

LEMMA SettledRoot ==
  ASSUME NEW m, NEW d, NEW full, Settled(m, d, full)
  PROVE  LET p == ChainSeq(m.fat, Root) IN
         /\ p \in Seq(Cluster) /\ Path(m.fat, Root, p) /\ Rng(p) = Chain(m.fat, Root)
         /\ IsSlots(Slots(m.fat, Root), m.fat, p)
<1> DEFINE F == Firsts(d)
           o == <<0, 0>>
<1>1. Tabled(m.fat, F) /\ o \in DOMAIN F /\ F[o] = Root
  BY FirstsRight DEF Settled, Consistent, Disk
<1> HIDE DEF F, o
<1>2. LET p == ChainSeq(m.fat, F[o]) IN
      /\ p \in Seq(Cluster) /\ Path(m.fat, F[o], p) /\ Rng(p) = Chain(m.fat, F[o])
      /\ IsSlots(Slots(m.fat, F[o]), m.fat, p)
  BY <1>1, RootRight
<1> QED
  BY <1>1, <1>2

\* s is the k-th slot, and holds the entry of nm.
Found(f, d, nm, s, k) ==
  /\ k \in 1 .. Len(Slots(f, Root)) /\ Slots(f, Root)[k] = s
  /\ s \in Live(d) /\ At(d, s).name = nm
  /\ nm \in Long => k > 1 /\ At(d, Slots(f, Root)[k - 1]) = Lfn(nm)

LEMMA FindRight ==
  ASSUME NEW f, NEW d, NEW nm, Slots(f, Root) \in Seq(Place), Find(f, d, nm) # <<0, 0>>
  PROVE  \E k : Found(f, d, nm, Find(f, d, nm), k)
<1> DEFINE s == Slots(f, Root)
           named == {k \in Listed(f, d, Root) :
                       /\ At(d, s[k]).name = nm
                       /\ nm \in Long => k > 1 /\ At(d, s[k - 1]) = Lfn(nm)}
           j == Min(named)
<1>1. Find(f, d, nm) = s[j] /\ named # {}
  BY DEF Find
<1>2. Len(s) \in Nat
  OBVIOUS
<1>3. \A k \in named : /\ k \in 1 .. Len(s) - 1 /\ At(d, s[k]).kind = "entry"
                       /\ At(d, s[k]).name = nm
                       /\ nm \in Long => k > 1 /\ At(d, s[k - 1]) = Lfn(nm)
  BY DEF Listed, Readable
<1>4. j \in named
  <2>1. named \in SUBSET Nat
    BY <1>2, <1>3
  <2> HIDE DEF named
  <2> QED
    BY <1>1, <2>1, MinRight
<1> HIDE DEF named, j
<1>5. j \in 1 .. Len(s) /\ s[j] \in Place
  BY <1>2, <1>3, <1>4
<1>6. Found(f, d, nm, s[j], j)
  BY <1>3, <1>4, <1>5 DEF Found, Live
<1> QED
  BY <1>1, <1>6

\* A long name and its entry are side by side on the disk.
LEMMA NextDoor ==
  ASSUME NEW f, NEW d, Consistent(f, d), NEW p, IsSlots(Slots(f, Root), f, p),
         Rng(p) = Chain(f, Root), NEW nm \in Long, NEW s, NEW k, Found(f, d, nm, s, k)
  PROVE  Slots(f, Root)[k - 1] \in Place /\ s = After(Slots(f, Root)[k - 1])
<1> DEFINE t == Slots(f, Root)[k - 1]
           L == Len(Slots(f, Root))
<1>1. L \in Nat /\ k \in 1 .. L /\ k > 1 /\ At(d, t) = Lfn(nm) /\ Slots(f, Root)[k] = s
  BY DEF Found, IsSlots
<1>2. k \in 2 .. L /\ k - 1 \in 1 .. L
  BY <1>1
<1>3. t \in Place /\ t[1] \in Chain(f, Root) /\ s = Follow(f, t)
  BY <1>1, <1>2 DEF IsSlots
<1>4. s \in Place /\ At(d, s).kind = "entry" /\ At(d, s).name = nm
  BY DEF Found, Live
<1> HIDE DEF t
<1>5. t[1] \in Cluster /\ t[2] \in 1 .. EPC /\ t = <<t[1], t[2]>> /\ EPC \in Nat
  BY <1>3, PlaceRight
<1>6. ASSUME t[2] < EPC PROVE s = After(t)
  BY <1>3, <1>6 DEF Follow, After
<1>7. ASSUME ~(t[2] < EPC) PROVE s = After(t)
  <2>1. t[2] = EPC
    BY <1>5, <1>7
  <2>2. s = <<f[t[1]], 1>>
    BY <1>3, <1>7 DEF Follow
  <2> DEFINE c == t[1]
  <2>3. c \in Chain(f, Root) /\ t = <<c, EPC>> /\ s = <<f[c], 1>>
    BY <1>3, <1>5, <2>1, <2>2
  <2> HIDE DEF c
  <2>4. f[c] \in Cluster
    BY <1>4, <2>3, PlaceRight
  <2>5. f[c] = c + 1
    BY <1>1, <1>4, <2>3, <2>4 DEF Consistent
  <2>6. After(t) = <<t[1] + 1, 1>>
    BY <1>7 DEF After
  <2> QED
    BY <1>3, <2>3, <2>5, <2>6 DEF c
<1> QED
  BY <1>3, <1>6, <1>7 DEF t

LEMMA PlainOne ==
  ASSUME NEW w \in Op, w.op \notin {"fat1", "fat2", "mount"}
  PROVE  <<w>> \in Seq(Op) /\ Plain(<<w>>)
<1>1. <<w>> \in Seq(Op) /\ Len(<<w>>) = 1 /\ <<w>>[1] = w
  OBVIOUS
<1> QED
  BY <1>1 DEF Plain

LEMMA PlainJoin ==
  ASSUME NEW p \in Seq(Op), NEW q \in Seq(Op), Plain(p), Plain(q)
  PROVE  p \o q \in Seq(Op) /\ Plain(p \o q)
<1> DEFINE r == p \o q
           K == Len(p)
           L == Len(q)
<1>1. /\ r \in Seq(Op) /\ Len(r) = K + L /\ K \in Nat /\ L \in Nat
      /\ (\A k \in 1 .. K : r[k] = p[k]) /\ \A k \in 1 .. L : r[K + k] = q[k]
  BY Joined
<1> HIDE DEF r, K, L
<1>2. ASSUME NEW k \in 1 .. Len(r) PROVE r[k].op \notin {"fat1", "fat2", "mount"}
  <2>1. CASE k <= K
    <3>1. k \in 1 .. K
      BY <1>1, <2>1
    <3> QED
      BY <1>1, <3>1 DEF Plain, K
  <2>2. CASE ~(k <= K)
    <3> DEFINE j == k - K
    <3>1. j \in 1 .. L /\ K + j = k
      BY <1>1, <2>2
    <3> HIDE DEF j
    <3>2. r[k] = q[j]
      BY <1>1, <3>1
    <3> QED
      BY <3>1, <3>2 DEF Plain, L
  <2> QED
    BY <2>1, <2>2
<1>3. Plain(r)
  BY <1>2 DEF Plain
<1> QED
  BY <1>1, <1>3 DEF r

\* The entry at s, and the one in front if it has a long name, are deleted in
\* one write or in two.
Erased(d, from, s, e) ==
  Entries(d, e) /\ \A t \in Place : At(e, t) = IF t \in {from, s} THEN DEL ELSE At(d, t)

LEMMA DeletesRight ==
  ASSUME NEW n, NEW d \in Disk, NEW full, Tabled(d.fat1, Firsts(d)), full \/ Sized(d.fat1, d),
         NEW s \in Live(d), NEW from \in Place,
         from = s \/ (s = After(from) /\ At(d, from).kind # "entry")
  PROVE  /\ Deletes(from, s) \in Seq(Op) /\ Plain(Deletes(from, s))
         /\ \E e : Leads(n, d, Deletes(from, s), {s}, full, e) /\ Erased(d, from, s, e)
<1> DEFINE f == d.fat1
           B == {s}
<1>1. s \in Place /\ d.ent \in Contents /\ DEL.kind # "entry"
  BY DEF Live, Disk, DEL
<1>2. ASSUME NEW x, Entries(d, x),
             \A t \in Place : At(x, t) = At(d, t) \/ (t \in {from, s} /\ At(x, t) = DEL)
      PROVE  Contained(x, B, full)
  <2>1. x.fat1 = f
    BY <1>2 DEF Entries
  <2>2. \A t \in Live(x) : t \in Live(d) /\ At(x, t) = At(d, t)
    BY <1>1, <1>2 DEF Live
  <2>3. Alongside(f, d, x, B)
    BY <2>1, <2>2 DEF Alongside
  <2> HIDE DEF f, B
  <2>4. Tabled(f, Firsts(d)) /\ (full \/ Sized(f, d))
    BY DEF f
  <2> QED
    BY <1>1, <2>3, <2>4, ContainedAlongside
<1> HIDE DEF f, B
<1>3. ASSUME NEW a \in Place, NEW b \in Place
      PROVE  Delete(a, b) \in Op /\ Delete(a, b).op = "delete"
  BY DEF Delete, Op
<1>4. Entries(d, d)
  BY DEF Entries
<1>5. Contained(d, B, full)
  BY <1>2, <1>4
<1>6. CASE from[1] = s[1]
  <2> DEFINE w == Delete(from, s)
             e == Written(n, d, w)
  <2>1. Between(from, s) = {from, s}
    BY <1>1, BetweenSame, BetweenNext
  <2>2. Entries(d, e) /\ \A t \in Place : At(e, t) = IF t \in {from, s} THEN DEL ELSE At(d, t)
    BY <2>1, WrittenDelete
  <2>3. e = Written(n, d, w) /\ w \in Op /\ w.op = "delete" /\ Deletes(from, s) = <<w>>
    BY <1>1, <1>3, <1>6 DEF Deletes
  <2> HIDE DEF w, e
  <2>4. Contained(e, B, full) /\ e \in Disk
    BY <1>2, <2>2 DEF Entries
  <2>5. Leads(n, d, <<w>>, B, full, e)
    BY <1>5, <2>3, <2>4, LeadsOne
  <2>6. <<w>> \in Seq(Op) /\ Plain(<<w>>)
    BY <2>3, PlainOne
  <2> QED
    BY <2>2, <2>3, <2>5, <2>6 DEF Erased, B
<1>7. CASE from[1] # s[1]
  <2> DEFINE w1 == Delete(from, <<from[1], EPC>>)
             w2 == Delete(<<s[1], 1>>, s)
             x == Written(n, d, w1)
             e == Written(n, x, w2)
  <2>1. <<from[1], EPC>> = from /\ <<s[1], 1>> = s /\ s = After(from) /\ At(d, from).kind # "entry"
    <3>1. s = After(from) /\ At(d, from).kind # "entry"
      BY <1>7
    <3>2. from = <<from[1], from[2]>> /\ from[2] \in 1 .. EPC /\ EPC \in Nat
      BY PlaceRight
    <3>3. ~(from[2] < EPC)
      BY <1>7, <3>1 DEF After
    <3>4. from[2] = EPC /\ s = <<from[1] + 1, 1>>
      BY <3>1, <3>2, <3>3 DEF After
    <3> QED
      BY <3>1, <3>2, <3>4
  <2>2. w1 = Delete(from, from) /\ w2 = Delete(s, s)
    BY <2>1
  <2>3. Between(from, from) = {from} /\ Between(s, s) = {s}
    BY <1>1, BetweenSame
  <2>4. /\ x = Written(n, d, w1) /\ e = Written(n, x, w2) /\ Deletes(from, s) = <<w1, w2>>
    BY <1>7 DEF Deletes
  <2>5. w1 \in Op /\ w2 \in Op /\ w1.op = "delete" /\ w2.op = "delete"
    BY <1>1, <1>3, <2>2
  <2> HIDE DEF w1, w2, x, e
  <2>6. PutAt(d, x, from, DEL)
    <3>1. Entries(d, x) /\ \A t \in Place : At(x, t) = IF t \in {from} THEN DEL ELSE At(d, t)
      BY <2>2, <2>3, <2>4, WrittenDelete
    <3> QED
      BY <3>1 DEF PutAt
  <2>7. x \in Disk
    BY <2>6 DEF PutAt, Entries
  <2>8. PutAt(x, e, s, DEL)
    <3>1. Entries(x, e) /\ \A t \in Place : At(e, t) = IF t \in {s} THEN DEL ELSE At(x, t)
      BY <2>2, <2>3, <2>4, <2>7, WrittenDelete
    <3> QED
      BY <3>1 DEF PutAt
  <2>9. Erased(d, from, s, e) /\ e \in Disk
    BY <2>6, <2>8 DEF PutAt, Entries, Erased
  <2>10. Contained(x, B, full)
    BY <1>2, <2>6 DEF PutAt
  <2>11. Contained(e, B, full)
    BY <1>2, <2>9 DEF Erased
  <2>12. Leads(n, d, <<w1>>, B, full, x) /\ Leads(n, x, <<w2>>, B, full, e)
    BY <1>5, <2>4, <2>5, <2>7, <2>9, <2>10, <2>11, LeadsOne
  <2>13. <<w1>> \in Seq(Op) /\ <<w2>> \in Seq(Op) /\ Plain(<<w1>>) /\ Plain(<<w2>>)
    BY <2>5, PlainOne
  <2>14. <<w1>> \o <<w2>> = <<w1, w2>>
    <3> DEFINE r == <<w1>> \o <<w2>>
    <3>1. r \in Seq(Op) /\ Len(r) = 2 /\ r[1] = w1 /\ r[2] = w2
      BY <2>5
    <3> HIDE DEF r
    <3>2. r = <<r[1], r[2]>>
      BY <3>1
    <3> QED
      BY <3>1, <3>2 DEF r
  <2>15. Leads(n, d, <<w1>> \o <<w2>>, B, full, e)
    BY <2>12, <2>13, LeadsJoin
  <2>16. <<w1>> \o <<w2>> \in Seq(Op) /\ Plain(<<w1>> \o <<w2>>)
    BY <2>13, PlainJoin
  <2> QED
    BY <2>4, <2>9, <2>14, <2>15, <2>16 DEF B
<1> QED
  BY <1>6, <1>7

LEMMA UnlinkRight ==
  ASSUME NEW m, NEW d, NEW full, Settled(m, d, full), NEW nm, NEW s,
         s = Find(m.fat, d, nm), s # <<0, 0>>, NEW k,
         k = CHOOSE j \in DOMAIN Slots(m.fat, Root) : Slots(m.fat, Root)[j] = s
  PROVE  LET n == FreeChain(m, At(d, s).first)
             from == IF nm \in Long THEN Slots(m.fat, Root)[k - 1] ELSE s
         IN Called(n, d, Deletes(from, s) \o Flush(n.dirty), {s}, full)
<1> DEFINE f == m.fat
           slots == Slots(f, Root)
           p == ChainSeq(f, Root)
           F == Firsts(d)
           n == FreeChain(m, At(d, s).first)
           from == IF nm \in Long THEN slots[k - 1] ELSE s
           B == {s}
<1>1. p \in Seq(Cluster) /\ Path(f, Root, p) /\ Rng(p) = Chain(f, Root) /\ IsSlots(slots, f, p)
  BY SettledRoot
<1>2. d \in Disk /\ d.ent \in Contents /\ m \in Mem /\ Consistent(f, d)
  BY DEF Settled, Disk
<1> HIDE DEF p
<1>3. Found(f, d, nm, s, k)
  <2>1. slots \in Seq(Place)
    BY <1>1 DEF IsSlots
  <2>2. PICK j : Found(f, d, nm, s, j)
    BY <2>1, FindRight
  <2>3. DOMAIN slots = 1 .. Len(slots)
    BY <2>1
  <2>4. j \in DOMAIN slots /\ slots[j] = s
    BY <2>2, <2>3 DEF Found
  <2>5. k \in DOMAIN slots /\ slots[k] = s
    BY <2>4
  <2>6. j = k
    BY <1>1, <2>3, <2>4, <2>5 DEF IsSlots
  <2> QED
    BY <2>2, <2>6
<1>4. s \in Place /\ s \in Live(d) /\ At(d, s).kind = "entry" /\ At(d, s).name = nm
  BY <1>3 DEF Found, Live
<1>5. from \in Place /\ (from = s \/ (s = After(from) /\ At(d, from) = Lfn(nm)))
  <2>1. CASE nm \in Long
    <3> DEFINE t == slots[k - 1]
    <3>1. t \in Place /\ s = After(t) /\ At(d, t) = Lfn(nm)
      BY <1>1, <1>2, <1>3, <2>1, NextDoor DEF Found
    <3> HIDE DEF t
    <3> QED
      BY <2>1, <3>1 DEF t
  <2>2. CASE nm \notin Long
    BY <1>4, <2>2
  <2> QED
    BY <2>1, <2>2
<1> HIDE DEF from, slots
<1>6. /\ Tabled(d.fat1, Firsts(d)) /\ (full \/ Sized(d.fat1, d))
      /\ Lfn(nm).kind # "entry"
  BY DEF Settled, Consistent, Lfn
<1> DEFINE q == Deletes(from, s)
<1>7. q \in Seq(Op) /\ Plain(q)
  BY <1>2, <1>4, <1>5, <1>6, DeletesRight
<1>8. PICK e : Leads(n, d, q, B, full, e) /\ Erased(d, from, s, e)
  <2> HIDE DEF n, f, F
  <2>1. \E e : Leads(n, d, Deletes(from, s), {s}, full, e) /\ Erased(d, from, s, e)
    BY <1>2, <1>4, <1>5, <1>6, DeletesRight
  <2> QED
    BY <2>1
<1> HIDE DEF q
<1>9. /\ e \in Disk /\ e.fat1 = d.fat1 /\ e.fat2 = d.fat2 /\ e.ent \in Contents
      /\ \A t \in Place : At(e, t) = At(d, t) \/ At(e, t) = DEL
      /\ \A t \in Place \ {from, s} : At(e, t) = At(d, t)
      /\ At(e, s) = DEL
  BY <1>4, <1>5, <1>8 DEF Erased, Entries, Disk
<1>10. DEL.kind # "entry" /\ Lfn(nm).kind # "entry"
  BY DEF DEL, Lfn
<1>11. Live(e) = Live(d) \ {s} /\ \A t \in Live(e) : At(e, t) = At(d, t)
  <2>1. \A t \in Live(d) : t \in Place /\ (t = from => t = s)
    BY <1>5, <1>10 DEF Live
  <2> QED
    BY <1>4, <1>9, <1>10, <2>1 DEF Live
<1>12. /\ DOMAIN F = Live(d) \cup {<<0, 0>>} /\ F[<<0, 0>>] = Root /\ <<0, 0>> \notin Live(d)
       /\ \A t \in Live(d) : F[t] = At(d, t).first
  BY <1>2, FirstsRight
<1>13. /\ DOMAIN Firsts(e) = Live(e) \cup {<<0, 0>>} /\ Firsts(e)[<<0, 0>>] = Root
       /\ \A t \in Live(e) : Firsts(e)[t] = At(e, t).first
  BY <1>9, FirstsRight
<1>14. Holds(m, F) /\ Tabled(f, F) /\ (full \/ Sized(f, d)) /\ d.fat1 = f /\ d.fat2 = f
  BY DEF Settled, Consistent, Holds
<1>15. /\ Holds(n, [F EXCEPT ![s] = 0]) /\ Kept(f, n.fat, F, s) /\ (n = m \/ n.dirty = TRUE)
  <2>1. PICK P : LaidOut(f, F, P)
    BY <1>14, TabledLaid
  <2>2. s \in DOMAIN F /\ F[s] = At(d, s).first
    BY <1>4, <1>12
  <2>3. /\ Holds(FreeChain(m, F[s]), [F EXCEPT ![s] = 0])
        /\ Kept(m.fat, FreeChain(m, F[s]).fat, F, s)
        /\ FreeChain(m, F[s]) = m \/ FreeChain(m, F[s]).dirty = TRUE
    <3> HIDE DEF F
    <3> QED
      BY <1>14, <2>1, <2>2, FreeRight
  <2> QED
    BY <2>2, <2>3
<1> HIDE DEF n
<1>16. Tabled(n.fat, Firsts(e))
  <2> DEFINE G == [F EXCEPT ![s] = 0]
             H == Firsts(e)
  <2>1. Tabled(n.fat, G)
    BY <1>15 DEF Holds
  <2>2. DOMAIN G = DOMAIN F /\ DOMAIN H = DOMAIN F \ {s} /\ s \in DOMAIN F /\ G[s] = 0
    BY <1>4, <1>11, <1>12, <1>13
  <2>3. \A o \in DOMAIN H : H[o] = G[o]
    BY <1>11, <1>12, <1>13, <2>2
  <2> HIDE DEF G, H, F
  <2>4. Tabled(n.fat, H)
    BY <2>1, <2>2, <2>3, SameOwners
  <2> QED
    BY <2>4 DEF H
<1>17. /\ Chain(n.fat, Root) = Chain(f, Root)
       /\ \A c \in Chain(f, Root) : n.fat[c] = f[c]
       /\ \A t \in Live(d) \ {s} : ChainOf(n.fat, d, t) = ChainOf(f, d, t)
  BY <1>2, <1>4, <1>15, KeptFacts
<1>18. Consistent(n.fat, e)
  <2>1. Fewer(d, e)
    BY <1>9 DEF Fewer
  <2> QED
    BY <1>2, <1>16, <1>17, <2>1, ConsistentKept
<1>19. full \/ Sized(n.fat, e)
  <2> SUFFICES ASSUME ~full, NEW t \in Live(e)
               PROVE  At(e, t).size <= Cardinality(ChainOf(n.fat, e, t))
    BY DEF Sized
  <2>1. At(e, t) = At(d, t) /\ t \in Live(d) \ {s}
    BY <1>11
  <2>2. ChainOf(n.fat, e, t) = ChainOf(f, d, t)
    BY <1>17, <2>1 DEF ChainOf
  <2>3. At(d, t).size <= Cardinality(ChainOf(f, d, t))
    BY <1>14, <2>1 DEF Sized
  <2> QED
    BY <2>1, <2>2, <2>3
<1>21. Steady(f, n.fat, e, B)
  <2>1. Alongside(f, d, e, B)
    BY <1>9, <1>11, <1>14 DEF Alongside
  <2>2. ASSUME NEW t \in Live(e) \ B, NEW c \in ChainOf(f, e, t) PROVE n.fat[c] = f[c]
    <3>1. t \in DOMAIN F \ {s} /\ F[t] = At(d, t).first /\ At(e, t) = At(d, t)
      BY <1>11, <1>12
    <3>2. c \in Chain(f, F[t])
      BY <3>1 DEF ChainOf
    <3> QED
      BY <1>15, <3>1, <3>2 DEF Kept
  <2> HIDE DEF f, B
  <2> QED
    BY <1>2, <1>14, <2>1, <2>2 DEF Steady
<1>22. n \in Mem /\ Counted(n)
  BY <1>15 DEF Holds
<1>23. Flushable(n, e, full)
  <2>1. ~n.dirty => e.fat1 = n.fat /\ e.fat2 = n.fat
    BY <1>9, <1>14, <1>15
  <2> QED
    BY <1>9, <1>18, <1>19, <1>22, <2>1 DEF Flushable
<1>27. Called(n, d, q \o Flush(n.dirty) \o <<>>, B, full)
  BY <1>7, <1>8, <1>9, <1>14, <1>21, <1>23, FlushCall DEF Closing
<1>28. q \o Flush(n.dirty) \o <<>> = q \o Flush(n.dirty)
  <2>1. q \o Flush(n.dirty) \in Seq(Op)
    BY <1>7, FlushType
  <2> QED
    BY <2>1
<1> QED
  BY <1>27, <1>28 DEF q, n, from, slots

LEMMA SettledFirsts ==
  ASSUME NEW m, NEW d, NEW full, Settled(m, d, full)
  PROVE  /\ Holds(m, Firsts(d)) /\ IsFunction(Firsts(d))
         /\ DOMAIN Firsts(d) = Live(d) \cup {<<0, 0>>} /\ Firsts(d)[<<0, 0>>] = Root
         /\ <<0, 0>> \notin Live(d) /\ \A t \in Live(d) : Firsts(d)[t] = At(d, t).first
<1>1. Holds(m, Firsts(d))
  BY DEF Settled, Consistent, Holds
<1>2. d.ent \in Contents
  BY DEF Settled, Disk
<1> QED
  BY <1>1, <1>2, FirstsRight

Fits(n, first, size, full) == full \/ size <= Cardinality(Chain(n.fat, first))

LEMMA GrownSaved ==
  ASSUME NEW m, NEW d, NEW full, Settled(m, d, full), NEW s \in Live(d), NEW size, NEW more,
         NEW k, NEW g, g = Grown(m, At(d, s).first, k), Fits(g.m, g.first, size, more)
  PROVE  Saved(m, g.m, d, s, g.first, size, more) /\ g.first \in First
<1> DEFINE F == Firsts(d)
<1>1. Holds(m, F) /\ IsFunction(F) /\ s \in DOMAIN F /\ F[s] = At(d, s).first
  BY SettledFirsts
<1>2. F[s] \in First
  <2> HIDE DEF F
  <2> QED
    BY <1>1, FirstRight DEF Holds, First
<1>3. Grew(m, F, s, g.m, g.first)
  <2> HIDE DEF F
  <2> QED
    BY <1>1, GrownRight
<1> HIDE DEF F
<1>4. /\ F[s] # 0 => g.first = F[s]
      /\ F[s] = 0 => g.first = 0 \/ (g.first \in Cluster /\ m.fat[g.first] = FREE)
      /\ g.m = m \/ g.m.dirty = TRUE
      /\ Holds(g.m, [F EXCEPT ![s] = g.first]) /\ Kept(m.fat, g.m.fat, F, s)
  BY <1>3 DEF Grew
<1>5. g.first \in First
  BY <1>2, <1>4 DEF First
<1>6. Saved(m, g.m, d, s, g.first, size, more)
  BY <1>1, <1>4 DEF Saved, Fits, F
<1> QED
  BY <1>5, <1>6

LEMMA SameSaved ==
  ASSUME NEW m, NEW d, NEW full, Settled(m, d, full), NEW s \in Live(d), NEW size, NEW more,
         NEW n, Holds(n, Firsts(d)), Kept(m.fat, n.fat, Firsts(d), s), n = m \/ n.dirty = TRUE,
         Fits(n, At(d, s).first, size, more)
  PROVE  Saved(m, n, d, s, At(d, s).first, size, more)
<1> DEFINE F == Firsts(d)
<1>1. IsFunction(F) /\ s \in DOMAIN F /\ F[s] = At(d, s).first
  BY SettledFirsts
<1> HIDE DEF F
<1>2. [F EXCEPT ![s] = F[s]] = F
  BY <1>1 DEF IsFunction
<1>3. Holds(n, [F EXCEPT ![s] = At(d, s).first])
  BY <1>1, <1>2 DEF F
<1> QED
  BY <1>3 DEF Saved, Fits, F

LEMMA CutSaved ==
  ASSUME NEW m, NEW d, NEW full, Settled(m, d, full), NEW s \in Live(d),
         NEW size \in Nat \ {0}, NEW more,
         NEW n, n = Cut(m, At(d, s).first, size), Fits(n, At(d, s).first, size, more)
  PROVE  Saved(m, n, d, s, At(d, s).first, size, more)
<1> DEFINE F == Firsts(d)
<1>1. Holds(m, F) /\ s \in DOMAIN F /\ F[s] = At(d, s).first
  BY SettledFirsts
<1> HIDE DEF F
<1>2. PICK P : LaidOut(m.fat, F, P)
  BY <1>1, TabledLaid DEF Holds
<1>3. n = Cut(m, F[s], size)
  BY <1>1
<1>4. Holds(n, F) /\ Kept(m.fat, n.fat, F, s) /\ (n = m \/ n.dirty = TRUE)
  BY <1>1, <1>2, <1>3, CutRight
<1> QED
  BY <1>4, SameSaved DEF F

LEMMA FreeSaved ==
  ASSUME NEW m, NEW d, NEW full, Settled(m, d, full), NEW s \in Live(d), NEW more,
         NEW n, n = FreeChain(m, At(d, s).first)
  PROVE  Saved(m, n, d, s, 0, 0, more)
<1> DEFINE F == Firsts(d)
<1>1. Holds(m, F) /\ s \in DOMAIN F /\ F[s] = At(d, s).first
  BY SettledFirsts
<1> HIDE DEF F
<1>2. PICK P : LaidOut(m.fat, F, P)
  BY <1>1, TabledLaid DEF Holds
<1>3. n = FreeChain(m, F[s])
  BY <1>1
<1>4. Holds(n, [F EXCEPT ![s] = 0]) /\ Kept(m.fat, n.fat, F, s) /\ (n = m \/ n.dirty = TRUE)
  <2>1. /\ Holds(FreeChain(m, F[s]), [F EXCEPT ![s] = 0])
        /\ Kept(m.fat, FreeChain(m, F[s]).fat, F, s)
        /\ FreeChain(m, F[s]) = m \/ FreeChain(m, F[s]).dirty = TRUE
    BY <1>1, <1>2, FreeRight
  <2> QED
    BY <1>3, <2>1
<1>5. 0 <= Cardinality(Chain(n.fat, 0))
  BY ChainType
<1> QED
  BY <1>4, <1>5 DEF Saved, F

LEMMA MoreSettled ==
  ASSUME NEW m, NEW d, NEW full, Settled(m, d, full), NEW more, full => more
  PROVE  Settled(m, d, more)
  BY DEF Settled

\* A node that agrees with its entry writes back what is there.
LEMMA WriteBackRight ==
  ASSUME NEW m, NEW d, NEW full, Settled(m, d, full), NEW s \in Live(d)
  PROVE  Called(m, d, <<Update(s, At(d, s).first, At(d, s).size)>> \o Flush(m.dirty), {s}, full)
<1>1. Holds(m, Firsts(d)) /\ d.ent \in Contents
  BY SettledFirsts DEF Settled, Disk
<1>2. Kept(m.fat, m.fat, Firsts(d), s)
  BY DEF Kept
<1>3. Fits(m, At(d, s).first, At(d, s).size, full)
  BY DEF Fits, Settled, Sized, ChainOf
<1>4. Saved(m, m, d, s, At(d, s).first, At(d, s).size, full)
  BY <1>1, <1>2, <1>3, SameSaved
<1>5. At(d, s).first \in First /\ At(d, s).size \in 0 .. MaxSize
  BY <1>1, EntryFields
<1> DEFINE first == At(d, s).first
           size == At(d, s).size
<1>6. first \in First /\ size \in 0 .. MaxSize /\ Saved(m, m, d, s, first, size, full)
  BY <1>4, <1>5
<1> HIDE DEF first, size
<1>7. Called(m, d, <<Update(s, first, size)>> \o Flush(m.dirty), {s}, full)
  BY <1>6, SaveRight
<1> QED
  BY <1>7 DEF first, size

LEMMA UmountRight ==
  ASSUME NEW m, NEW d, NEW full, Settled(m, d, full)
  PROVE  Called(m, d, Flush(m.dirty) \o <<[op |-> "mount"]>>, {}, full)
<1>1. Flushable(m, d, full) /\ d \in Disk /\ m \in Mem
  BY DEF Settled, Flushable
<1>2. Contained(d, {}, full)
  BY SettledContained
<1>3. Leads(m, d, <<>>, {}, full, d)
  BY <1>1, <1>2, LeadsNil
<1> DEFINE B == {}
<1>9. Steady(d.fat1, m.fat, d, B)
  <2>1. d.fat1 = m.fat /\ d.ent \in Contents /\ Tabled(d.fat1, Firsts(d))
    BY DEF Settled, Consistent, Disk
  <2>2. Alongside(d.fat1, d, d, B)
    BY DEF Alongside
  <2> QED
    BY <2>1, <2>2 DEF Steady
<1> DEFINE q == <<[op |-> "mount"]>>
           g == Flush(m.dirty)
<1>4. Closing(q)
  BY DEF Closing
<1> HIDE DEF q
<1>5. Plain(<<>>) /\ <<>> \in Seq(Op)
  BY DEF Plain
<1>6. Called(m, d, <<>> \o Flush(m.dirty) \o q, {}, full)
  BY <1>1, <1>3, <1>4, <1>5, <1>9, FlushCall
<1>7. <<>> \o g = g
  <2>1. g \in Seq(Op)
    BY FlushType
  <2> HIDE DEF g
  <2> QED
    BY <2>1
<1>8. <<>> \o g \o q = g \o q
  BY <1>7
<1> QED
  BY <1>6, <1>8 DEF q, g

-----------------------------------------------------------------------------
(* Creating a name                                                         *)

Base(f, d, full) ==
  d \in Disk /\ d.fat1 = f /\ Consistent(f, d) /\ (full \/ Sized(f, d))

\* e differs from d only where f is free, and has no entry there.
Apart(f, d, e) ==
  /\ e \in Disk /\ e.fat1 = d.fat1 /\ e.fat2 = d.fat2 /\ e.info = d.info
  /\ \A t \in Place : IF f[t[1]] = FREE THEN At(e, t).kind # "entry" ELSE At(e, t) = At(d, t)

LEMMA BaseRight ==
  ASSUME NEW f, NEW d, NEW full, Base(f, d, full)
  PROVE  /\ \A t \in Live(d) : t \in Place /\ f[t[1]] # FREE
         /\ Apart(f, d, d)
         /\ \A c \in Chain(f, Root) : f[c] # FREE /\ (f[c] \in Cluster => f[c] \in Chain(f, Root))
<1> DEFINE F == Firsts(d)
           o == <<0, 0>>
<1>1. Tabled(f, F) /\ o \in DOMAIN F /\ F[o] = Root
  BY FirstsRight DEF Base, Consistent, Disk
<1>2. \A c \in Chain(f, F[o]) : c \in Cluster /\ f[c] # FREE
  <2> HIDE DEF F, o
  <2> QED
    BY <1>1 DEF Tabled
<1>3. Path(f, Root, ChainSeq(f, Root))
  BY <1>1 DEF Tabled
<1>4. \A c \in Chain(f, Root) : f[c] # FREE
  BY <1>1, <1>2
<1>5. ASSUME NEW c \in Chain(f, Root), f[c] \in Cluster PROVE f[c] \in Chain(f, Root)
  <2> DEFINE p == ChainSeq(f, Root)
  <2>1. p \in Seq(Cluster) /\ Rng(p) = Chain(f, Root) /\ Path(f, Root, p)
    BY <1>3, PathExists
  <2> HIDE DEF p
  <2>2. PICK i \in 1 .. Len(p) : c = p[i]
    BY <2>1 DEF Rng
  <2>3. i < Len(p) /\ f[c] = p[i + 1]
    BY <1>5, <2>1, <2>2, ClusterRight DEF Path
  <2>4. i + 1 \in 1 .. Len(p)
    BY <2>1, <2>3
  <2> QED
    BY <2>1, <2>3, <2>4 DEF Rng
<1>6. ASSUME NEW t \in Live(d) PROVE t \in Place /\ f[t[1]] # FREE
  <2>1. t[1] \in Chain(f, Root)
    BY DEF Base, Consistent
  <2> QED
    BY <1>4, <2>1 DEF Live
<1>7. Apart(f, d, d)
  BY <1>6 DEF Apart, Base, Live
<1> QED
  BY <1>4, <1>5, <1>6, <1>7

LEMMA ApartRight ==
  ASSUME NEW f, NEW d, NEW full, Base(f, d, full), NEW e, Apart(f, d, e)
  PROVE  /\ Live(e) = Live(d) /\ \A t \in Live(d) : At(e, t) = At(d, t)
         /\ \A B : Contained(e, B, full)
         /\ Base(f, e, full)
<1>1. /\ \A t \in Live(d) : t \in Place /\ f[t[1]] # FREE
      /\ \A c \in Chain(f, Root) : f[c] # FREE /\ (f[c] \in Cluster => f[c] \in Chain(f, Root))
  BY BaseRight
<1>2. Live(e) = Live(d) /\ \A t \in Live(d) : At(e, t) = At(d, t)
  BY <1>1 DEF Live, Apart
<1>3. e \in Disk /\ e.fat1 = f /\ d.ent \in Contents /\ e.ent \in Contents
  BY DEF Apart, Base, Disk
<1>4. ASSUME NEW B PROVE Contained(e, B, full)
  <2>1. Tabled(f, Firsts(d)) /\ (full \/ Sized(f, d))
    BY DEF Base, Consistent
  <2>2. Alongside(f, d, e, B)
    BY <1>2, <1>3 DEF Alongside
  <2> QED
    BY <1>3, <2>1, <2>2, ContainedAlongside
<1>5. Firsts(e) = Firsts(d)
  BY <1>2 DEF Firsts
<1>6. Consistent(f, d)
  BY DEF Base
<1>7. ASSUME NEW c \in Chain(f, Root), NEW nm \in Long,
             f[c] \in Cluster, At(e, <<c, EPC>>) = Lfn(nm),
             At(e, <<f[c], 1>>).kind = "entry", At(e, <<f[c], 1>>).name = nm
      PROVE  f[c] = c + 1
  <2>1. c \in Cluster /\ <<c, EPC>> \in Place /\ <<f[c], 1>> \in Place
    BY <1>7, ChainType, PlaceRight
  <2>2. f[c] # FREE /\ f[f[c]] # FREE
    BY <1>1, <1>7
  <2>3. At(e, <<c, EPC>>) = At(d, <<c, EPC>>) /\ At(e, <<f[c], 1>>) = At(d, <<f[c], 1>>)
    <3>1. <<c, EPC>>[1] = c /\ <<f[c], 1>>[1] = f[c]
      OBVIOUS
    <3> QED
      BY <2>1, <2>2, <3>1 DEF Apart
  <2> QED
    BY <1>6, <1>7, <2>3 DEF Consistent
<1>8. Consistent(f, e)
  BY <1>2, <1>5, <1>6, <1>7 DEF Consistent
<1>9. full \/ Sized(f, e)
  <2>1. full \/ Sized(f, d)
    BY DEF Base
  <2> QED
    BY <1>2, <2>1 DEF Sized, ChainOf
<1>10. Base(f, e, full)
  BY <1>3, <1>8, <1>9 DEF Base
<1> QED
  BY <1>2, <1>4, <1>10

\* Writes that leave the entries of d alone, whatever the memory is.
Quiet(f, d, full, t) ==
  /\ t \in Seq(Op) /\ Plain(t)
  /\ \A n, B, e : Apart(f, d, e) => \E x : Leads(n, e, t, B, full, x) /\ Apart(f, d, x)

LEMMA QuietNone ==
  ASSUME NEW f, NEW d, NEW full, Base(f, d, full)
  PROVE  Quiet(f, d, full, <<>>)
<1>1. ASSUME NEW n, NEW B, NEW e, Apart(f, d, e)
      PROVE  Leads(n, e, <<>>, B, full, e)
  <2>1. e \in Disk /\ Contained(e, B, full)
    BY <1>1, ApartRight DEF Apart
  <2> QED
    BY <2>1, LeadsNil
<1>2. <<>> \in Seq(Op) /\ Plain(<<>>)
  BY DEF Plain
<1> QED
  BY <1>1, <1>2 DEF Quiet

LEMMA QuietJoin ==
  ASSUME NEW f, NEW d, NEW full, NEW p, NEW q, Quiet(f, d, full, p), Quiet(f, d, full, q)
  PROVE  Quiet(f, d, full, p \o q)
<1>1. p \in Seq(Op) /\ q \in Seq(Op) /\ p \o q \in Seq(Op) /\ Plain(p \o q)
  BY PlainJoin DEF Quiet
<1>2. ASSUME NEW n, NEW B, NEW e, Apart(f, d, e)
      PROVE  \E x : Leads(n, e, p \o q, B, full, x) /\ Apart(f, d, x)
  <2>1. PICK x : Leads(n, e, p, B, full, x) /\ Apart(f, d, x)
    BY <1>2 DEF Quiet
  <2>2. PICK y : Leads(n, x, q, B, full, y) /\ Apart(f, d, y)
    BY <2>1 DEF Quiet
  <2>3. Leads(n, e, p \o q, B, full, y)
    BY <1>1, <2>1, <2>2, LeadsJoin
  <2> QED
    BY <2>2, <2>3
<1> QED
  BY <1>1, <1>2 DEF Quiet

LEMMA QuietOne ==
  ASSUME NEW f, NEW d, NEW full, Base(f, d, full), NEW w \in Op,
         w.op \notin {"fat1", "fat2", "mount"},
         \A n, e : Apart(f, d, e) => Apart(f, d, Written(n, e, w))
  PROVE  Quiet(f, d, full, <<w>>)
<1>1. <<w>> \in Seq(Op) /\ Plain(<<w>>)
  BY PlainOne
<1>2. ASSUME NEW n, NEW B, NEW e, Apart(f, d, e)
      PROVE  \E x : Leads(n, e, <<w>>, B, full, x) /\ Apart(f, d, x)
  <2> DEFINE x == Written(n, e, w)
  <2>1. Apart(f, d, x) /\ x = Written(n, e, w)
    BY <1>2
  <2> HIDE DEF x
  <2>2. e \in Disk /\ x \in Disk /\ Contained(e, B, full) /\ Contained(x, B, full)
    BY <1>2, <2>1, ApartRight DEF Apart
  <2>3. Leads(n, e, <<w>>, B, full, x)
    BY <2>1, <2>2, LeadsOne
  <2> QED
    BY <2>1, <2>3
<1> QED
  BY <1>1, <1>2 DEF Quiet

LEMMA QuietZero ==
  ASSUME NEW f, NEW d, NEW full, Base(f, d, full), NEW c \in Cluster, f[c] = FREE
  PROVE  Quiet(f, d, full, <<Zero(c)>>)
<1>1. Zero(c) \in Op /\ Zero(c).op \notin {"fat1", "fat2", "mount"}
  BY DEF Zero, Op
<1>2. ASSUME NEW n, NEW e, Apart(f, d, e)
      PROVE  Apart(f, d, Written(n, e, Zero(c)))
  <2> DEFINE x == Written(n, e, Zero(c))
  <2>1. e \in Disk
    BY <1>2 DEF Apart
  <2>2. Entries(e, x) /\ \A t \in Place : At(x, t) = IF t[1] = c THEN END ELSE At(e, t)
    BY <2>1, WrittenZero
  <2>3. END.kind # "entry"
    BY DEF END
  <2> HIDE DEF x
  <2>4. Apart(f, d, x)
    BY <1>2, <2>2, <2>3 DEF Apart, Entries
  <2> QED
    BY <2>4 DEF x
<1> QED
  BY <1>1, <1>2, QuietOne

LEMMA QuietDot ==
  ASSUME NEW f, NEW d, NEW full, Base(f, d, full), NEW c \in Cluster, f[c] = FREE
  PROVE  Quiet(f, d, full, <<Put(<<c, 1>>, Dot, 0)>>)
<1> DEFINE s == <<c, 1>>
           w == Put(s, Dot, 0)
<1>1. s \in Place /\ Dot \in Content /\ 0 \in First /\ s[1] = c
  BY PlaceRight DEF Content, First
<1> HIDE DEF s
<1>2. w \in Op /\ w.op \notin {"fat1", "fat2", "mount"}
  BY <1>1 DEF Put, Op
<1>3. ASSUME NEW n, NEW e, Apart(f, d, e)
      PROVE  Apart(f, d, Written(n, e, w))
  <2> DEFINE x == Written(n, e, w)
  <2>1. e \in Disk
    BY <1>3 DEF Apart
  <2>2. PutAt(e, x, s, Dot)
    BY <1>1, <2>1, WrittenPut
  <2>3. Dot.kind # "entry"
    BY DEF Dot
  <2> HIDE DEF x
  <2>4. Apart(f, d, x)
    BY <1>1, <1>3, <2>2, <2>3 DEF Apart, PutAt, Entries
  <2> QED
    BY <2>4 DEF x
<1> HIDE DEF w
<1>4. Quiet(f, d, full, <<w>>)
  BY <1>2, <1>3, QuietOne
<1> QED
  BY <1>4 DEF w, s

\* The owners of chains in d and one more, o, which has none yet.
Extra(d, o) == [s \in DOMAIN Firsts(d) \cup {o} |-> IF s = o THEN 0 ELSE Firsts(d)[s]]

IsExtra(m, d, o, G) ==
  /\ Holds(m, G) /\ IsFunction(G) /\ o \in DOMAIN G
  /\ G[o] = 0 /\ DOMAIN G = DOMAIN Firsts(d) \cup {o}
  /\ \A s \in DOMAIN Firsts(d) : G[s] = Firsts(d)[s]
  /\ Grew(m, G, o, m, 0)

LEMMA ExtraRight ==
  ASSUME NEW m, NEW d, NEW full, Settled(m, d, full), NEW o, o \notin DOMAIN Firsts(d)
  PROVE  IsExtra(m, d, o, Extra(d, o)) /\ Base(m.fat, d, full)
<1> DEFINE F == Firsts(d)
           G == Extra(d, o)
<1>1. Holds(m, F) /\ o \notin DOMAIN F
  BY SettledFirsts
<1>2. /\ IsFunction(G) /\ o \in DOMAIN G /\ G[o] = 0 /\ DOMAIN G = DOMAIN F \cup {o}
      /\ \A s \in DOMAIN F : G[s] = F[s]
  BY <1>1 DEF Extra, IsFunction
<1>3. Base(m.fat, d, full)
  BY DEF Base, Settled
<1> HIDE DEF F, G
<1>4. Tabled(m.fat, G)
  <2>1. Tabled(m.fat, F)
    BY <1>1 DEF Holds
  <2> QED
    BY <1>1, <1>2, <2>1, SameOwners
<1>5. Holds(m, G)
  BY <1>1, <1>4 DEF Holds
<1>6. [G EXCEPT ![o] = 0] = G
  BY <1>2 DEF IsFunction
<1>7. Kept(m.fat, m.fat, G, o)
  BY DEF Kept
<1>8. Grew(m, G, o, m, 0)
  BY <1>2, <1>5, <1>6, <1>7 DEF Grew
<1> QED
  BY <1>2, <1>3, <1>5, <1>8 DEF F, G, IsExtra

\* What a new owner has got was free.
LEMMA NewFree ==
  ASSUME NEW m, NEW F, NEW o \in DOMAIN F, F[o] = 0, Holds(m, F), IsFunction(F),
         NEW n, NEW first, Grew(m, F, o, n, first)
  PROVE  /\ \A c \in Chain(n.fat, first) : c \in Cluster /\ m.fat[c] = FREE
         /\ ChainSeq(n.fat, first) \in Seq(Cluster)
         /\ Rng(ChainSeq(n.fat, first)) = Chain(n.fat, first)
<1> DEFINE G == [F EXCEPT ![o] = first]
<1>1. Tabled(m.fat, F) /\ Tabled(n.fat, G) /\ Kept(m.fat, n.fat, F, o)
  BY DEF Grew, Holds
<1>2. DOMAIN G = DOMAIN F /\ G[o] = first /\ \A q \in DOMAIN F \ {o} : G[q] = F[q]
  BY DEF IsFunction
<1> HIDE DEF G
<1>3. Chain(m.fat, F[o]) = {}
  <2>1. Path(m.fat, F[o], ChainSeq(m.fat, F[o]))
    BY <1>1 DEF Tabled
  <2> DEFINE p == ChainSeq(m.fat, F[o])
  <2>2. p \in Seq(Cluster) /\ Rng(p) = Chain(m.fat, F[o]) /\ Path(m.fat, F[o], p)
    BY <2>1, PathExists
  <2> HIDE DEF p
  <2>3. p = <<>>
    BY <2>2, ClusterRight DEF Path
  <2> QED
    BY <2>2, <2>3 DEF Rng
<1>4. ASSUME NEW c \in Chain(n.fat, first), m.fat[c] # FREE
      PROVE  FALSE
  <2>1. c \in Cluster
    BY ChainType
  <2>2. PICK q \in DOMAIN F : c \in Chain(m.fat, F[q])
    BY <1>1, <1>4, <2>1 DEF Tabled
  <2>3. q # o
    BY <1>3, <2>2
  <2>4. c \in Chain(n.fat, G[q])
    BY <1>1, <1>2, <2>2, <2>3 DEF Kept
  <2> QED
    BY <1>1, <1>2, <1>4, <2>3, <2>4 DEF Tabled
<1>5. Path(n.fat, first, ChainSeq(n.fat, first))
  BY <1>1, <1>2 DEF Tabled
<1> QED
  BY <1>4, <1>5, PathExists, ChainType

Made(m, d, o, n, first, t, full) ==
  Grew(m, Extra(d, o), o, n, first) /\ Quiet(m.fat, d, full, t)

LEMMA MadeFile ==
  ASSUME NEW m, NEW d, NEW full, Settled(m, d, full), NEW o, o \notin DOMAIN Firsts(d)
  PROVE  Made(m, d, o, m, 0, <<>>, full)
BY ExtraRight, QuietNone DEF Made, IsExtra

LEMMA DotOps ==
  ASSUME NEW c \in Cluster
  PROVE  /\ Zero(c) \in Op /\ Zero(c).op = "zero"
         /\ Put(<<c, 1>>, Dot, 0) \in Op /\ Put(<<c, 1>>, Dot, 0).op = "put"
<1>1. <<c, 1>> \in Place /\ Dot \in Content /\ 0 \in First
  BY PlaceRight DEF Content, First
<1> QED
  BY <1>1 DEF Zero, Put, Op

\* "." or "..": a cluster more for the new directory, with the entry in it.
LEMMA DottedRight ==
  ASSUME NEW m, NEW d, NEW full, Base(m.fat, d, full), NEW G, IsFunction(G), NEW o \in DOMAIN G,
         NEW n, NEW c \in Cluster, Grew(m, G, o, n, c)
  PROVE  LET a == Dotted(n, c, FALSE) IN
         Grew(m, G, o, a.m, c) /\ Quiet(m.fat, d, full, a.todo)
<1> DEFINE x == NextFree(n)
           z == Zero(x)
           w == Put(<<x, 1>>, Dot, 0)
           a == Dotted(n, c, FALSE)
<1>1. a.m = Extended(n, c).m /\ a.todo = IF NoRoom(n) THEN <<>> ELSE <<z, w>>
  BY DEF Dotted
<1>2. Grew(m, G, o, a.m, c)
  <2>1. Grew(m, G, o, Extended(n, c).m, Extended(n, c).first)
    BY ExtendedGrows
  <2>2. Extended(n, c).first = c
    BY DEF Extended
  <2> QED
    BY <1>1, <2>1, <2>2
<1> HIDE DEF a
<1>3. CASE NoRoom(n)
  BY <1>1, <1>2, <1>3, QuietNone DEF a
<1>4. CASE ~NoRoom(n)
  <2>1. x \in Cluster /\ m.fat[x] = FREE
    <3>1. n \in Mem
      BY DEF Grew, Holds
    <3>2. x \in Cluster /\ n.fat[x] = FREE
      BY <1>4, <3>1, NextFreeRight
    <3> QED
      BY <3>2 DEF Grew
  <2> HIDE DEF x
  <2>2. Quiet(m.fat, d, full, <<z>>) /\ Quiet(m.fat, d, full, <<w>>)
    BY <2>1, QuietZero, QuietDot
  <2>3. <<z>> \o <<w>> = <<z, w>>
    <3>1. z \in Op /\ w \in Op
      BY <2>1, DotOps
    <3> HIDE DEF z, w
    <3> DEFINE r == <<z>> \o <<w>>
    <3>2. r \in Seq(Op) /\ Len(r) = 2 /\ r[1] = z /\ r[2] = w
      BY <3>1
    <3> HIDE DEF r
    <3>3. r = <<r[1], r[2]>>
      BY <3>2
    <3> QED
      BY <3>2, <3>3 DEF r
  <2> HIDE DEF z, w
  <2>4. Quiet(m.fat, d, full, <<z>> \o <<w>>)
    BY <2>2, QuietJoin
  <2> QED
    BY <1>1, <1>2, <1>4, <2>3, <2>4 DEF a
<1> QED
  BY <1>3, <1>4

LEMMA MadeDirRight ==
  ASSUME NEW m, NEW d, NEW full, Settled(m, d, full), NEW o, o \notin DOMAIN Firsts(d),
         ~NoRoom(m)
  PROVE  LET a == MadeDir(m, "none") IN Made(m, d, o, a.m, a.first, a.todo, full)
<1> DEFINE G == Extra(d, o)
           c == NextFree(m)
           d0 == AllocCluster(m)
           d1 == Dotted(d0, c, FALSE)
           d2 == Dotted(d1.m, c, FALSE)
           a == MadeDir(m, "none")
<1>1. a.m = d2.m /\ a.first = c /\ a.todo = <<Zero(c)>> \o d1.todo \o d2.todo
  <2>1. ("none" = ".") = FALSE /\ ("none" = "..") = FALSE
    OBVIOUS
  <2> QED
    BY <2>1 DEF MadeDir
<1> HIDE DEF a
<1>2. /\ Holds(m, G) /\ IsFunction(G) /\ o \in DOMAIN G /\ G[o] = 0
      /\ Base(m.fat, d, full) /\ Grew(m, G, o, m, 0)
  <2>1. IsExtra(m, d, o, G) /\ Base(m.fat, d, full)
    BY ExtraRight
  <2> HIDE DEF G
  <2> QED
    BY <2>1 DEF IsExtra
<1>3. c \in Cluster /\ m.fat[c] = FREE
  <2>1. m \in Mem
    BY DEF Settled
  <2> QED
    BY <2>1, NextFreeRight
<1>4. Extended(m, 0) = [m |-> d0, first |-> c]
  BY ClusterRight DEF Extended
<1> HIDE DEF G
<1>5. Grew(m, G, o, d0, c)
  <2>1. Grew(m, G, o, Extended(m, 0).m, Extended(m, 0).first)
    BY <1>2, ExtendedGrows
  <2> QED
    BY <1>4, <2>1
<1> HIDE DEF c, d0
<1>6. Grew(m, G, o, d1.m, c) /\ Quiet(m.fat, d, full, d1.todo)
  BY <1>2, <1>3, <1>5, DottedRight
<1> HIDE DEF d1
<1> DEFINE n == d1.m
<1>7. Grew(m, G, o, d2.m, c) /\ Quiet(m.fat, d, full, d2.todo)
  <2>1. Grew(m, G, o, n, c)
    BY <1>6
  <2> HIDE DEF n
  <2> DEFINE e == Dotted(n, c, FALSE)
  <2>2. Grew(m, G, o, e.m, c) /\ Quiet(m.fat, d, full, e.todo)
    BY <1>2, <1>3, <2>1, DottedRight
  <2>3. e = d2
    BY DEF n
  <2> HIDE DEF e, d2
  <2> QED
    BY <2>2, <2>3
<1> HIDE DEF d2
<1>8. Quiet(m.fat, d, full, <<Zero(c)>>)
  BY <1>2, <1>3, QuietZero
<1>9. Quiet(m.fat, d, full, <<Zero(c)>> \o d1.todo)
  BY <1>6, <1>8, QuietJoin
<1>10. Quiet(m.fat, d, full, <<Zero(c)>> \o d1.todo \o d2.todo)
  BY <1>7, <1>9, QuietJoin
<1> QED
  BY <1>1, <1>7, <1>10 DEF Made, G, a

\* x is y with the name nm written at to, and before it at from if it is long.
Entered(y, x, from, to, nm, dir, first) ==
  /\ Entries(y, x)
  /\ \A t \in Place : At(x, t) = IF t = to THEN Entry(nm, dir, first, 0)
                                 ELSE IF nm \in Long /\ t = from THEN Lfn(nm) ELSE At(y, t)

LongPut(from, nm, first) ==
  IF nm \in Long THEN <<Put(from, Lfn(nm), first)>> ELSE <<>>
NamePut(to, nm, dir, first) == <<Put(to, Entry(nm, dir, first, 0), first)>>

\* What an entry that is being created may hold: nothing that was in use.
Fresh(f, first) == first = 0 \/ (first \in Cluster /\ f[first] = FREE)

EntryWay(n, y, from, to, nm, dir, first, full) ==
  \E z, x : /\ Leads(n, y, LongPut(from, nm, first), {to}, full, z)
            /\ Leads(n, z, NamePut(to, nm, dir, first), {to}, full, x)
            /\ Entered(y, x, from, to, nm, dir, first)

LEMMA EntryLeads ==
  ASSUME NEW f, NEW d, NEW full, Base(f, d, full), NEW y, Apart(f, d, y), NEW n,
         NEW from \in Place, NEW to \in Place, from \notin Live(d), to \notin Live(d),
         NEW nm \in Name, NEW dir \in BOOLEAN, NEW first, Fresh(f, first)
  PROVE  EntryWay(n, y, from, to, nm, dir, first, full)
<1> DEFINE l == Put(from, Lfn(nm), first)
           e == Entry(nm, dir, first, 0)
           w == Put(to, e, first)
           z == IF nm \in Long THEN Written(n, y, l) ELSE y
           x == Written(n, z, w)
<1>1. /\ d \in Disk /\ d.ent \in Contents /\ y \in Disk /\ y.fat1 = f
      /\ Tabled(f, Firsts(d)) /\ (full \/ Sized(f, d))
  BY DEF Base, Apart, Consistent, Disk
<1>2. /\ Live(y) = Live(d) /\ \A t \in Live(d) : At(y, t) = At(d, t)
      /\ Contained(y, {to}, full)
  BY ApartRight
<1>3. first \in First /\ e \in Content /\ Lfn(nm) \in Content
  <2>1. first \in First
    BY DEF Fresh, First
  <2>2. 0 \in 0 .. MaxSize
    BY VolumeAssumption
  <2> QED
    BY <2>1, <2>2 DEF Content, First
<1>4. e.kind = "entry" /\ e.first = first /\ Lfn(nm).kind # "entry"
  BY EntryRight DEF Lfn
<1>7. l.op \notin {"fat1", "fat2"} /\ w.op \notin {"fat1", "fat2"}
  BY DEF Put
<1> HIDE DEF e
<1>5. CASE nm \in Long
  <2>1. z = Written(n, y, l)
    BY <1>5
  <2>2. PutAt(y, z, from, Lfn(nm))
    BY <1>1, <1>3, <2>1, WrittenPut
  <2> HIDE DEF z
  <2>3. z \in Disk /\ z.fat1 = f
    BY <1>1, <2>2 DEF PutAt, Entries
  <2>4. PutAt(z, x, to, e) /\ x = Written(n, z, w)
    BY <1>3, <2>3, WrittenPut
  <2> HIDE DEF x
  <2>5. x \in Disk /\ x.fat1 = f
    BY <2>3, <2>4 DEF PutAt, Entries
  <2>6. Alongside(f, d, z, {to})
    BY <1>2, <1>4, <2>2, <2>3 DEF Alongside, PutAt, Live
  <2>7. Alongside(f, d, x, {to})
    BY <1>2, <1>4, <2>2, <2>4, <2>5 DEF Alongside, PutAt, Live, Fresh
  <2>8. Contained(z, {to}, full) /\ Contained(x, {to}, full)
    BY <1>1, <2>6, <2>7, ContainedAlongside
  <2>9. Leads(n, y, <<l>>, {to}, full, z) /\ Leads(n, z, <<w>>, {to}, full, x)
    BY <1>1, <1>2, <1>7, <2>1, <2>3, <2>4, <2>5, <2>8, LeadsOne
  <2>10. Entered(y, x, from, to, nm, dir, first)
    BY <1>5, <2>2, <2>4 DEF Entered, PutAt, Entries, e
  <2>11. LongPut(from, nm, first) = <<l>> /\ NamePut(to, nm, dir, first) = <<w>>
    BY <1>5 DEF LongPut, NamePut, e
  <2> QED
    BY <2>9, <2>10, <2>11 DEF EntryWay
<1>6. CASE nm \notin Long
  <2>1. z = y
    BY <1>6
  <2> HIDE DEF z
  <2>4. PutAt(y, x, to, e) /\ x = Written(n, y, w)
    BY <1>1, <1>3, <2>1, WrittenPut
  <2> HIDE DEF x
  <2>5. x \in Disk /\ x.fat1 = f
    BY <1>1, <2>4 DEF PutAt, Entries
  <2>7. Alongside(f, d, x, {to})
    BY <1>2, <1>4, <2>4, <2>5 DEF Alongside, PutAt, Live, Fresh
  <2>8. Contained(x, {to}, full)
    BY <1>1, <2>7, ContainedAlongside
  <2>9. Leads(n, y, <<>>, {to}, full, y) /\ Leads(n, y, <<w>>, {to}, full, x)
    BY <1>1, <1>2, <1>7, <2>4, <2>5, <2>8, LeadsOne, LeadsNil
  <2>10. Entered(y, x, from, to, nm, dir, first)
    BY <1>6, <2>4 DEF Entered, PutAt, Entries, e
  <2>11. LongPut(from, nm, first) = <<>> /\ NamePut(to, nm, dir, first) = <<w>>
    BY <1>6 DEF LongPut, NamePut, e
  <2> QED
    BY <2>9, <2>10, <2>11 DEF EntryWay
<1> QED
  BY <1>5, <1>6

\* Where a new name may stand so that long names stay beside their entries:
\* the root directory of f, with the clusters it has in h.
Beside(f, h, from, to, nm) ==
  /\ Chain(f, Root) \subseteq Chain(h, Root) /\ to[1] \in Chain(h, Root)
  /\ \A c \in Chain(h, Root) :
       h[c] \in Cluster =>
         \/ /\ c \in Chain(f, Root) /\ h[c] = f[c]
            /\ nm \in Long => /\ <<h[c], 1>> = to => h[c] = c + 1
                              /\ <<c, EPC>> = from => <<h[c], 1>> = to
         \/ IF nm \in Long THEN <<h[c], 1>> = from /\ from # to ELSE <<h[c], 1>> = to

LEMMA EnteredConsistent ==
  ASSUME NEW f, NEW d, NEW full, Base(f, d, full), NEW y, Apart(f, d, y), NEW x, NEW h,
         NEW from \in Place, NEW to \in Place, NEW nm \in Name, NEW dir, NEW first,
         Entered(y, x, from, to, nm, dir, first),
         Beside(f, h, from, to, nm), Tabled(h, Firsts(x)), Live(x) = Live(d) \cup {to}
  PROVE  Consistent(h, x)
<1>1. Consistent(f, d)
  BY DEF Base
<1>2. \A s \in Live(x) : s[1] \in Chain(h, Root)
  BY <1>1 DEF Consistent, Beside
<1>3. /\ \A t \in Place : f[t[1]] # FREE => At(y, t) = At(d, t)
      /\ \A c \in Chain(f, Root) : f[c] # FREE /\ (f[c] \in Cluster => f[c] \in Chain(f, Root))
  BY BaseRight DEF Apart
<1>4. ASSUME NEW c \in Chain(h, Root), NEW l \in Long,
             h[c] \in Cluster, At(x, <<c, EPC>>) = Lfn(l),
             At(x, <<h[c], 1>>).kind = "entry", At(x, <<h[c], 1>>).name = l
      PROVE  h[c] = c + 1
  <2> DEFINE a == <<c, EPC>>
             b == <<h[c], 1>>
  <2>1. c \in Cluster /\ a \in Place /\ b \in Place /\ a[1] = c /\ b[1] = h[c]
    BY <1>4, ChainType, PlaceRight
  <2>2. /\ Entry(nm, dir, first, 0).kind = "entry" /\ Entry(nm, dir, first, 0).name = nm
        /\ \A n : Lfn(n).kind # "entry"
    BY EntryRight DEF Lfn
  <2>3. At(x, a) = Lfn(l) /\ At(x, b).kind = "entry" /\ At(x, b).name = l
    BY <1>4
  <2>4. \A t \in Place : At(x, t) = IF t = to THEN Entry(nm, dir, first, 0)
                                 ELSE IF nm \in Long /\ t = from THEN Lfn(nm) ELSE At(y, t)
    BY DEF Entered
  <2>5. \/ /\ c \in Chain(f, Root) /\ h[c] = f[c]
           /\ nm \in Long => (b = to => h[c] = c + 1) /\ (a = from => b = to)
        \/ IF nm \in Long THEN b = from /\ from # to ELSE b = to
    BY <1>4 DEF Beside
  <2>6. \A k \in Long : At(d, <<c, EPC>>) = Lfn(k) /\ At(d, <<f[c], 1>>).kind = "entry"
                        /\ At(d, <<f[c], 1>>).name = k /\ c \in Chain(f, Root) /\ f[c] \in Cluster
                        => f[c] = c + 1
    BY <1>1 DEF Consistent
  <2>7. ASSUME c \in Chain(f, Root), h[c] = f[c]
        PROVE  At(y, a) = At(d, a) /\ At(y, b) = At(d, b)
    <3>1. f[c] # FREE /\ f[h[c]] # FREE
      BY <1>3, <1>4, <2>7
    <3> QED
      BY <1>3, <2>1, <3>1
  <2>8. At(d, a) = Lfn(l) /\ At(d, b).kind = "entry" /\ At(d, b).name = l /\ h[c] = f[c]
        /\ c \in Chain(f, Root) => h[c] = c + 1
    BY <1>4, <2>6
  <2> HIDE DEF a, b
  <2>9. a # to
    BY <2>1, <2>2, <2>3, <2>4
  <2>10. b # from \/ nm \notin Long \/ b = to
    BY <2>1, <2>2, <2>3, <2>4
  <2>11. b = to => l = nm
    BY <2>1, <2>2, <2>3, <2>4
  <2>12. CASE c \in Chain(f, Root) /\ h[c] = f[c]
              /\ (nm \in Long => (b = to => h[c] = c + 1) /\ (a = from => b = to))
    <3>1. At(y, a) = At(d, a) /\ At(y, b) = At(d, b)
      BY <2>7, <2>12
    <3>2. CASE b = to
      BY <2>11, <2>12, <3>2
    <3>3. CASE b # to
      <4>1. At(x, b) = At(y, b)
        BY <2>1, <2>4, <2>10, <3>3
      <4>2. At(x, a) = At(y, a)
        BY <2>1, <2>4, <2>9, <2>12, <3>3
      <4> QED
        BY <2>3, <2>8, <2>12, <3>1, <4>1, <4>2
    <3> QED
      BY <3>2, <3>3
  <2>13. CASE IF nm \in Long THEN b = from /\ from # to ELSE b = to
    BY <2>10, <2>11, <2>13
  <2> QED
    BY <2>5, <2>12, <2>13
<1> QED
  BY <1>2, <1>4 DEF Consistent

\* The owner of the new entry is its place.
LEMMA EnteredFirsts ==
  ASSUME NEW f, NEW d, NEW full, Base(f, d, full), NEW y, Apart(f, d, y), NEW x,
         NEW from \in Place, NEW to \in Place, from \notin Live(d), to \notin Live(d),
         NEW nm, NEW dir, NEW first, Entered(y, x, from, to, nm, dir, first)
  PROVE  /\ Live(x) = Live(d) \cup {to}
         /\ Firsts(x) = [Extra(d, to) EXCEPT ![to] = first]
         /\ \A s \in Live(d) : At(x, s) = At(d, s)
         /\ At(x, to) = Entry(nm, dir, first, 0)
<1> DEFINE e == Entry(nm, dir, first, 0)
           r == <<0, 0>>
           G == [Extra(d, to) EXCEPT ![to] = first]
<1>1. Live(y) = Live(d) /\ \A t \in Live(d) : At(y, t) = At(d, t)
  BY ApartRight
<1>2. e.kind = "entry" /\ e.first = first /\ Lfn(nm).kind # "entry"
  BY EntryRight DEF Lfn
<1>3. \A t \in Place : At(x, t) = IF t = to THEN e
                                 ELSE IF nm \in Long /\ t = from THEN Lfn(nm) ELSE At(y, t)
  BY DEF Entered
<1>4. /\ DOMAIN Firsts(d) = Live(d) \cup {r} /\ r \notin Live(d) /\ Firsts(d)[r] = Root
      /\ \A s \in Live(d) : Firsts(d)[s] = At(d, s).first
  BY FirstsRight DEF Base, Disk
<1>5. to # r
  BY PlaceRight
<1> HIDE DEF e, r
<1>6. Live(x) = Live(d) \cup {to}
  BY <1>1, <1>2, <1>3 DEF Live
<1>7. \A s \in Live(d) : At(x, s) = At(d, s)
  BY <1>1, <1>3 DEF Live
<1>8. At(x, to) = e
  BY <1>3
<1>9. Firsts(x) = G
  <2> DEFINE D == Live(d) \cup {to} \cup {r}
             g == [s \in D |-> IF s = r THEN Root ELSE At(x, s).first]
  <2>1. Firsts(x) = g
    BY <1>6 DEF Firsts, r
  <2>2. Extra(d, to) = [s \in D |-> IF s = to THEN 0 ELSE Firsts(d)[s]]
    <3>1. DOMAIN Firsts(d) \cup {to} = D
      BY <1>4
    <3> QED
      BY <3>1 DEF Extra
  <2>3. G = [s \in D |-> IF s = to THEN first ELSE Firsts(d)[s]]
    BY <2>2
  <2>4. \A s \in D : g[s] = IF s = to THEN first ELSE Firsts(d)[s]
    BY <1>2, <1>4, <1>5, <1>7, <1>8
  <2> HIDE DEF G
  <2> QED
    BY <2>1, <2>3, <2>4
<1> QED
  BY <1>6, <1>7, <1>8, <1>9 DEF e, G

\* The memory and the owners when the root directory has its last cluster.
Enlarged(n, n2, G) ==
  Holds(n2, G) /\ Kept(n.fat, n2.fat, G, <<0, 0>>) /\ (n2 = n \/ n2.dirty = TRUE)

LEMMA EnterFlushable ==
  ASSUME NEW m, NEW d, NEW full, Settled(m, d, full),
         NEW from \in Place, NEW to \in Place, from \notin Live(d), to \notin Live(d),
         NEW nm \in Name, NEW dir, NEW n, NEW first, NEW t, Made(m, d, to, n, first, t, full),
         NEW n2, Enlarged(n, n2, [Extra(d, to) EXCEPT ![to] = first]),
         Beside(m.fat, n2.fat, from, to, nm),
         NEW y, Apart(m.fat, d, y), NEW x, Entered(y, x, from, to, nm, dir, first)
  PROVE  Flushable(n2, x, full) /\ x.fat1 = d.fat1 /\ Steady(d.fat1, n2.fat, x, {to})
<1> DEFINE f == m.fat
           E == Extra(d, to)
           G == [E EXCEPT ![to] = first]
           r == <<0, 0>>
<1>1. /\ DOMAIN Firsts(d) = Live(d) \cup {r} /\ r \notin Live(d)
      /\ \A s \in Live(d) : Firsts(d)[s] = At(d, s).first
  BY SettledFirsts
<1>2. to \notin DOMAIN Firsts(d) /\ to # r
  BY <1>1, PlaceRight
<1>3. /\ IsFunction(E) /\ to \in DOMAIN E /\ E[to] = 0 /\ DOMAIN E = DOMAIN Firsts(d) \cup {to}
      /\ (\A s \in DOMAIN Firsts(d) : E[s] = Firsts(d)[s]) /\ Base(f, d, full)
  <2>1. IsExtra(m, d, to, E) /\ Base(f, d, full)
    BY <1>2, ExtraRight
  <2> HIDE DEF E, f
  <2> QED
    BY <2>1 DEF IsExtra
<1>4. /\ Live(x) = Live(d) \cup {to} /\ Firsts(x) = G
      /\ \A s \in Live(d) : At(x, s) = At(d, s)
      /\ At(x, to) = Entry(nm, dir, first, 0)
  BY <1>3, EnteredFirsts
<1>5. Grew(m, E, to, n, first)
  BY DEF Made
<1>6. x \in Disk /\ x.fat1 = d.fat1 /\ x.fat2 = d.fat2
  BY DEF Entered, Entries, Apart
<1>7. n2 \in Mem /\ Counted(n2) /\ Tabled(n2.fat, G)
  BY DEF Enlarged, Holds
<1>8. Consistent(n2.fat, x)
  <2>1. Tabled(n2.fat, Firsts(x))
    BY <1>4, <1>7
  <2> HIDE DEF f, E, G, r
  <2> QED
    BY <1>3, <1>4, <2>1, EnteredConsistent DEF f
<1>9. ~n2.dirty => x.fat1 = n2.fat /\ x.fat2 = n2.fat
  <2>1. n2 = m \/ n2.dirty = TRUE
    BY <1>5 DEF Grew, Enlarged
  <2> QED
    BY <1>6, <2>1 DEF Settled
<1>10. ASSUME NEW s \in Live(d)
       PROVE  /\ Chain(n2.fat, At(d, s).first) = Chain(f, At(d, s).first)
              /\ \A c \in Chain(f, At(d, s).first) : n2.fat[c] = f[c]
  <2>1. s # to /\ s # r /\ s \in DOMAIN E /\ E[s] = At(d, s).first
    BY <1>1, <1>3
  <2> HIDE DEF E, r
  <2>2. DOMAIN G = DOMAIN E /\ G[s] = E[s]
    BY <1>3, <2>1 DEF IsFunction
  <2>3. Chain(n.fat, E[s]) = Chain(f, E[s]) /\ \A c \in Chain(f, E[s]) : n.fat[c] = f[c]
    BY <1>5, <2>1 DEF Grew, Kept
  <2>4. Kept(n.fat, n2.fat, G, r)
    BY DEF Enlarged, E, r
  <2> HIDE DEF G
  <2>5. Chain(n2.fat, G[s]) = Chain(n.fat, G[s]) /\ \A c \in Chain(n.fat, G[s]) : n2.fat[c] = n.fat[c]
    BY <2>1, <2>2, <2>4 DEF Kept
  <2> QED
    BY <2>1, <2>2, <2>3, <2>5
<1>11. full \/ Sized(n2.fat, x)
  <2>1. ASSUME Sized(f, d), NEW s \in Live(x)
        PROVE  At(x, s).size <= Cardinality(ChainOf(n2.fat, x, s))
    <3>1. CASE s \in Live(d)
      BY <1>4, <1>10, <2>1, <3>1 DEF Sized, ChainOf
    <3>2. CASE s \notin Live(d)
      <4>1. At(x, s).size = 0
        BY <1>4, <3>2, EntryRight
      <4>2. Cardinality(ChainOf(n2.fat, x, s)) \in Nat
        BY ChainType DEF ChainOf
      <4> QED
        BY <4>1, <4>2
    <3> QED
      BY <3>1, <3>2
  <2>2. full \/ Sized(f, d)
    BY DEF Settled
  <2> QED
    BY <2>1, <2>2 DEF Sized
<1>12. Flushable(n2, x, full)
  BY <1>6, <1>7, <1>8, <1>9, <1>11 DEF Flushable
<1>13. d.ent \in Contents /\ Tabled(f, Firsts(d)) /\ d.fat1 = f
  BY <1>3 DEF Base, Consistent, Disk
<1>14. At(x, to).first = first /\ (first = 0 \/ (first \in Cluster /\ f[first] = FREE))
  BY <1>3, <1>4, <1>5, EntryRight DEF Grew
<1>15. Alongside(f, d, x, {to})
  BY <1>4, <1>6, <1>13, <1>14 DEF Alongside
<1>16. ASSUME NEW s \in Live(x) \ {to}, NEW c \in ChainOf(f, x, s) PROVE n2.fat[c] = f[c]
  <2>1. s \in Live(d) /\ At(x, s) = At(d, s)
    BY <1>4
  <2> QED
    BY <1>10, <2>1 DEF ChainOf
<1>17. Steady(f, n2.fat, x, {to})
  BY <1>13, <1>15, <1>16 DEF Steady
<1> QED
  BY <1>6, <1>12, <1>13, <1>17

LEMMA EnterRight ==
  ASSUME NEW m, NEW d, NEW full, Settled(m, d, full),
         NEW from \in Place, NEW to \in Place, from \notin Live(d), to \notin Live(d),
         NEW nm \in Name, NEW dir \in BOOLEAN, NEW n, NEW first, NEW t,
         Made(m, d, to, n, first, t, full),
         NEW n2, Enlarged(n, n2, [Extra(d, to) EXCEPT ![to] = first]),
         Beside(m.fat, n2.fat, from, to, nm),
         NEW a, Quiet(m.fat, d, full, a), NEW q, Closing(q)
  PROVE  Called(n2, d, t \o (a \o LongPut(from, nm, first) \o NamePut(to, nm, dir, first))
                       \o Flush(n2.dirty) \o q, {to}, full)
<1> DEFINE f == m.fat
           E == Extra(d, to)
           G == [E EXCEPT ![to] = first]
           l == LongPut(from, nm, first)
           w == NamePut(to, nm, dir, first)
<1>1. to \notin DOMAIN Firsts(d)
  <2>1. DOMAIN Firsts(d) = Live(d) \cup {<<0, 0>>}
    BY SettledFirsts
  <2>2. to # <<0, 0>>
    BY PlaceRight
  <2> QED
    BY <2>1, <2>2
<1>2. Base(f, d, full) /\ E[to] = 0
  <2>1. IsExtra(m, d, to, E) /\ Base(f, d, full)
    BY <1>1, ExtraRight
  <2> HIDE DEF E, f
  <2> QED
    BY <2>1 DEF IsExtra
<1>3. Fresh(f, first) /\ first \in First
  <2>1. Grew(m, E, to, n, first)
    BY DEF Made
  <2> QED
    BY <1>2, <2>1 DEF Grew, Fresh, First
<1>4. Quiet(f, d, full, t) /\ Quiet(f, d, full, a)
  BY DEF Made
<1>5. /\ t \in Seq(Op) /\ Plain(t) /\ a \in Seq(Op) /\ Plain(a)
      /\ l \in Seq(Op) /\ Plain(l) /\ w \in Seq(Op) /\ Plain(w)
  <2>1. Entry(nm, dir, first, 0) \in Content /\ Lfn(nm) \in Content
    <3>1. 0 \in 0 .. MaxSize
      BY VolumeAssumption
    <3> QED
      BY <1>3, <3>1 DEF Content, First
  <2>2. /\ Put(from, Lfn(nm), first) \in Op /\ Put(from, Lfn(nm), first).op = "put"
        /\ Put(to, Entry(nm, dir, first, 0), first) \in Op
        /\ Put(to, Entry(nm, dir, first, 0), first).op = "put"
    BY <1>3, <2>1 DEF Put, Op
  <2>3. /\ <<Put(from, Lfn(nm), first)>> \in Seq(Op) /\ Plain(<<Put(from, Lfn(nm), first)>>)
        /\ w \in Seq(Op) /\ Plain(w)
    BY <2>2, PlainOne DEF NamePut
  <2>4. <<>> \in Seq(Op) /\ Plain(<<>>)
    BY DEF Plain
  <2> QED
    BY <1>4, <2>3, <2>4 DEF Quiet, LongPut
<1>6. Apart(f, d, d)
  BY <1>2, BaseRight
<1> HIDE DEF l, w, E
<1>7. PICK y1 : Leads(n2, d, t, {to}, full, y1) /\ Apart(f, d, y1)
  BY <1>4, <1>6 DEF Quiet
<1>8. PICK y : Leads(n2, y1, a, {to}, full, y) /\ Apart(f, d, y)
  BY <1>4, <1>7 DEF Quiet
<1>9. PICK z, x : /\ Leads(n2, y, l, {to}, full, z) /\ Leads(n2, z, w, {to}, full, x)
                  /\ Entered(y, x, from, to, nm, dir, first)
  <2> HIDE DEF f
  <2>1. EntryWay(n2, y, from, to, nm, dir, first, full)
    BY <1>2, <1>3, <1>8, EntryLeads
  <2> QED
    BY <2>1 DEF EntryWay, l, w
<1>10. a \o l \in Seq(Op) /\ Plain(a \o l) /\ Leads(n2, y1, a \o l, {to}, full, z)
  BY <1>5, <1>8, <1>9, PlainJoin, LeadsJoin
<1> DEFINE al == a \o l
           alw == al \o w
           p == t \o alw
<1> HIDE DEF al
<1>11. al \in Seq(Op) /\ Plain(al) /\ Leads(n2, y1, al, {to}, full, z)
  BY <1>10 DEF al
<1>12. alw \in Seq(Op) /\ Plain(alw) /\ Leads(n2, y1, alw, {to}, full, x)
  BY <1>5, <1>9, <1>11, PlainJoin, LeadsJoin
<1> HIDE DEF alw
<1>13. p \in Seq(Op) /\ Plain(p) /\ Leads(n2, d, p, {to}, full, x)
  BY <1>5, <1>7, <1>12, PlainJoin, LeadsJoin
<1> HIDE DEF p, f, G
<1>14. Flushable(n2, x, full) /\ x.fat1 = d.fat1 /\ Steady(d.fat1, n2.fat, x, {to})
  BY <1>8, <1>9, EnterFlushable DEF f
<1>15. Called(n2, d, p \o Flush(n2.dirty) \o q, {to}, full)
  BY <1>13, <1>14, FlushCall
<1> QED
  BY <1>15 DEF p, alw, al, l, w

\* Whatever the owner will be: n is m with the cluster first made ready for it.
AnyMade(m, d, n, first, t, full) ==
  \A o : o \notin DOMAIN Firsts(d) => Made(m, d, o, n, first, t, full)

\* The root directory is the same in f and g.
SameRoot(f, g) ==
  /\ Chain(g, Root) = Chain(f, Root) /\ \A c \in Chain(f, Root) : g[c] = f[c]
  /\ \A c \in Cluster : f[c] # FREE => g[c] # FREE

LEMMA MadeRoot ==
  ASSUME NEW m, NEW d, NEW full, Settled(m, d, full), NEW n, NEW first, NEW t,
         AnyMade(m, d, n, first, t, full)
  PROVE  LET p == ChainSeq(n.fat, Root) IN
         /\ n \in Mem /\ SameRoot(m.fat, n.fat) /\ (n = m \/ n.dirty = TRUE)
         /\ p \in Seq(Cluster) /\ Path(n.fat, Root, p) /\ Rng(p) = Chain(n.fat, Root)
         /\ IsSlots(Slots(n.fat, Root), n.fat, p)
<1> DEFINE r == <<0, 0>>
           o == <<0, 1>>
           E == Extra(d, o)
           G == [E EXCEPT ![o] = first]
<1>1. /\ DOMAIN Firsts(d) = Live(d) \cup {r} /\ Firsts(d)[r] = Root
  BY SettledFirsts
<1>2. o \notin DOMAIN Firsts(d) /\ o # r
  <2>1. o # r /\ o[1] \notin Cluster
    BY ClusterRight
  <2> HIDE DEF o
  <2> QED
    BY <1>1, <2>1, PlaceRight DEF Live
<1>3. Grew(m, E, o, n, first)
  BY <1>2 DEF AnyMade, Made
<1>4. /\ IsFunction(E) /\ o \in DOMAIN E /\ r \in DOMAIN E /\ E[r] = Root
  <2>1. r \in DOMAIN Firsts(d)
    BY <1>1
  <2> HIDE DEF o, r
  <2>2. /\ IsFunction(E) /\ o \in DOMAIN E /\ DOMAIN E = DOMAIN Firsts(d) \cup {o}
        /\ \A x \in DOMAIN Firsts(d) : E[x] = Firsts(d)[x]
    <3>1. IsExtra(m, d, o, E)
      BY <1>2, ExtraRight
    <3> HIDE DEF E
    <3> QED
      BY <3>1 DEF IsExtra
  <2> HIDE DEF E
  <2> QED
    BY <1>1, <2>1, <2>2
<1> HIDE DEF E, o, r
<1>5. DOMAIN G = DOMAIN E /\ G[r] = Root
  BY <1>2, <1>4 DEF IsFunction
<1>6. n \in Mem /\ Tabled(n.fat, G) /\ Kept(m.fat, n.fat, E, o)
  BY <1>3 DEF Grew, Holds
<1>7. SameRoot(m.fat, n.fat)
  <2>1. r \in DOMAIN E \ {o}
    BY <1>2, <1>4
  <2>2. Chain(n.fat, E[r]) = Chain(m.fat, E[r]) /\ \A c \in Chain(m.fat, E[r]) : n.fat[c] = m.fat[c]
    BY <1>6, <2>1 DEF Kept
  <2> QED
    BY <1>3, <1>4, <2>2 DEF SameRoot, Grew
<1> HIDE DEF G
<1> DEFINE p == ChainSeq(n.fat, G[r])
<1>8. /\ p \in Seq(Cluster) /\ Path(n.fat, G[r], p) /\ Rng(p) = Chain(n.fat, G[r])
      /\ IsSlots(Slots(n.fat, G[r]), n.fat, p)
  BY <1>4, <1>5, <1>6, RootRight
<1>9. n = m \/ n.dirty = TRUE
  BY <1>3 DEF Grew
<1> QED
  BY <1>5, <1>6, <1>7, <1>8, <1>9

LEMMA NextUnique ==
  ASSUME NEW g, NEW first, NEW p \in Seq(Cluster), Path(g, first, p),
         NEW b \in Rng(p), NEW c \in Rng(p), g[b] = g[c], g[b] \in Cluster
  PROVE  b = c
<1>1. PICK i \in 1 .. Len(p) : b = p[i]
  BY DEF Rng
<1>2. PICK j \in 1 .. Len(p) : c = p[j]
  BY DEF Rng
<1>3. i < Len(p) /\ j < Len(p) /\ g[b] = p[i + 1] /\ g[c] = p[j + 1]
  BY <1>1, <1>2, ClusterRight DEF Path
<1>4. i + 1 \in 1 .. Len(p) /\ j + 1 \in 1 .. Len(p)
  BY <1>3
<1>5. i + 1 = j + 1
  BY <1>3, <1>4 DEF Path
<1> QED
  BY <1>1, <1>2, <1>5

\* The last of the deleted entries the name goes to, and the first.
RunEnd(f, d, nm) == Min(Runs(f, d, nm))
RunStart(f, d, nm) == RunEnd(f, d, nm) - Width(nm) + 1
RunTo(f, d, nm) ==
  IF nm \in Long THEN After(Slots(f, Root)[RunStart(f, d, nm)])
  ELSE Slots(f, Root)[RunStart(f, d, nm)]

LEMMA RunRight ==
  ASSUME NEW f, NEW d, NEW nm, Slots(f, Root) \in Seq(Place), Runs(f, d, nm) # {}
  PROVE  LET s == Slots(f, Root)
             k == RunEnd(f, d, nm)
             i == RunStart(f, d, nm)
         IN /\ k \in 1 .. Len(s) /\ i \in 1 .. Len(s)
            /\ i = IF nm \in Long THEN k - 1 ELSE k
            /\ At(d, s[k]) = DEL /\ At(d, s[i]) = DEL
<1> DEFINE s == Slots(f, Root)
           R == Runs(f, d, nm)
           w == Width(nm)
           k == Min(R)
<1>1. R \subseteq {x \in 1 .. Len(s) - 1 : x >= w /\ \A j \in 0 .. w - 1 : At(d, s[x - j]) = DEL}
  BY DEF Runs, Readable
<1>2. w = IF nm \in Long THEN 2 ELSE 1
  BY DEF Width
<1>3. s \in Seq(Place) /\ R # {}
  OBVIOUS
<1> HIDE DEF s, R, w
<1>4. R \subseteq Nat
  BY <1>1, <1>3
<1>5. k \in R
  BY <1>3, <1>4, MinRight
<1> HIDE DEF k
<1>6. k \in 1 .. Len(s) - 1 /\ k >= w /\ \A j \in 0 .. w - 1 : At(d, s[k - j]) = DEL
  BY <1>1, <1>5
<1> DEFINE i == k - w + 1
<1>7. k \in 1 .. Len(s) /\ i \in 1 .. Len(s) /\ i = IF nm \in Long THEN k - 1 ELSE k
  BY <1>2, <1>3, <1>6
<1>8. k - 0 = k /\ 0 \in 0 .. w - 1 /\ w - 1 \in 0 .. w - 1 /\ k - (w - 1) = i
  BY <1>2, <1>6
<1>9. At(d, s[k]) = DEL /\ At(d, s[i]) = DEL
  BY <1>6, <1>8
<1> QED
  BY <1>7, <1>9 DEF s, R, w, k, RunEnd, RunStart

LEMMA AfterRight ==
  ASSUME NEW s \in Place, After(s)[1] \in Cluster
  PROVE  After(s) \in Place
<1>1. s[1] \in Cluster /\ s[2] \in 1 .. EPC /\ EPC \in Nat \ {0, 1}
  BY PlaceRight
<1>2. CASE s[2] < EPC
  <2>1. After(s) = <<s[1], s[2] + 1>> /\ s[2] + 1 \in 1 .. EPC
    BY <1>1, <1>2 DEF After
  <2> QED
    BY <1>1, <2>1, PlaceRight
<1>3. CASE ~(s[2] < EPC)
  <2>1. After(s) = <<s[1] + 1, 1>> /\ 1 \in 1 .. EPC
    BY <1>1, <1>3 DEF After
  <2>2. s[1] + 1 \in Cluster
    BY <2>1
  <2> QED
    BY <2>1, <2>2, PlaceRight
<1> QED
  BY <1>2, <1>3

\* Deleted entries of the root directory keep a long name beside its entry.
LEMMA RunBeside ==
  ASSUME NEW f, NEW g, SameRoot(f, g), NEW p \in Seq(Cluster), Path(g, Root, p),
         Rng(p) = Chain(g, Root), IsSlots(Slots(g, Root), g, p),
         NEW d, NEW nm, Runs(g, d, nm) # {},
         NEW from, from = Slots(g, Root)[RunStart(g, d, nm)],
         NEW to, to = RunTo(g, d, nm), to = Slots(g, Root)[RunEnd(g, d, nm)]
  PROVE  /\ from \in Place /\ to \in Place /\ At(d, from) = DEL /\ At(d, to) = DEL
         /\ Beside(f, g, from, to, nm)
<1> DEFINE s == Slots(g, Root)
           k == RunEnd(g, d, nm)
           i == RunStart(g, d, nm)
<1>1. s \in Seq(Place)
  BY DEF IsSlots
<1>2. /\ k \in 1 .. Len(s) /\ i \in 1 .. Len(s) /\ i = IF nm \in Long THEN k - 1 ELSE k
      /\ At(d, s[k]) = DEL /\ At(d, s[i]) = DEL
  BY <1>1, RunRight
<1>3. from = s[i] /\ to = s[k]
  OBVIOUS
<1>4. /\ \A x \in 1 .. Len(s) : s[x][1] \in Rng(p)
      /\ \A x \in 2 .. Len(s) : s[x] = Follow(g, s[x - 1])
  BY DEF IsSlots
<1>5. nm \in Long => to = After(from)
  BY DEF RunTo
<1> HIDE DEF s, k, i
<1>6. from \in Place /\ to \in Place /\ At(d, from) = DEL /\ At(d, to) = DEL
  BY <1>1, <1>2, <1>3
<1>7. from[1] \in Rng(p) /\ to[1] \in Rng(p)
  BY <1>2, <1>3, <1>4
<1>8. nm \in Long => to = Follow(g, from)
  <2>1. nm \in Long => k \in 2 .. Len(s) /\ k - 1 = i
    BY <1>1, <1>2
  <2> QED
    BY <1>3, <1>4, <2>1
<1>9. from[1] \in Cluster /\ from[2] \in 1 .. EPC /\ EPC \in Nat \ {0, 1}
  BY <1>6, PlaceRight
<1>10. ASSUME NEW c \in Rng(p), g[c] \in Cluster, nm \in Long, <<g[c], 1>> = to
       PROVE  g[c] = c + 1
  <2>1. to[1] = g[c] /\ to[2] = 1
    BY <1>10
  <2>2. ~(from[2] < EPC)
    <3>1. ASSUME from[2] < EPC PROVE FALSE
      <4>1. to[2] = from[2] + 1
        BY <1>5, <1>10, <3>1 DEF After
      <4> QED
        BY <1>9, <2>1, <4>1
    <3> QED
      BY <3>1
  <2>3. to = <<g[from[1]], 1>> /\ to = <<from[1] + 1, 1>>
    BY <1>5, <1>8, <1>10, <2>2 DEF After, Follow
  <2>4. g[c] = g[from[1]] /\ g[c] = from[1] + 1
    BY <2>1, <2>3
  <2>5. c = from[1]
    BY <1>7, <1>10, <2>4, NextUnique
  <2> QED
    BY <2>4, <2>5
<1>11. ASSUME NEW c \in Rng(p), nm \in Long, <<c, EPC>> = from
       PROVE  <<g[c], 1>> = to
  <2>1. from[1] = c /\ ~(from[2] < EPC)
    BY <1>9, <1>11
  <2> QED
    BY <1>8, <1>11, <2>1 DEF Follow
<1>12. Beside(f, g, from, to, nm)
  BY <1>7, <1>10, <1>11 DEF Beside, SameRoot
<1> QED
  BY <1>6, <1>12

\* The places of a new name in a new cluster of the root directory.
NewTo(c, nm) == IF nm \in Long THEN After(<<c, 1>>) ELSE <<c, 1>>

LEMMA NewPlaces ==
  ASSUME NEW c \in Cluster, NEW nm
  PROVE  /\ <<c, 1>> \in Place /\ NewTo(c, nm) \in Place /\ NewTo(c, nm)[1] = c
         /\ NewTo(c, nm) = IF nm \in Long THEN <<c, 2>> ELSE <<c, 1>>
<1>1. EPC \in Nat \ {0, 1}
  BY PlaceRight
<1>2. After(<<c, 1>>) = <<c, 2>>
  BY <1>1 DEF After
<1>3. <<c, 1>> \in Place /\ <<c, 2>> \in Place
  BY <1>1, PlaceRight
<1> QED
  BY <1>2, <1>3 DEF NewTo

LEMMA NewBeside ==
  ASSUME NEW f, NEW g, SameRoot(f, g), NEW p \in Seq(Cluster), Path(g, Root, p),
         Rng(p) = Chain(g, Root), NEW new \in Cluster, new \notin Rng(p),
         NEW h, NEW q, q = Append(p, new), Path(h, Root, q), Chain(h, Root) = Rng(q),
         NEW nm
  PROVE  Beside(f, h, <<new, 1>>, NewTo(new, nm), nm)
<1> DEFINE from == <<new, 1>>
           to == NewTo(new, nm)
<1>1. /\ to[1] = new /\ to = IF nm \in Long THEN <<new, 2>> ELSE <<new, 1>>
  BY NewPlaces
<1>2. EPC \in Nat \ {0, 1}
  BY PlaceRight
<1>3. /\ Len(q) = Len(p) + 1 /\ Len(p) \in Nat /\ q[Len(p) + 1] = new
      /\ \A i \in 1 .. Len(p) : q[i] = p[i]
  OBVIOUS
<1>4. Rng(p) \subseteq Rng(q) /\ new \in Rng(q)
  BY <1>3 DEF Rng
<1>5. ASSUME NEW c \in Chain(h, Root), h[c] \in Cluster, c \notin Chain(f, Root) \/ h[c] # f[c]
      PROVE  h[c] = new
  <2>1. PICK i \in 1 .. Len(q) : c = q[i]
    BY <1>5 DEF Rng
  <2>2. i < Len(q) /\ h[c] = q[i + 1]
    BY <1>5, <2>1, ClusterRight DEF Path
  <2>3. ASSUME i < Len(p) PROVE FALSE
    <3>1. i \in 1 .. Len(p) /\ i + 1 \in 1 .. Len(p)
      BY <1>3, <2>3
    <3>2. c = p[i] /\ h[c] = p[i + 1] /\ g[c] = p[i + 1]
      BY <1>3, <2>1, <2>2, <2>3, <3>1 DEF Path
    <3>3. c \in Chain(f, Root)
      BY <3>1, <3>2 DEF Rng, SameRoot
    <3> QED
      BY <1>5, <3>2, <3>3 DEF SameRoot
  <2>4. i + 1 = Len(p) + 1
    BY <1>3, <2>2, <2>3
  <2> QED
    BY <1>3, <2>2, <2>4
<1>6. ASSUME NEW c \in Chain(h, Root), h[c] \in Cluster, c \in Chain(f, Root), h[c] = f[c],
             nm \in Long
      PROVE  /\ <<h[c], 1>> = to => h[c] = c + 1
             /\ <<c, EPC>> = from => <<h[c], 1>> = to
  <2>1. to[2] = 2 /\ from[2] = 1
    BY <1>1, <1>6
  <2>2. <<h[c], 1>>[2] = 1 /\ <<c, EPC>>[2] = EPC
    OBVIOUS
  <2> QED
    BY <1>2, <2>1, <2>2
<1>7. nm \in Long => from # to
  BY <1>1
<1>8. nm \notin Long => from = to
  BY <1>1
<1> HIDE DEF to, from
<1>9. ASSUME NEW c \in Chain(h, Root), h[c] \in Cluster
      PROVE  \/ /\ c \in Chain(f, Root) /\ h[c] = f[c]
                /\ nm \in Long => /\ <<h[c], 1>> = to => h[c] = c + 1
                                  /\ <<c, EPC>> = from => <<h[c], 1>> = to
             \/ IF nm \in Long THEN <<h[c], 1>> = from /\ from # to ELSE <<h[c], 1>> = to
  <2>1. CASE c \notin Chain(f, Root) \/ h[c] # f[c]
    <3>1. h[c] = new
      BY <1>5, <1>9, <2>1
    <3>2. <<h[c], 1>> = from
      BY <3>1 DEF from
    <3> QED
      BY <1>7, <1>8, <3>2
  <2>2. CASE c \in Chain(f, Root) /\ h[c] = f[c]
    BY <1>6, <1>9, <2>2
  <2> QED
    BY <2>1, <2>2
<1>10. Chain(f, Root) \subseteq Chain(h, Root) /\ to[1] \in Chain(h, Root)
  BY <1>1, <1>4 DEF SameRoot
<1> QED
  BY <1>9, <1>10 DEF Beside, from, to

InRun(n, nm, dir, first, add) ==
  LET from == Slots(n.fat, Root)[RunStart(n.fat, disk, nm)]
  IN /\ add.ok /\ add.m = n /\ add.at = RunTo(n.fat, disk, nm)
     /\ add.stray = (add.at # Slots(n.fat, Root)[RunEnd(n.fat, disk, nm)])
     /\ add.todo = <<>> \o LongPut(from, nm, first) \o NamePut(add.at, nm, dir, first)

LEMMA AddRun ==
  ASSUME NEW n, NEW nm, NEW dir, NEW first, Runs(n.fat, disk, nm) # {}
  PROVE  InRun(n, nm, dir, first, AddEntry(n, nm, dir, first))
BY DEF InRun, AddEntry, LongPut, NamePut, RunTo, RunStart, RunEnd

InNew(n, nm, dir, first, add) ==
  LET new == NextFree(n)
  IN /\ add.ok = ~NoRoom(n) /\ add.m = Extended(n, Root).m /\ add.at = NewTo(new, nm)
     /\ add.stray = FALSE
     /\ add.todo = <<Zero(new)>> \o LongPut(<<new, 1>>, nm, first)
                                 \o NamePut(add.at, nm, dir, first)

LEMMA AddNew ==
  ASSUME NEW n, NEW nm, NEW dir, NEW first, Runs(n.fat, disk, nm) = {}
  PROVE  InNew(n, nm, dir, first, AddEntry(n, nm, dir, first))
BY DEF InNew, AddEntry, LongPut, NamePut, NewTo

LEMMA AddRunRight ==
  ASSUME NEW m, NEW full, Settled(m, disk, full), NEW nm \in Name, NEW dir \in BOOLEAN,
         NEW n, NEW first, NEW t, AnyMade(m, disk, n, first, t, full),
         Runs(n.fat, disk, nm) # {},
         NEW add, add = AddEntry(n, nm, dir, first), ~add.stray, NEW q, Closing(q)
  PROVE  Called(add.m, disk, t \o add.todo \o Flush(add.m.dirty) \o q, {add.at}, full)
<1> DEFINE s == Slots(n.fat, Root)
           from == s[RunStart(n.fat, disk, nm)]
           to == RunTo(n.fat, disk, nm)
           w == <<>> \o LongPut(from, nm, first) \o NamePut(to, nm, dir, first)
           p == ChainSeq(n.fat, Root)
<1>1. /\ add.m = n /\ add.at = to /\ to = s[RunEnd(n.fat, disk, nm)] /\ add.todo = w
  <2>1. /\ add.m = n /\ add.at = to /\ add.stray = (add.at # s[RunEnd(n.fat, disk, nm)])
        /\ add.todo = <<>> \o LongPut(from, nm, first) \o NamePut(add.at, nm, dir, first)
    <3>1. InRun(n, nm, dir, first, add)
      BY AddRun
    <3> QED
      BY <3>1 DEF InRun
  <2> HIDE DEF from, to, s
  <2> QED
    BY <2>1
<1>2. /\ n \in Mem /\ SameRoot(m.fat, n.fat)
      /\ p \in Seq(Cluster) /\ Path(n.fat, Root, p) /\ Rng(p) = Chain(n.fat, Root)
      /\ IsSlots(s, n.fat, p)
  BY MadeRoot
<1> HIDE DEF p
<1>3. /\ from \in Place /\ to \in Place /\ At(disk, from) = DEL /\ At(disk, to) = DEL
      /\ Beside(m.fat, n.fat, from, to, nm)
  BY <1>1, <1>2, RunBeside
<1> HIDE DEF from, to, s
<1>4. from \notin Live(disk) /\ to \notin Live(disk)
  BY <1>3 DEF Live, DEL
<1>5. to \notin DOMAIN Firsts(disk)
  <2>1. DOMAIN Firsts(disk) = Live(disk) \cup {<<0, 0>>}
    BY SettledFirsts
  <2>2. to # <<0, 0>>
    BY <1>3, PlaceRight
  <2> QED
    BY <1>4, <2>1, <2>2
<1>6. Made(m, disk, to, n, first, t, full)
  BY <1>5 DEF AnyMade
<1>7. Enlarged(n, n, [Extra(disk, to) EXCEPT ![to] = first])
  BY <1>6 DEF Made, Grew, Enlarged, Kept
<1>8. Quiet(m.fat, disk, full, <<>>)
  BY <1>5, ExtraRight, QuietNone
<1>9. Called(n, disk, t \o (<<>> \o LongPut(from, nm, first) \o NamePut(to, nm, dir, first))
                        \o Flush(n.dirty) \o q, {to}, full)
  BY <1>3, <1>4, <1>6, <1>7, <1>8, EnterRight
<1> QED
  BY <1>1, <1>9

LEMMA AddNewRight ==
  ASSUME NEW m, NEW full, Settled(m, disk, full), NEW nm \in Name, NEW dir \in BOOLEAN,
         NEW n, NEW first, NEW t, AnyMade(m, disk, n, first, t, full),
         Runs(n.fat, disk, nm) = {},
         NEW add, add = AddEntry(n, nm, dir, first), add.ok, NEW q, Closing(q)
  PROVE  Called(add.m, disk, t \o add.todo \o Flush(add.m.dirty) \o q, {add.at}, full)
<1> DEFINE r == <<0, 0>>
           new == NextFree(n)
           from == <<new, 1>>
           to == NewTo(new, nm)
           n2 == Extended(n, Root).m
           w == <<Zero(new)>> \o LongPut(from, nm, first) \o NamePut(to, nm, dir, first)
           p == ChainSeq(n.fat, Root)
           s == Slots(n.fat, Root)
<1>1. /\ add.m = n2 /\ add.at = to /\ ~NoRoom(n) /\ add.todo = w
  <2>1. InNew(n, nm, dir, first, add)
    BY AddNew
  <2>2. /\ add.ok = ~NoRoom(n) /\ add.m = n2 /\ add.at = to
        /\ add.todo = <<Zero(new)>> \o LongPut(from, nm, first) \o NamePut(add.at, nm, dir, first)
    BY <2>1 DEF InNew
  <2> HIDE DEF new, from, to, n2
  <2> QED
    BY <2>2
<1>2. /\ n \in Mem /\ SameRoot(m.fat, n.fat)
      /\ p \in Seq(Cluster) /\ Path(n.fat, Root, p) /\ Rng(p) = Chain(n.fat, Root)
      /\ IsSlots(s, n.fat, p)
  BY MadeRoot
<1>3. new \in Cluster /\ n.fat[new] = FREE
  BY <1>1, <1>2, NextFreeRight
<1> HIDE DEF new
<1>4. m.fat[new] = FREE /\ Base(m.fat, disk, full)
  BY <1>2, <1>3 DEF SameRoot, Base, Settled
<1>5. from \in Place /\ to \in Place /\ from[1] = new /\ to[1] = new
  BY <1>3, NewPlaces
<1>6. from \notin Live(disk) /\ to \notin Live(disk)
  BY <1>4, <1>5, BaseRight
<1>7. /\ to \notin DOMAIN Firsts(disk) /\ to # r /\ r \in DOMAIN Firsts(disk)
      /\ Firsts(disk)[r] = Root
  <2>1. DOMAIN Firsts(disk) = Live(disk) \cup {r} /\ Firsts(disk)[r] = Root
    BY SettledFirsts
  <2>2. to # r
    BY <1>5, PlaceRight
  <2> HIDE DEF to, r
  <2> QED
    BY <1>6, <2>1, <2>2
<1>8. Made(m, disk, to, n, first, t, full)
  BY <1>7 DEF AnyMade
<1> DEFINE E == Extra(disk, to)
           G == [E EXCEPT ![to] = first]
           P == [o \in DOMAIN G |-> ChainSeq(n.fat, G[o])]
<1>9. /\ IsFunction(E) /\ r \in DOMAIN E /\ E[r] = Root
  <2> HIDE DEF to, r
  <2>1. /\ IsFunction(E) /\ DOMAIN E = DOMAIN Firsts(disk) \cup {to}
        /\ \A x \in DOMAIN Firsts(disk) : E[x] = Firsts(disk)[x]
    <3>1. IsExtra(m, disk, to, E)
      BY <1>7, ExtraRight
    <3> HIDE DEF E
    <3> QED
      BY <3>1 DEF IsExtra
  <2> HIDE DEF E
  <2> QED
    BY <1>7, <2>1
<1>10. Holds(n, G)
  BY <1>8 DEF Made, Grew
<1> HIDE DEF E
<1>11. IsFunction(G) /\ r \in DOMAIN G /\ G[r] = Root
  BY <1>7, <1>9 DEF IsFunction
<1> HIDE DEF G
<1>12. P[r] = p /\ LaidOut(n.fat, G, P)
  <2>1. Tabled(n.fat, G)
    BY <1>10 DEF Holds
  <2> QED
    BY <1>11, <2>1, TabledLaid
<1> HIDE DEF P, p
<1>13. Appended(n, G, P, r, Extended(n, G[r]).m, Extended(n, G[r]).first)
  BY <1>1, <1>10, <1>11, <1>12, ExtendedRight
<1> DEFINE k == Extended(n, Root).first
           q2 == Append(p, new)
<1>14. Appended(n, G, P, r, n2, k)
  BY <1>11, <1>13
<1> HIDE DEF n2, k
<1>15. /\ Holds(n2, [G EXCEPT ![r] = k]) /\ Kept(n.fat, n2.fat, G, r) /\ n2.dirty = TRUE
       /\ LaidOut(n2.fat, [G EXCEPT ![r] = k], [P EXCEPT ![r] = q2])
       /\ k = Root
  BY <1>11, <1>12, <1>14, ClusterRight DEF Appended, new
<1>16. [G EXCEPT ![r] = k] = G
  BY <1>11, <1>15 DEF IsFunction
<1>17. Enlarged(n, n2, G)
  BY <1>15, <1>16 DEF Enlarged, r
<1>18. Chain(n2.fat, Root) = Rng(q2) /\ Path(n2.fat, Root, q2)
  <2> DEFINE P2 == [P EXCEPT ![r] = q2]
  <2>1. LaidOut(n2.fat, G, P2)
    BY <1>15, <1>16
  <2>2. P2[r] = q2
    BY <1>11, <1>12 DEF LaidOut
  <2> HIDE DEF P2
  <2>3. Chain(n2.fat, G[r]) = Rng(P2[r]) /\ Path(n2.fat, G[r], P2[r])
    BY <1>11, <2>1, LaidChain
  <2> QED
    BY <1>11, <2>2, <2>3
<1>19. new \notin Rng(p)
  <2>1. \A c \in Chain(m.fat, Root) : m.fat[c] # FREE
    BY <1>4, BaseRight
  <2> QED
    BY <1>2, <1>4, <2>1 DEF SameRoot
<1>20. Beside(m.fat, n2.fat, from, to, nm)
  BY <1>2, <1>3, <1>18, <1>19, NewBeside
<1>21. Quiet(m.fat, disk, full, <<Zero(new)>>)
  BY <1>3, <1>4, QuietZero
<1> HIDE DEF from, to
<1>22. Called(n2, disk, t \o (<<Zero(new)>> \o LongPut(from, nm, first) \o NamePut(to, nm, dir, first))
                        \o Flush(n2.dirty) \o q, {to}, full)
  BY <1>5, <1>6, <1>8, <1>17, <1>20, <1>21, EnterRight DEF G, E
<1> QED
  BY <1>1, <1>22

\* An owner without a table entry of its own, to speak of what is made ready.
Nobody == <<0, 1>>

LEMMA NobodyRight ==
  ASSUME NEW m, NEW d, NEW full, Settled(m, d, full), NEW n, NEW first, NEW t,
         AnyMade(m, d, n, first, t, full)
  PROVE  /\ IsExtra(m, d, Nobody, Extra(d, Nobody)) /\ Base(m.fat, d, full)
         /\ Grew(m, Extra(d, Nobody), Nobody, n, first) /\ Quiet(m.fat, d, full, t)
         /\ Fresh(m.fat, first) /\ first \in First /\ t \in Seq(Op) /\ Plain(t)
<1> DEFINE r == <<0, 0>>
           E == Extra(d, Nobody)
<1>1. DOMAIN Firsts(d) = Live(d) \cup {r}
  BY SettledFirsts
<1>2. Nobody # r /\ Nobody[1] \notin Cluster
  BY ClusterRight DEF Nobody
<1>3. Nobody \notin DOMAIN Firsts(d)
  BY <1>1, <1>2, PlaceRight DEF Live
<1>4. IsExtra(m, d, Nobody, E) /\ Base(m.fat, d, full)
  BY <1>3, ExtraRight
<1>5. Grew(m, E, Nobody, n, first) /\ Quiet(m.fat, d, full, t)
  BY <1>3 DEF AnyMade, Made
<1> HIDE DEF E
<1>6. Fresh(m.fat, first) /\ first \in First
  BY <1>4, <1>5 DEF IsExtra, Grew, Fresh, First
<1> QED
  BY <1>4, <1>5, <1>6 DEF E, Quiet

\* A call of create that finds no room gives back what it had made ready.
LEMMA FailRight ==
  ASSUME NEW m, NEW d, NEW full, Settled(m, d, full), NEW n, NEW first, NEW t,
         AnyMade(m, d, n, first, t, full)
  PROVE  Called(FreeChain(n, first), d, t, {}, full)
<1> DEFINE o == Nobody
           E == Extra(d, o)
           G == [E EXCEPT ![o] = first]
           P == [q \in DOMAIN G |-> ChainSeq(n.fat, G[q])]
           n2 == FreeChain(n, first)
           f == m.fat
<1>1. /\ IsExtra(m, d, o, E) /\ Base(f, d, full) /\ Grew(m, E, o, n, first)
      /\ Quiet(f, d, full, t) /\ t \in Seq(Op) /\ Plain(t)
  BY NobodyRight
<1> HIDE DEF E, o
<1>2. /\ IsFunction(E) /\ o \in DOMAIN E /\ E[o] = 0 /\ Holds(m, E)
      /\ Holds(n, G) /\ Kept(f, n.fat, E, o)
  BY <1>1 DEF IsExtra, Grew
<1>3. DOMAIN G = DOMAIN E /\ G[o] = first /\ [G EXCEPT ![o] = 0] = E
  BY <1>2 DEF IsFunction
<1>4. Holds(n2, E) /\ Kept(n.fat, n2.fat, G, o)
  <2> HIDE DEF G
  <2>1. LaidOut(n.fat, G, P)
    BY <1>2, TabledLaid DEF Holds
  <2> HIDE DEF P
  <2>2. Holds(FreeChain(n, G[o]), [G EXCEPT ![o] = 0]) /\ Kept(n.fat, FreeChain(n, G[o]).fat, G, o)
    BY <1>2, <1>3, <2>1, FreeRight
  <2> QED
    BY <1>3, <2>2
<1> HIDE DEF P, n2, f
<1>5. Kept(f, n2.fat, E, o)
  BY <1>2, <1>4, KeptJoin
<1> HIDE DEF G
<1>6. Tabled(f, E) /\ Tabled(n2.fat, E)
  BY <1>2, <1>4 DEF Holds, f
<1>7. Chain(f, E[o]) = {} /\ Chain(n2.fat, E[o]) = {}
  <2>1. ASSUME NEW g, Tabled(g, E) PROVE Chain(g, E[o]) = {}
    <3> DEFINE p == ChainSeq(g, E[o])
    <3>1. Path(g, E[o], p)
      BY <1>2, <2>1 DEF Tabled
    <3>2. p \in Seq(Cluster) /\ Rng(p) = Chain(g, E[o])
      BY <3>1, PathExists
    <3> HIDE DEF p
    <3>3. p = <<>>
      BY <1>2, <3>1, <3>2, ClusterRight DEF Path
    <3> QED
      BY <3>2, <3>3 DEF Rng
  <2> QED
    BY <1>6, <2>1
<1>8. \A c \in Cluster : n2.fat[c] = f[c]
  <2>1. ASSUME NEW c \in Cluster, f[c] # FREE PROVE n2.fat[c] = f[c]
    <3>1. PICK q \in DOMAIN E : c \in Chain(f, E[q])
      BY <1>6, <2>1 DEF Tabled
    <3>2. q # o
      BY <1>7, <3>1
    <3> QED
      BY <1>5, <3>1, <3>2 DEF Kept
  <2>2. ASSUME NEW c \in Cluster, n2.fat[c] # FREE PROVE f[c] # FREE
    <3>1. PICK q \in DOMAIN E : c \in Chain(n2.fat, E[q])
      BY <1>6, <2>2 DEF Tabled
    <3>2. q # o
      BY <1>7, <3>1
    <3>3. c \in Chain(f, E[q])
      BY <1>5, <3>1, <3>2 DEF Kept
    <3> QED
      BY <1>6, <3>3 DEF Tabled
  <2> QED
    BY <2>1, <2>2
<1>9. n2 \in Mem /\ n2.fat = f /\ n2.free = m.free /\ Counted(n2)
  <2>1. n2 \in Mem /\ m \in Mem /\ Counted(n2) /\ Counted(m)
    BY <1>2, <1>4 DEF Holds
  <2>2. n2.fat \in Table /\ f \in Table
    BY <2>1 DEF Mem, f
  <2>3. n2.fat = f
    BY <1>8, <2>2 DEF Table
  <2> QED
    BY <2>1, <2>3 DEF Counted, f
<1>10. Apart(f, d, d)
  BY <1>1, BaseRight
<1>11. PICK x : Leads(n2, d, t, {}, full, x) /\ Apart(f, d, x)
  BY <1>1, <1>10 DEF Quiet
<1>12. Base(f, x, full)
  BY <1>1, <1>11, ApartRight
<1>13. Settled(n2, x, full)
  BY <1>9, <1>11, <1>12 DEF Settled, Base, Apart, f
<1>14. Begun(n2, d, t)
  <2>1. d.fat1 = f
    BY <1>1 DEF Base
  <2>2. Ordered(t) /\ ~OpensWith(t, "fat2") /\ Marked(t, n2.dirty)
    BY <1>1, OrderedPlain
  <2> QED
    BY <1>1, <1>9, <2>1, <2>2 DEF Begun
<1> QED
  BY <1>11, <1>13, <1>14 DEF Called, n2

LEMMA RunToRight ==
  ASSUME NEW f, NEW d, NEW nm, Slots(f, Root) \in Seq(Place), Runs(f, d, nm) # {},
         RunTo(f, d, nm)[1] \in Cluster
  PROVE  RunTo(f, d, nm) \in Place /\ Slots(f, Root)[RunStart(f, d, nm)] \in Place
<1> DEFINE from == Slots(f, Root)[RunStart(f, d, nm)]
<1>1. from \in Place
  BY RunRight
<1> HIDE DEF from
<1>2. RunTo(f, d, nm) = IF nm \in Long THEN After(from) ELSE from
  BY DEF RunTo, from
<1>3. RunTo(f, d, nm) \in Place
  BY <1>1, <1>2, AfterRight
<1> QED
  BY <1>1, <1>3 DEF from

LEMMA PutsPlain ==
  ASSUME NEW from \in Place, NEW to \in Place, NEW nm \in Name, NEW dir \in BOOLEAN,
         NEW first \in First
  PROVE  /\ LongPut(from, nm, first) \in Seq(Op) /\ Plain(LongPut(from, nm, first))
         /\ NamePut(to, nm, dir, first) \in Seq(Op) /\ Plain(NamePut(to, nm, dir, first))
<1>1. Entry(nm, dir, first, 0) \in Content /\ Lfn(nm) \in Content
  <2>1. 0 \in 0 .. MaxSize
    BY VolumeAssumption
  <2> QED
    BY <2>1 DEF Content, First
<1>2. /\ Put(from, Lfn(nm), first) \in Op /\ Put(from, Lfn(nm), first).op = "put"
      /\ Put(to, Entry(nm, dir, first, 0), first) \in Op
      /\ Put(to, Entry(nm, dir, first, 0), first).op = "put"
  BY <1>1 DEF Put, Op
<1>3. /\ <<Put(from, Lfn(nm), first)>> \in Seq(Op) /\ Plain(<<Put(from, Lfn(nm), first)>>)
      /\ NamePut(to, nm, dir, first) \in Seq(Op) /\ Plain(NamePut(to, nm, dir, first))
  BY <1>2, PlainOne DEF NamePut
<1>4. <<>> \in Seq(Op) /\ Plain(<<>>)
  BY DEF Plain
<1> QED
  BY <1>3, <1>4 DEF LongPut

\* The way through any table is found, and goes on for as long as the chain.
LEMMA WayExists ==
  ASSUME NEW f \in Table, NEW c \in Cluster
  PROVE  IsWay(CHOOSE w : IsWay(w, f, c), f, c)
<1> DEFINE S == Cluster \cup {FREE, EOC}
           K == N - 1
           next == [x \in S |-> IF x \in Cluster THEN f[x] ELSE EOC]
           g == [k \in 1 .. K |-> next]
<1>1. N \in Nat \ {0} /\ K \in Nat
  BY ClusterRight
<1>2. next \in [S -> S]
  BY DEF Table
<1>3. \A x \in S : next[x] = IF x \in Cluster THEN f[x] ELSE EOC
  OBVIOUS
<1> HIDE DEF next
<1>4. g \in Steps(K, S) /\ c \in S /\ \A k \in 1 .. K : g[k] = next
  BY <1>2 DEF Steps
<1> HIDE DEF S, g, K
<1>5. PICK r : IsRun(r, K, S, c, g)
  BY <1>1, <1>4, Iterated
<1> DEFINE v == [n \in 1 .. N |-> r[n - 1]]
<1>6. v[1] = c
  BY <1>1, <1>5 DEF IsRun
<1>7. ASSUME NEW n \in 1 .. N, n # 1
      PROVE  v[n] = IF v[n - 1] \in Cluster THEN f[v[n - 1]] ELSE EOC
  <2>1. n - 1 \in 1 .. K /\ (n - 1) - 1 \in 0 .. K /\ n - 1 \in 1 .. N
    BY <1>1, <1>7 DEF K
  <2>2. r[n - 1] = g[n - 1][r[(n - 1) - 1]] /\ r[(n - 1) - 1] \in S
    BY <1>5, <2>1 DEF IsRun
  <2>3. v[n] = r[n - 1] /\ v[n - 1] = r[(n - 1) - 1]
    BY <2>1
  <2> HIDE DEF v
  <2> QED
    BY <1>3, <1>4, <2>1, <2>2, <2>3
<1>8. v = [n \in 1 .. N |-> IF n = 1 THEN c ELSE IF v[n - 1] \in Cluster THEN f[v[n - 1]] ELSE EOC]
  <2>1. v = [n \in 1 .. N |-> v[n]]
    OBVIOUS
  <2> HIDE DEF v
  <2> QED
    BY <1>6, <1>7, <2>1
<1> HIDE DEF v
<1> QED
  BY <1>8 DEF IsWay

LEMMA ChainSeqRight ==
  ASSUME NEW f \in Table, NEW c \in Cluster
  PROVE  ChainSeq(f, c) \in Seq(Cluster) /\ ChainSeq(f, c) # <<>>
<1> DEFINE w == CHOOSE w : IsWay(w, f, c)
           C == Chain(f, c)
           L == Cardinality(C)
<1>1. IsWay(w, f, c)
  BY WayExists
<1>2. ChainSeq(f, c) = [n \in 1 .. L |-> w[n]]
  BY DEF ChainSeq, IsWay
<1> HIDE DEF w
<1>3. C \subseteq Cluster /\ IsFiniteSet(C) /\ L \in Nat /\ L <= N /\ N \in Nat \ {0}
  BY ChainType, ClusterRight, FS_Subset
<1>4. c \in C
  <2>1. PICK r : IsReach(r, f, c) /\ C = r[N]
    BY ChainReach
  <2> DEFINE T == {n \in 0 .. N : c \in r[n]}
  <2>2. 0 \in T
    BY <1>3, <2>1 DEF IsReach
  <2>3. ASSUME NEW n \in 1 .. N, n - 1 \in T PROVE n \in T
    <3>1. n \in 0 .. N /\ n # 0
      BY <1>3
    <3>2. r[n] = r[n - 1] \cup ({f[x] : x \in r[n - 1]} \cap Cluster)
      BY <2>1, <3>1 DEF IsReach
    <3> QED
      BY <2>3, <3>1, <3>2
  <2> HIDE DEF T
  <2>4. N \in T
    BY <1>3, <2>2, <2>3, UpTo
  <2> QED
    BY <2>1, <2>4 DEF T
<1>5. L # 0
  BY <1>3, <1>4, FS_EmptySet
<1> HIDE DEF L
<1>6. ASSUME NEW m \in 1 .. L, w[m] \notin Cluster PROVE FALSE
  <2> DEFINE Out == {n \in 1 .. L : w[n] \notin Cluster}
  <2>1. Out \in SUBSET Nat /\ Out # {}
    BY <1>6
  <2>2. PICK n \in Out : \A k \in Out : n <= k
    BY <2>1, LeastNat
  <2>3. n \in 1 .. L /\ n \in 1 .. N /\ w[n] \notin Cluster /\ \A k \in 1 .. n - 1 : w[k] \in Cluster
    BY <1>3, <2>2
  <2> HIDE DEF Out
  <2>4. w[1] = c /\ n # 1
    BY <1>1, <1>3, <2>3 DEF IsWay
  <2> DEFINE R == {w[k] : k \in 1 .. n - 1}
             X == Cluster \ R
  <2>5. R \subseteq Cluster /\ c \in R
    BY <2>3, <2>4
  <2>6. \A x \in Cluster \ X : f[x] \notin X
    <3> SUFFICES ASSUME NEW x \in R PROVE f[x] \in R \/ f[x] \notin Cluster
      OBVIOUS
    <3>1. PICK k \in 1 .. n - 1 : x = w[k]
      OBVIOUS
    <3>2. k + 1 \in 1 .. N /\ k + 1 # 1 /\ (k + 1) - 1 = k /\ w[k] \in Cluster
      BY <1>3, <2>3
    <3>3. w[k + 1] = f[x]
      BY <1>1, <3>1, <3>2 DEF IsWay
    <3>4. k + 1 \in 1 .. n - 1 \/ k + 1 = n
      BY <2>3
    <3> QED
      BY <2>3, <3>3, <3>4
  <2>7. C \subseteq R
    <3>1. c \notin X
      BY <2>5
    <3> HIDE DEF X
    <3>2. C \cap X = {}
      BY <2>6, <3>1, ReachOutside
    <3> QED
      BY <1>3, <3>2 DEF X
  <2>8. Cardinality(R) <= n - 1 /\ IsFiniteSet(R)
    <3> DEFINE e == [k \in 1 .. n - 1 |-> w[k]]
    <3>1. e \in Surjection(1 .. n - 1, R) /\ n - 1 \in Nat
      BY <2>3 DEF Surjection
    <3> HIDE DEF e, R
    <3>2. ExistsSurjection(1 .. n - 1, R)
      BY <3>1 DEF ExistsSurjection
    <3>3. IsFiniteSet(R)
      BY <2>5, ClusterRight, FS_Subset
    <3> QED
      BY <3>1, <3>2, <3>3, FS_SurjCardinalityBound
  <2> HIDE DEF R, C
  <2>9. L <= Cardinality(R) /\ Cardinality(R) \in Nat
    BY <2>7, <2>8, FS_Subset, FS_CardinalityType DEF L
  <2> QED
    BY <1>3, <2>3, <2>8, <2>9
<1> DEFINE p == [n \in 1 .. L |-> w[n]]
<1>7. p \in Seq(Cluster) /\ Len(p) = L
  BY <1>3, <1>6
<1>8. p # <<>>
  BY <1>3, <1>5, <1>7
<1> QED
  BY <1>2, <1>7, <1>8

LEMMA SlotsPlaces ==
  ASSUME NEW f \in Table
  PROVE  Slots(f, Root) \in Seq(Place)
<1>1. ChainSeq(f, Root) \in Seq(Cluster)
  BY ChainSeqRight, ClusterRight
<1> QED
  BY <1>1, SlotsType DEF SlotsAre

\* What a call needs of the memory it leaves, whatever the table is.
Changed(m, n) == n \in Mem /\ (n = m \/ n.dirty = TRUE)

LEMMA ExtendedType ==
  ASSUME NEW m \in Mem, NEW first \in First
  PROVE  /\ Changed(m, Extended(m, first).m) /\ Extended(m, first).first \in First
         /\ ~NoRoom(m) => Extended(m, first).m.dirty = TRUE
<1> DEFINE c == NextFree(m)
           a == AllocCluster(m)
           old == ChainSeq(m.fat, first)
           e == Extended(m, first)
<1>1. CASE NoRoom(m)
  <2>1. e = [m |-> m, first |-> first]
    BY <1>1 DEF Extended
  <2> QED
    BY <1>1, <2>1 DEF Changed
<1>2. CASE ~NoRoom(m)
  <2>1. c \in Cluster
    BY <1>2, NextFreeRight
  <2>2. a \in Mem /\ a.dirty = TRUE
    BY <1>2, AllocFields
  <2>3. e = IF first \notin Cluster THEN [m |-> a, first |-> c]
            ELSE [m |-> SetEntry(a, Last(old), c), first |-> first]
    BY <1>2 DEF Extended
  <2> HIDE DEF a, c, e
  <2>4. CASE first \notin Cluster
    BY <2>1, <2>2, <2>3, <2>4 DEF Changed, First, e
  <2>5. CASE first \in Cluster
    <3>1. old \in Seq(Cluster) /\ old # <<>>
      BY <2>5, ChainSeqRight DEF Mem
    <3> HIDE DEF old
    <3>2. Last(old) \in Cluster
      BY <3>1 DEF Last
    <3>3. IsSet(a, SetEntry(a, Last(old), c), Last(old), c)
      BY <2>1, <2>2, <3>2, SetEntryRight
    <3> QED
      BY <2>3, <2>5, <3>3 DEF Changed, IsSet, First, e
  <2> QED
    BY <2>4, <2>5 DEF e
<1> QED
  BY <1>1, <1>2

LEMMA UnfilledType ==
  ASSUME NEW m \in Mem, NEW first \in First
  PROVE  Changed(m, Unfilled(m, first))
<1>1. CASE NoRoom(m)
  BY <1>1 DEF Unfilled, Changed
<1>2. CASE ~NoRoom(m)
  <2> DEFINE c == NextFree(m)
             a == Extended(m, first).m
  <2>1. c \in Cluster
    BY <1>2, NextFreeRight
  <2>2. a \in Mem
    BY ExtendedType DEF Changed
  <2>3. Unfilled(m, first) = SetEntry(a, c, FREE)
    BY <1>2 DEF Unfilled
  <2> HIDE DEF c, a
  <2>4. IsSet(a, SetEntry(a, c, FREE), c, FREE)
    BY <2>1, <2>2, SetEntryRight
  <2> QED
    BY <2>3, <2>4 DEF IsSet, Changed
<1> QED
  BY <1>1, <1>2

LEMMA ChangedJoin ==
  ASSUME NEW m, NEW n, NEW k, Changed(m, n), Changed(n, k)
  PROVE  Changed(m, k)
  BY DEF Changed

LEMMA DottedType ==
  ASSUME NEW m \in Mem, NEW c \in Cluster, NEW no
  PROVE  LET a == Dotted(m, c, no) IN
         Changed(m, a.m) /\ a.todo \in Seq(Op) /\ Plain(a.todo)
<1> DEFINE x == NextFree(m)
           z == Zero(x)
           w == Put(<<x, 1>>, Dot, 0)
           a == Dotted(m, c, no)
<1>1. /\ a.m = (IF no THEN Unfilled(m, c) ELSE Extended(m, c).m)
      /\ a.todo = IF no \/ NoRoom(m) THEN <<>> ELSE <<z, w>>
  BY DEF Dotted
<1> HIDE DEF a
<1>2. Changed(m, a.m)
  <2>1. c \in First
    BY DEF First
  <2> QED
    BY <1>1, <2>1, UnfilledType, ExtendedType
<1>3. CASE no \/ NoRoom(m)
  BY <1>1, <1>2, <1>3 DEF a, Plain
<1>4. CASE ~(no \/ NoRoom(m))
  <2>1. x \in Cluster
    BY <1>4, NextFreeRight
  <2> HIDE DEF x
  <2>2. z \in Op /\ z.op = "zero" /\ w \in Op /\ w.op = "put"
    BY <2>1, DotOps
  <2> HIDE DEF z, w
  <2> DEFINE r == <<z, w>>
  <2>3. r \in Seq(Op) /\ Len(r) = 2 /\ r[1] = z /\ r[2] = w
    BY <2>2
  <2> HIDE DEF r
  <2>4. Plain(r)
    <3>1. \A k \in 1 .. Len(r) : k = 1 \/ k = 2
      BY <2>3
    <3> QED
      BY <2>2, <2>3, <3>1 DEF Plain
  <2>5. a.todo = r
    BY <1>1, <1>4 DEF r
  <2> QED
    BY <1>2, <2>3, <2>4, <2>5 DEF a
<1> QED
  BY <1>3, <1>4

LEMMA MadeDirType ==
  ASSUME NEW m \in Mem, ~NoRoom(m), NEW no
  PROVE  LET a == MadeDir(m, no) IN
         Changed(m, a.m) /\ a.first \in First /\ a.todo \in Seq(Op) /\ Plain(a.todo)
<1> DEFINE c == NextFree(m)
           d0 == AllocCluster(m)
           b1 == (no = ".")
           b2 == (no = "..")
           d1 == Dotted(d0, c, b1)
           d2 == Dotted(d1.m, c, b2)
           a == MadeDir(m, no)
<1>1. a.m = d2.m /\ a.first = c /\ a.todo = <<Zero(c)>> \o d1.todo \o d2.todo
  BY DEF MadeDir
<1> HIDE DEF a
<1>2. c \in Cluster
  BY NextFreeRight
<1>3. Changed(m, d0) /\ d0 \in Mem
  BY AllocFields DEF Changed
<1> HIDE DEF c, d0, b1, b2
<1>4. Changed(d0, d1.m) /\ d1.todo \in Seq(Op) /\ Plain(d1.todo)
  BY <1>2, <1>3, DottedType
<1> HIDE DEF d1
<1>5. d1.m \in Mem
  BY <1>4 DEF Changed
<1>6. Changed(d1.m, d2.m) /\ d2.todo \in Seq(Op) /\ Plain(d2.todo)
  <2> DEFINE n == d1.m
             e == Dotted(n, c, b2)
  <2>1. n \in Mem
    BY <1>5
  <2> HIDE DEF n
  <2>2. Changed(n, e.m) /\ e.todo \in Seq(Op) /\ Plain(e.todo)
    BY <1>2, <2>1, DottedType
  <2> HIDE DEF e
  <2>3. e = d2
    BY DEF n, e
  <2> QED
    BY <2>2, <2>3 DEF n
<1> HIDE DEF d2
<1>7. Changed(m, d2.m)
  BY <1>3, <1>4, <1>6, ChangedJoin
<1>8. <<Zero(c)>> \in Seq(Op) /\ Plain(<<Zero(c)>>)
  <2>1. Zero(c) \in Op /\ Zero(c).op = "zero"
    BY <1>2, DotOps
  <2> QED
    BY <2>1, PlainOne
<1>9. <<Zero(c)>> \o d1.todo \in Seq(Op) /\ Plain(<<Zero(c)>> \o d1.todo)
  BY <1>4, <1>8, PlainJoin
<1>10. (<<Zero(c)>> \o d1.todo) \o d2.todo \in Seq(Op) /\ Plain((<<Zero(c)>> \o d1.todo) \o d2.todo)
  BY <1>6, <1>9, PlainJoin
<1>11. a.todo \in Seq(Op) /\ Plain(a.todo)
  BY <1>1, <1>10
<1> QED
  BY <1>1, <1>2, <1>7, <1>11 DEF a, First

LEMMA AddType ==
  ASSUME NEW n \in Mem, NEW nm \in Name, NEW dir \in BOOLEAN, NEW first \in First,
         NEW add, add = AddEntry(n, nm, dir, first), add.ok, add.at[1] \in Cluster
  PROVE  /\ Changed(n, add.m) /\ add.at \in Place /\ add.stray \in BOOLEAN
         /\ add.todo \in Seq(Op) /\ Plain(add.todo)
<1>1. CASE Runs(n.fat, disk, nm) = {}
  <2> DEFINE c == NextFree(n)
             from == <<c, 1>>
             to == NewTo(c, nm)
             z == <<Zero(c)>>
             l == LongPut(from, nm, first)
             w == NamePut(to, nm, dir, first)
  <2>1. InNew(n, nm, dir, first, add)
    BY <1>1, AddNew
  <2>2. /\ ~NoRoom(n) /\ add.m = Extended(n, Root).m /\ add.at = to /\ add.stray = FALSE
        /\ add.todo = z \o l \o w
    BY <2>1 DEF InNew
  <2>3. c \in Cluster
    BY <2>2, NextFreeRight
  <2>4. from \in Place /\ to \in Place
    BY <2>3, NewPlaces
  <2>5. Changed(n, add.m)
    <3>1. Root \in First
      BY ClusterRight DEF First
    <3> QED
      BY <2>2, <3>1, ExtendedType
  <2>6. z \in Seq(Op) /\ Plain(z)
    <3>1. Zero(c) \in Op /\ Zero(c).op = "zero"
      BY <2>3, DotOps
    <3> QED
      BY <3>1, PlainOne
  <2> HIDE DEF from, to, z
  <2>7. l \in Seq(Op) /\ Plain(l) /\ w \in Seq(Op) /\ Plain(w)
    BY <2>4, PutsPlain
  <2> HIDE DEF l, w
  <2>8. z \o l \in Seq(Op) /\ Plain(z \o l)
    BY <2>6, <2>7, PlainJoin
  <2>9. (z \o l) \o w \in Seq(Op) /\ Plain((z \o l) \o w)
    BY <2>7, <2>8, PlainJoin
  <2> QED
    BY <2>2, <2>4, <2>5, <2>9
<1>2. CASE Runs(n.fat, disk, nm) # {}
  <2> DEFINE s == Slots(n.fat, Root)
             from == s[RunStart(n.fat, disk, nm)]
             to == RunTo(n.fat, disk, nm)
             l == LongPut(from, nm, first)
             w == NamePut(to, nm, dir, first)
  <2>1. InRun(n, nm, dir, first, add)
    BY <1>2, AddRun
  <2>2. /\ add.m = n /\ add.at = to /\ add.todo = <<>> \o l \o w
        /\ add.stray = (add.at # s[RunEnd(n.fat, disk, nm)])
    BY <2>1 DEF InRun
  <2>3. s \in Seq(Place)
    BY SlotsPlaces DEF Mem
  <2>4. from \in Place /\ to \in Place
    BY <1>2, <2>2, <2>3, RunToRight
  <2>5. Changed(n, add.m) /\ add.stray \in BOOLEAN
    BY <2>2 DEF Changed
  <2> HIDE DEF s, from, to
  <2>6. l \in Seq(Op) /\ Plain(l) /\ w \in Seq(Op) /\ Plain(w)
    BY <2>4, PutsPlain
  <2> HIDE DEF l, w
  <2>7. <<>> \o l = l
    BY <2>6
  <2>8. l \o w \in Seq(Op) /\ Plain(l \o w)
    BY <2>6, PlainJoin
  <2> QED
    BY <2>2, <2>4, <2>5, <2>7, <2>8
<1> QED
  BY <1>1, <1>2

\* The writes of a call, the flush and the end of it.
LEMMA BegunFlush ==
  ASSUME NEW m \in Mem, NEW d \in Disk, NEW p \in Seq(Op), Plain(p),
         ~m.dirty => d.fat1 = m.fat, NEW q, Closing(q)
  PROVE  Begun(m, d, p \o Flush(m.dirty) \o q)
<1>1. After1(q)
  <2>1. CASE q = <<>>
    BY <2>1 DEF After1
  <2>2. CASE q # <<>>
    <3>1. PICK w \in Op : q = <<w>> /\ w.op \in {"hold", "mount"}
      <4>1. CASE q = <<[op |-> "mount"]>>
        <5>1. [op |-> "mount"] \in Op
          BY DEF Op
        <5> QED
          BY <4>1, <5>1
      <4>2. ASSUME NEW h \in Handle, NEW n \in Held, q = <<Hold(h, n)>>
            PROVE  \E w \in Op : q = <<w>> /\ w.op \in {"hold", "mount"}
        <5>1. Hold(h, n) \in Op /\ Hold(h, n).op = "hold"
          BY DEF Hold, Op
        <5> QED
          BY <4>2, <5>1
      <4> QED
        BY <2>2, <4>1, <4>2 DEF Closing
    <3>2. q \in Seq(Op) /\ Len(q) = 1 /\ q[1] = w
      BY <3>1
    <3> QED
      BY <3>1, <3>2 DEF After1
  <2> QED
    BY <2>1, <2>2
<1> DEFINE r == p \o Flush(m.dirty) \o q
<1>2. m.dirty \in BOOLEAN
  BY DEF Mem
<1>3. r \in Seq(Op) /\ Ordered(r) /\ ~OpensWith(r, "fat2") /\ Marked(r, m.dirty)
  BY <1>1, <1>2, OrderedFlush
<1> HIDE DEF r
<1>4. Begun(m, d, r)
  BY <1>3 DEF Begun
<1> QED
  BY <1>4 DEF r

\* The entry of a name that leaves nothing astray.
LEMMA AddCalled ==
  ASSUME NEW m, NEW full, Settled(m, disk, full), NEW nm \in Name, NEW dir \in BOOLEAN,
         NEW n, NEW first, NEW t, AnyMade(m, disk, n, first, t, full),
         NEW add, add = AddEntry(n, nm, dir, first), add.ok, ~add.stray,
         NEW q, Closing(q)
  PROVE  Called(add.m, disk, t \o add.todo \o Flush(add.m.dirty) \o q, {add.at}, full)
<1>1. CASE Runs(n.fat, disk, nm) = {}
  BY <1>1, AddNewRight
<1>2. CASE Runs(n.fat, disk, nm) # {}
  BY <1>2, AddRunRight
<1> QED
  BY <1>1, <1>2

-----------------------------------------------------------------------------
(* The invariant                                                           *)

NodesOk ==
  /\ node \in [Handle -> Node]
  /\ \A h \in Handle : node[h] # NoNode => node[h].at \in Place

TypeInv ==
  /\ mem \in Mem /\ disk \in Disk /\ pending \in Seq(Op) /\ harm \subseteq Harm
  /\ NodesOk

\* A clean cache is the first copy; so it is when only the second is missing.
DirtyInv ==
  /\ Ordered(pending) /\ Marked(pending, mem.dirty)
  /\ (~mem.dirty => disk.fat1 = mem.fat)
  /\ OpensWith(pending, "fat2") => disk.fat1 = mem.fat

Full == "full" \in harm

\* What is left of a call leads to a volume at rest and harms, on the way, at
\* most the entry the call is about.
VolumeInv ==
  harm \subseteq {"full"} =>
    \E e : Leads(mem, disk, pending, busy, Full, e) /\ Settled(mem, e, Full)

CrashInv ==
  harm \subseteq {"full", "crash"} /\ "crash" \in harm =>
    pending = <<>> /\ Contained(disk, busy, Full)

IInv == TypeInv /\ DirtyInv /\ VolumeInv /\ CrashInv

LEMMA AtRest ==
  ASSUME IInv, pending = <<>>, harm \subseteq {"full"}
  PROVE  Settled(mem, disk, Full)
<1>1. PICK e : Leads(mem, disk, pending, busy, Full, e) /\ Settled(mem, e, Full)
  BY DEF IInv, VolumeInv
<1>2. pending \in Seq(Op)
  BY DEF IInv, TypeInv
<1>3. e = disk
  BY <1>1, <1>2, LeadsStart
<1> QED
  BY <1>1, <1>3

LEMMA AtIdle ==
  ASSUME IInv, Idle
  PROVE  pending = <<>> /\ harm \subseteq {"full"} /\ Settled(mem, disk, Full)
<1>1. pending = <<>> /\ harm \subseteq {"full"}
  BY DEF IInv, TypeInv, Idle, Harm
<1> QED
  BY <1>1, AtRest

LEMMA AfterCall ==
  ASSUME IInv, disk' = disk, NodesOk', harm' \subseteq Harm, "crash" \notin harm',
         Begun(mem', disk, pending'),
         harm' \subseteq {"full"} => Called(mem', disk, pending', busy', Full')
  PROVE  IInv'
<1>1. TypeInv'
  BY DEF IInv, TypeInv, Begun
<1>2. DirtyInv'
  BY DEF DirtyInv, Begun
<1>3. VolumeInv'
  BY DEF VolumeInv, Called
<1>4. CrashInv'
  BY DEF CrashInv
<1> QED
  BY <1>1, <1>2, <1>3, <1>4 DEF IInv

\* Only nodes change.
LEMMA AfterNode ==
  ASSUME IInv, UNCHANGED <<mem, disk, pending, busy, harm>>, NodesOk'
  PROVE  IInv'
BY DEF IInv, TypeInv, DirtyInv, VolumeInv, CrashInv, Full

\* The table is changed and marked, and its writes are still to come.
LEMMA PlainBegun ==
  ASSUME IInv, NEW n, Changed(mem, n), NEW p \in Seq(Op), Plain(p)
  PROVE  Begun(n, disk, p)
<1>1. ~mem.dirty => disk.fat1 = mem.fat
  BY DEF IInv, DirtyInv
<1>2. Ordered(p) /\ ~OpensWith(p, "fat2") /\ Marked(p, n.dirty)
  BY OrderedPlain
<1> QED
  BY <1>1, <1>2 DEF Begun, Changed

LEMMA FlushBegun ==
  ASSUME IInv, NEW n, Changed(mem, n), NEW p \in Seq(Op), Plain(p), NEW q, Closing(q)
  PROVE  Begun(n, disk, p \o Flush(n.dirty) \o q)
<1>1. ~mem.dirty => disk.fat1 = mem.fat
  BY DEF IInv, DirtyInv
<1>2. n \in Mem /\ disk \in Disk /\ (~n.dirty => disk.fat1 = n.fat)
  BY <1>1 DEF IInv, TypeInv, Changed
<1> QED
  BY <1>2, BegunFlush

LEMMA UpdateBegun ==
  ASSUME IInv, NEW n, Changed(mem, n), NEW w \in Op, w.op = "update"
  PROVE  Begun(n, disk, <<w>> \o Flush(n.dirty))
<1> DEFINE v == <<w>>
           g == Flush(n.dirty)
<1>1. v \in Seq(Op) /\ Plain(v)
  BY PlainOne
<1>2. Closing(<<>>) /\ g \in Seq(Op)
  BY FlushType DEF Closing
<1> HIDE DEF v
<1>3. Begun(n, disk, v \o g \o <<>>)
  BY <1>1, <1>2, FlushBegun
<1> HIDE DEF g
<1>4. v \o g \o <<>> = v \o g
  <2>1. v \o g \in Seq(Op)
    BY <1>1, <1>2, Joined
  <2> QED
    BY <2>1
<1> QED
  BY <1>3, <1>4 DEF v, g

LEMMA NoNodeRight ==
  NoNode \in Node /\ NoNode.at = <<0, 0>>
<1>1. 0 \in 0 .. MaxSize
  BY VolumeAssumption
<1> QED
  BY <1>1 DEF NoNode, Node, First

\* The node h holds is replaced.
LEMMA NodeSet ==
  ASSUME NodesOk, NEW h \in Handle, NEW n \in Node, n # NoNode => n.at \in Place,
         node' = [node EXCEPT ![h] = n]
  PROVE  NodesOk'
BY DEF NodesOk

LEMMA CompleteInit ==
  Init => IInv
<1> SUFFICES ASSUME Init PROVE IInv
  OBVIOUS
<1>1. PICK v \in Images :
        /\ disk = [fat1 |-> v.fat, fat2 |-> v.fat, ent |-> v.ent,
                   info |-> [next |-> 2, free |-> Cardinality({c \in Cluster : v.fat[c] = FREE})]]
        /\ mem = Mounted(disk) /\ node = [h \in Handle |-> NoNode]
        /\ pending = <<>> /\ busy = {} /\ harm = {}
  BY DEF Init
<1>2. v.fat \in Table /\ v.ent \in Contents /\ Consistent(v.fat, v) /\ Sized(v.fat, v)
  BY ImagesAssumption
<1> DEFINE left == {c \in Cluster : v.fat[c] = FREE}
           free == Cardinality(left)
           used == Used(v.fat)
<1>3. free \in Nat /\ free = N - Cardinality(used)
  <2>1. left \subseteq Cluster /\ used = Cluster \ left
    BY DEF Used
  <2>2. IsFiniteSet(Cluster) /\ Cardinality(Cluster) = N /\ N \in Nat
    BY ClusterRight
  <2> HIDE DEF left, used
  <2>3. IsFiniteSet(left) /\ Cluster \cap left = left
    BY <2>1, <2>2, FS_Subset
  <2>4. free \in Nat
    BY <2>3, FS_CardinalityType
  <2>5. Cardinality(Cluster \ left) = Cardinality(Cluster) - Cardinality(Cluster \cap left)
    BY <2>2, FS_Difference
  <2> QED
    BY <2>1, <2>2, <2>3, <2>4, <2>5
<1> HIDE DEF free
<1>4. disk.fat1 = v.fat /\ disk.fat2 = v.fat /\ disk.ent = v.ent /\ disk.info = [next |-> 2, free |-> free]
  BY <1>1 DEF free
<1>5. disk \in Disk
  BY <1>1, <1>2, <1>3 DEF Disk, Info, free
<1>6. /\ mem.fat = v.fat /\ mem.dirty = FALSE /\ mem.free = free /\ mem \in Mem
  BY <1>1, <1>2, <1>3, <1>4 DEF Mounted, Mem
<1>7. Consistent(v.fat, disk) /\ Sized(v.fat, disk)
  BY <1>2, <1>4, ConsistentSame
<1>8. Settled(mem, disk, Full)
  BY <1>3, <1>4, <1>5, <1>6, <1>7 DEF Settled, Counted
<1>9. Contained(disk, busy, Full)
  BY <1>8, SettledContained
<1>10. Leads(mem, disk, pending, busy, Full, disk)
  BY <1>1, <1>5, <1>9, LeadsNil
<1>11. VolumeInv
  BY <1>8, <1>10 DEF VolumeInv
<1>12. CrashInv
  BY <1>1 DEF CrashInv
<1>13. NodesOk
  BY <1>1, NoNodeRight DEF NodesOk
<1>14. pending \in Seq(Op) /\ Ordered(pending) /\ ~OpensWith(pending, "fat2")
       /\ Marked(pending, mem.dirty)
  BY <1>1 DEF Ordered, OpensWith, Marked
<1>15. TypeInv
  BY <1>1, <1>5, <1>6, <1>13, <1>14 DEF TypeInv
<1>16. DirtyInv
  BY <1>4, <1>6, <1>14 DEF DirtyInv
<1> QED
  BY <1>11, <1>12, <1>15, <1>16 DEF IInv

-----------------------------------------------------------------------------
(* The calls                                                               *)

LEMMA LookupStep ==
  ASSUME IInv, NEW h \in Handle, NEW nm, Lookup(h, nm)
  PROVE  IInv'
<1> DEFINE s == Find(mem.fat, disk, nm)
           n == [at |-> s, first |-> At(disk, s).first, size |-> At(disk, s).size, dirty |-> FALSE]
<1>1. Idle /\ s # <<0, 0>> /\ node' = [node EXCEPT ![h] = n]
      /\ UNCHANGED <<mem, disk, pending, busy, harm>>
  BY DEF Lookup
<1>2. Settled(mem, disk, Full)
  BY <1>1, AtIdle
<1>3. Slots(mem.fat, Root) \in Seq(Place) /\ disk.ent \in Contents
  BY <1>2, SettledRoot DEF IsSlots, Settled, Disk
<1>4. s \in Live(disk)
  <2>1. \E k : Found(mem.fat, disk, nm, s, k)
    BY <1>1, <1>3, FindRight
  <2> QED
    BY <2>1 DEF Found
<1> HIDE DEF s
<1>5. n \in Node /\ n.at \in Place
  BY <1>3, <1>4, EntryFields DEF Node
<1> HIDE DEF n
<1>6. NodesOk'
  BY <1>1, <1>5, NodeSet DEF IInv, TypeInv
<1> QED
  BY <1>1, <1>6, AfterNode

\* What is ready when create writes the entry.
LEMMA BeginRight ==
  ASSUME IInv, Idle, NEW type \in {"file", "dir"}, type = "dir" => ~NoRoom(mem), NEW no
  PROVE  LET made == Begin(type, no) IN
         /\ Changed(mem, made.m) /\ made.first \in First
         /\ made.todo \in Seq(Op) /\ Plain(made.todo)
         /\ no = "none" => AnyMade(mem, disk, made.m, made.first, made.todo, Full)
<1> DEFINE made == Begin(type, no)
<1>1. Settled(mem, disk, Full) /\ mem \in Mem
  BY AtIdle DEF IInv, TypeInv
<1>2. CASE type = "dir"
  <2>1. made = MadeDir(mem, no) /\ ~NoRoom(mem)
    BY <1>2 DEF Begin
  <2>2. /\ Changed(mem, made.m) /\ made.first \in First
        /\ made.todo \in Seq(Op) /\ Plain(made.todo)
    BY <1>1, <2>1, MadeDirType
  <2>3. ASSUME no = "none", NEW o, o \notin DOMAIN Firsts(disk)
        PROVE  Made(mem, disk, o, made.m, made.first, made.todo, Full)
    BY <1>1, <2>1, <2>3, MadeDirRight
  <2> QED
    BY <2>2, <2>3 DEF AnyMade
<1>3. CASE type # "dir"
  <2>1. made.m = mem /\ made.first = 0 /\ made.todo = <<>>
    BY <1>3 DEF Begin
  <2>2. Changed(mem, mem) /\ 0 \in First /\ <<>> \in Seq(Op) /\ Plain(<<>>)
    BY <1>1 DEF Changed, First, Plain
  <2>3. ASSUME NEW o, o \notin DOMAIN Firsts(disk)
        PROVE  Made(mem, disk, o, mem, 0, <<>>, Full)
    BY <1>1, <2>3, MadeFile
  <2> HIDE DEF made
  <2>4. AnyMade(mem, disk, made.m, made.first, made.todo, Full)
    BY <2>1, <2>3 DEF AnyMade
  <2> QED
    BY <2>1, <2>2, <2>4 DEF made
<1> QED
  BY <1>2, <1>3

LEMMA FinishStep ==
  ASSUME IInv, Idle, NEW h \in Handle, NEW nm \in Name, NEW type \in {"file", "dir"},
         NEW made, Changed(mem, made.m), made.first \in First,
         made.todo \in Seq(Op), Plain(made.todo),
         NEW event, event \subseteq {"nomem"},
         event = {} => AnyMade(mem, disk, made.m, made.first, made.todo, Full),
         Finish(h, nm, type, made, event), node' = node
  PROVE  IInv'
<1> DEFINE dir == type = "dir"
           a == AddEntry(made.m, nm, dir, made.first)
           new == [NoNode EXCEPT !.at = a.at, !.first = made.first]
           t == made.todo
           Todo(q) == t \o a.todo \o Flush(a.m.dirty) \o q
<1>1. /\ disk' = disk
      /\ IF a.ok
         THEN /\ a.at[1] \in Cluster
              /\ \E q \in {<<>>, <<Hold(h, new)>>} : pending' = Todo(q)
              /\ mem' = a.m /\ busy' = {a.at}
              /\ harm' = harm \cup event \cup (IF a.stray THEN {"stray"} ELSE {})
         ELSE /\ mem' = FreeChain(made.m, made.first) /\ pending' = t /\ busy' = {}
              /\ harm' = harm \cup event
  BY DEF Finish, Call
<1>2. /\ Settled(mem, disk, Full) /\ harm \subseteq {"full"} /\ mem \in Mem /\ made.m \in Mem
  BY AtIdle DEF IInv, TypeInv, Changed
<1>3. dir \in BOOLEAN
  OBVIOUS
<1>4. NodesOk'
  BY <1>1 DEF IInv, TypeInv, NodesOk
<1>5. event = {} \/ event = {"nomem"}
  OBVIOUS
<1> HIDE DEF dir
<1>6. CASE a.ok
  <2> DEFINE b == a
  <2> HIDE DEF b
  <2>1. b = AddEntry(made.m, nm, dir, made.first) /\ b.ok /\ b.at[1] \in Cluster
    BY <1>1, <1>6 DEF b
  <2>2. /\ Changed(made.m, b.m) /\ b.at \in Place /\ b.stray \in BOOLEAN
        /\ b.todo \in Seq(Op) /\ Plain(b.todo)
    BY <1>2, <1>3, <2>1, AddType
  <2>3. new \in Held
    <3>1. 0 \in 0 .. MaxSize
      BY VolumeAssumption
    <3> QED
      BY <2>2, <3>1 DEF NoNode, Node, Held, b
  <2>4. PICK q \in {<<>>, <<Hold(h, new)>>} : pending' = Todo(q)
    BY <1>1, <1>6
  <2>5. Closing(q)
    <3> HIDE DEF new
    <3> QED
      BY <2>3 DEF Closing
  <2> DEFINE p == t \o b.todo \o Flush(b.m.dirty) \o q
  <2>6. /\ mem' = b.m /\ pending' = p /\ busy' = {b.at}
        /\ harm' = harm \cup event \cup (IF b.stray THEN {"stray"} ELSE {})
    BY <1>1, <1>6, <2>4 DEF b
  <2>7. Begun(b.m, disk, p)
    <3>1. Changed(mem, b.m)
      BY <2>2, ChangedJoin
    <3>2. t \o b.todo \in Seq(Op) /\ Plain(t \o b.todo)
      BY <2>2, PlainJoin
    <3> DEFINE tt == t \o b.todo
    <3> HIDE DEF tt
    <3>3. Begun(b.m, disk, tt \o Flush(b.m.dirty) \o q)
      BY <2>5, <3>1, <3>2, FlushBegun DEF tt
    <3>4. b.m \in Mem
      BY <3>1 DEF Changed
    <3>5. Flush(b.m.dirty) \in Seq(Op)
      BY FlushType
    <3> QED
      BY <3>3 DEF tt
  <2>8. harm' \subseteq Harm /\ "crash" \notin harm'
    BY <1>2, <1>5, <2>6 DEF Harm
  <2>9. ASSUME harm' \subseteq {"full"} PROVE Called(mem', disk, pending', busy', Full')
    <3>1. ~b.stray /\ event = {} /\ Full' = Full
      BY <1>5, <2>6, <2>9 DEF Full
    <3>2. AnyMade(mem, disk, made.m, made.first, t, Full)
      BY <3>1
    <3>3. Called(b.m, disk, p, {b.at}, Full)
      BY <1>2, <1>3, <2>1, <2>5, <3>1, <3>2, AddCalled
    <3> HIDE DEF p
    <3> QED
      BY <2>6, <3>1, <3>3
  <2> HIDE DEF p
  <2>10. Begun(mem', disk, pending')
    BY <2>6, <2>7
  <2> QED
    BY <1>1, <1>4, <2>8, <2>9, <2>10, AfterCall
<1>7. CASE ~a.ok
  <2>1. mem' = FreeChain(made.m, made.first) /\ pending' = t /\ busy' = {}
        /\ harm' = harm \cup event
    BY <1>1, <1>7
  <2>2. Begun(mem', disk, pending')
    <3>1. Changed(made.m, FreeChain(made.m, made.first))
      BY <1>2, FreeChainType DEF Changed
    <3>2. Changed(mem, FreeChain(made.m, made.first))
      BY <3>1, ChangedJoin
    <3> QED
      BY <2>1, <3>2, PlainBegun
  <2>3. harm' \subseteq Harm /\ "crash" \notin harm'
    BY <1>2, <1>5, <2>1 DEF Harm
  <2>4. ASSUME harm' \subseteq {"full"} PROVE Called(mem', disk, pending', busy', Full')
    <3>1. event = {} /\ Full' = Full
      BY <1>5, <2>1, <2>4 DEF Full
    <3>2. Called(FreeChain(made.m, made.first), disk, t, {}, Full)
      BY <1>2, <3>1, FailRight
    <3> QED
      BY <2>1, <3>1, <3>2
  <2> QED
    BY <1>1, <1>4, <2>2, <2>3, <2>4, AfterCall
<1> QED
  BY <1>6, <1>7

LEMMA CreateStep ==
  ASSUME IInv, NEW h \in Handle, NEW nm \in Name, NEW type \in {"file", "dir"},
         Create(h, nm, type)
  PROVE  IInv'
<1> DEFINE made == Begin(type, "none")
<1>1. /\ Idle /\ (type = "dir" => ~NoRoom(mem)) /\ Finish(h, nm, type, made, {}) /\ node' = node
  BY DEF Create
<1>2. /\ Changed(mem, made.m) /\ made.first \in First
      /\ made.todo \in Seq(Op) /\ Plain(made.todo)
      /\ AnyMade(mem, disk, made.m, made.first, made.todo, Full)
  BY <1>1, BeginRight
<1> HIDE DEF made
<1> QED
  BY <1>1, <1>2, FinishStep

\* A call that gets no buffer after it has taken a cluster.
LEMMA AfterNoMem ==
  ASSUME IInv, Idle, NEW n, Changed(mem, n), NEW p \in Seq(Op), Plain(p), NEW b,
         Call(n, p, b), harm' = harm \cup {"nomem"}, NodesOk'
  PROVE  IInv'
<1>1. disk' = disk /\ mem' = n /\ pending' = p
  BY DEF Call
<1>2. Begun(mem', disk, pending')
  BY <1>1, PlainBegun
<1>3. harm \subseteq {"full"}
  BY AtIdle
<1>4. harm' \subseteq Harm /\ "crash" \notin harm' /\ ~(harm' \subseteq {"full"})
  BY <1>3 DEF Harm
<1> QED
  BY <1>1, <1>2, <1>4, AfterCall

LEMMA CreateNoMemStep ==
  ASSUME IInv, NEW h \in Handle, NEW nm \in Name, NEW type \in {"file", "dir"},
         CreateNoMem(h, nm, type)
  PROVE  IInv'
<1> DEFINE made == Begin(type, "none")
           c == NextFree(mem)
           lone == SetEntry(AllocCluster(mem), c, FREE)
           left == FreeChain(Unfilled(made.m, Root), made.first)
<1>1. Idle /\ (type = "dir" => ~NoRoom(mem)) /\ node' = node
  BY DEF CreateNoMem
<1>2. \/ type = "dir" /\ Call(lone, <<>>, {}) /\ harm' = harm \cup {"nomem"}
      \/ \E no \in {".", ".."} : Finish(h, nm, type, Begin(type, no), {"nomem"})
      \/ Call(left, made.todo, {}) /\ harm' = harm \cup {"nomem"}
  BY DEF CreateNoMem
<1>3. mem \in Mem /\ NodesOk'
  BY <1>1 DEF IInv, TypeInv, NodesOk
<1>4. CASE type = "dir" /\ Call(lone, <<>>, {}) /\ harm' = harm \cup {"nomem"}
  <2>1. c \in Cluster /\ AllocCluster(mem) \in Mem
    BY <1>1, <1>3, <1>4, NextFreeRight, AllocFields
  <2> HIDE DEF c
  <2>2. IsSet(AllocCluster(mem), lone, c, FREE)
    BY <2>1, SetEntryRight
  <2> HIDE DEF lone
  <2>3. Changed(mem, lone)
    BY <2>2 DEF Changed, IsSet
  <2>4. <<>> \in Seq(Op) /\ Plain(<<>>)
    BY DEF Plain
  <2> QED
    BY <1>1, <1>3, <1>4, <2>3, <2>4, AfterNoMem
<1>5. CASE \E no \in {".", ".."} : Finish(h, nm, type, Begin(type, no), {"nomem"})
  <2>1. PICK no \in {".", ".."} : Finish(h, nm, type, Begin(type, no), {"nomem"})
    BY <1>5
  <2> DEFINE m == Begin(type, no)
  <2>2. /\ Changed(mem, m.m) /\ m.first \in First /\ m.todo \in Seq(Op) /\ Plain(m.todo)
    BY <1>1, BeginRight
  <2>3. Finish(h, nm, type, m, {"nomem"})
    BY <2>1
  <2> HIDE DEF m
  <2> DEFINE event == {"nomem"}
  <2>4. event \subseteq {"nomem"} /\ event # {} /\ Finish(h, nm, type, m, event)
    BY <2>3
  <2> HIDE DEF event
  <2> QED
    BY <1>1, <2>2, <2>4, FinishStep
<1>6. CASE Call(left, made.todo, {}) /\ harm' = harm \cup {"nomem"}
  <2>1. /\ Changed(mem, made.m) /\ made.first \in First
        /\ made.todo \in Seq(Op) /\ Plain(made.todo)
    BY <1>1, BeginRight
  <2> HIDE DEF made
  <2>2. Root \in First /\ made.m \in Mem
    BY <2>1, ClusterRight DEF First, Changed
  <2> DEFINE u == Unfilled(made.m, Root)
  <2>3. Changed(made.m, u)
    BY <2>2, UnfilledType
  <2>4. u \in Mem
    BY <2>3 DEF Changed
  <2> HIDE DEF u
  <2>5. Changed(u, FreeChain(u, made.first))
    BY <2>4, FreeChainType DEF Changed
  <2>6. Changed(mem, FreeChain(u, made.first))
    BY <2>1, <2>3, <2>5, ChangedJoin
  <2>7. Changed(mem, left)
    BY <2>6 DEF u
  <2> HIDE DEF left
  <2> QED
    BY <1>1, <1>3, <1>6, <2>1, <2>7, AfterNoMem
<1> QED
  BY <1>2, <1>4, <1>5, <1>6

\* The node h holds and its entry agree; the volume is at rest.
LEMMA AgreesRight ==
  ASSUME IInv, Idle, NEW h \in Handle, Agrees(h)
  PROVE  /\ node[h] \in Node /\ node[h].at \in Live(disk)
         /\ At(disk, node[h].at).first = node[h].first
         /\ At(disk, node[h].at).size = node[h].size
<1>1. node[h] \in Node /\ node[h].at \in Place
  BY DEF IInv, TypeInv, NodesOk, Agrees
<1> QED
  BY <1>1 DEF Agrees, Live

\* Save, once its new table, first cluster and size are known to be right.
LEMMA SaveStep ==
  ASSUME IInv, Idle, NEW h \in Handle, Agrees(h), NEW m, NEW first \in First,
         NEW size \in 0 .. MaxSize, Save(h, m, first, size),
         \A more : (Full => more) /\ Fits(m, first, size, more)
                     => Saved(mem, m, disk, node[h].at, first, size, more)
  PROVE  IInv'
<1> DEFINE s == node[h].at
           full == IF size > Cardinality(Chain(m.fat, first)) THEN {"full"} ELSE {}
           far == Far(s)
           n == [node[h] EXCEPT !.first = first, !.size = size, !.dirty = TRUE]
           w == Update(Packed(s), first, size)
           p == <<w>> \o Flush(m.dirty)
<1>1. /\ node' = [node EXCEPT ![h] = n] /\ mem' = m /\ pending' = p /\ busy' = {s}
      /\ disk' = disk /\ harm' = harm \cup far \cup full
  BY DEF Save, Call
<1>2. Settled(mem, disk, Full) /\ harm \subseteq {"full"}
  BY AtIdle
<1>3. node[h] \in Node /\ s \in Live(disk) /\ s \in Place
  BY AgreesRight DEF Live
<1>4. NodesOk'
  <2>1. n \in Node /\ n.at = s
    BY <1>3 DEF Node
  <2> HIDE DEF n, s
  <2> QED
    BY <1>1, <1>3, <2>1, NodeSet DEF IInv, TypeInv
<1>5. /\ far = {} \/ far = {"far"}
      /\ far = {} => Packed(s) = s
      /\ full = {} \/ full = {"full"}
  BY DEF Far
<1>6. Fits(m, first, size, Full')
  <2>1. full = {} => size <= Cardinality(Chain(m.fat, first))
    BY ChainType
  <2> HIDE DEF full, far
  <2>2. full = {"full"} => Full'
    BY <1>1 DEF Full
  <2> QED
    BY <1>5, <2>1, <2>2 DEF Fits
<1> HIDE DEF s, n, far, full
<1>7. Full => Full'
  BY <1>1 DEF Full
<1>8. Saved(mem, m, disk, s, first, size, Full')
  BY <1>6, <1>7 DEF s
<1>9. Begun(m, disk, p)
  <2>1. Changed(mem, m)
    BY <1>8 DEF Saved, Holds, Changed
  <2>2. w \in Op /\ w.op = "update"
    BY <1>3, UpdateRight
  <2> HIDE DEF w
  <2> QED
    BY <2>1, <2>2, UpdateBegun
<1>10. ASSUME far = {} PROVE Called(m, disk, p, {s}, Full')
  <2>1. Settled(mem, disk, Full')
    BY <1>2, <1>7, MoreSettled
  <2>2. Called(m, disk, <<Update(s, first, size)>> \o Flush(m.dirty), {s}, Full')
    BY <1>3, <1>8, <2>1, SaveRight
  <2>3. Packed(s) = s
    BY <1>5, <1>10
  <2> QED
    BY <2>2, <2>3
<1> HIDE DEF p
<1>11. harm' \subseteq {"full"} => Called(mem', disk, pending', busy', Full')
  BY <1>1, <1>5, <1>10
<1>12. Begun(mem', disk, pending')
  BY <1>1, <1>9
<1>13. harm' \subseteq Harm /\ "crash" \notin harm'
  BY <1>1, <1>2, <1>5 DEF Harm
<1> QED
  BY <1>1, <1>4, <1>11, <1>12, <1>13, AfterCall

LEMMA MaxOfTwo ==
  ASSUME NEW a \in Int, NEW b \in Int
  PROVE  Max({a, b}) = IF a >= b THEN a ELSE b
<1> DEFINE x == Max({a, b})
<1>1. x = CHOOSE y \in {a, b} : \A z \in {a, b} : y >= z
  BY DEF Max
<1> DEFINE k == IF a >= b THEN a ELSE b
<1>2. k \in {a, b} /\ \A z \in {a, b} : k >= z
  OBVIOUS
<1>3. x \in {a, b} /\ \A z \in {a, b} : x >= z
  BY <1>1, <1>2
<1> HIDE DEF x
<1>4. x = k
  BY <1>2, <1>3
<1> QED
  BY <1>4 DEF x

LEMMA WriteStep ==
  ASSUME IInv, NEW h \in Handle, NEW o \in 0 .. MaxSize - 1, NEW n \in 1 .. MaxSize - o,
         Write(h, o, n)
  PROVE  IInv'
<1> DEFINE g == Grown(mem, node[h].first, o + n)
           room == Cardinality(Chain(g.m.fat, g.first))
           written == IF room > o THEN Min({n, room - o}) ELSE 0
           size == Max({node[h].size, o + written})
<1>1. Idle /\ Agrees(h) /\ Save(h, g.m, g.first, size)
  BY DEF Write
<1>2. /\ node[h] \in Node /\ node[h].at \in Live(disk)
      /\ At(disk, node[h].at).first = node[h].first
  BY <1>1, AgreesRight
<1>3. Settled(mem, disk, Full)
  BY <1>1, AtIdle
<1>4. room \in Nat
  BY ChainType
<1> HIDE DEF room
<1>5. written \in 0 .. n
  <2>1. CASE room > o
    <3> DEFINE S == {n, room - o}
               x == Min(S)
    <3>1. S \subseteq Nat /\ S # {}
      BY <1>4, <2>1
    <3>2. x \in S /\ \A y \in S : x <= y
      BY <3>1, MinRight
    <3>3. n \in S /\ written = x
      BY <2>1
    <3> HIDE DEF x
    <3>4. x \in Nat /\ x <= n
      BY <3>1, <3>2, <3>3
    <3> HIDE DEF written
    <3> QED
      BY <3>3, <3>4
  <2>2. CASE ~(room > o)
    BY <2>2
  <2> QED
    BY <2>1, <2>2
<1> HIDE DEF written
<1>6. size \in 0 .. MaxSize
  <2>1. node[h].size \in 0 .. MaxSize /\ o + written \in 0 .. MaxSize /\ MaxSize \in Nat
    BY <1>2, <1>5, VolumeAssumption DEF Node
  <2> DEFINE a == node[h].size
             b == o + written
  <2> HIDE DEF a, b
  <2>2. Max({a, b}) = IF a >= b THEN a ELSE b
    BY <2>1, MaxOfTwo DEF a, b
  <2>3. Max({a, b}) \in 0 .. MaxSize
    BY <2>1, <2>2 DEF a, b
  <2> QED
    BY <2>3 DEF a, b
<1> HIDE DEF size
<1>7. ASSUME NEW more, Full => more, Fits(g.m, g.first, size, more)
      PROVE  Saved(mem, g.m, disk, node[h].at, g.first, size, more)
  <2> DEFINE s == node[h].at
             k == o + n
  <2>1. g = Grown(mem, At(disk, s).first, k)
    BY <1>2
  <2> HIDE DEF g, s, k
  <2> QED
    BY <1>2, <1>3, <1>7, <2>1, GrownSaved DEF s
<1>8. g.first \in First
  <2> DEFINE s == node[h].at
             k == o + n
  <2>1. g = Grown(mem, At(disk, s).first, k)
    BY <1>2
  <2>2. Fits(g.m, g.first, size, TRUE)
    BY DEF Fits
  <2> HIDE DEF g, s, k
  <2> QED
    BY <1>2, <1>3, <2>1, <2>2, GrownSaved DEF s
<1> HIDE DEF g
<1> QED
  BY <1>1, <1>6, <1>7, <1>8, SaveStep

LEMMA WriteNoMemStep ==
  ASSUME IInv, NEW h \in Handle, NEW o \in 0 .. MaxSize - 1, WriteNoMem(h, o)
  PROVE  IInv'
<1> DEFINE s == node[h].at
           k == o + 1
           g == Grown(mem, node[h].first, k)
           n == [node[h] EXCEPT !.first = g.first]
<1>1. /\ Idle /\ Agrees(h) /\ node' = [node EXCEPT ![h].first = g.first]
      /\ Call(g.m, <<>>, {}) /\ harm' = harm \cup {"nomem"}
  BY DEF WriteNoMem
<1>2. /\ node[h] \in Node /\ s \in Live(disk) /\ s \in Place
      /\ At(disk, s).first = node[h].first
  BY <1>1, AgreesRight DEF Live
<1>3. Settled(mem, disk, Full) /\ NodesOk
  BY <1>1, AtIdle DEF IInv, TypeInv
<1>4. n \in [at : Place \cup {<<0, 0>>}, first : {g.first}, size : 0 .. MaxSize, dirty : BOOLEAN]
      /\ n.at = s /\ node' = [node EXCEPT ![h] = n]
  BY <1>1, <1>2, <1>3 DEF Node, NodesOk
<1>5. g = Grown(mem, At(disk, s).first, k)
  BY <1>2
<1> HIDE DEF g, k, n
<1>6. Fits(g.m, g.first, 0, TRUE)
  BY DEF Fits
<1> HIDE DEF s
<1>7. Saved(mem, g.m, disk, s, g.first, 0, TRUE) /\ g.first \in First
  BY <1>2, <1>3, <1>5, <1>6, GrownSaved
<1>8. Changed(mem, g.m)
  BY <1>7 DEF Saved, Holds, Changed
<1>9. NodesOk'
  <2>1. n \in Node
    BY <1>4, <1>7 DEF Node
  <2> QED
    BY <1>2, <1>3, <1>4, <2>1, NodeSet
<1>10. <<>> \in Seq(Op) /\ Plain(<<>>)
  BY DEF Plain
<1> QED
  BY <1>1, <1>8, <1>9, <1>10, AfterNoMem

LEMMA TruncateStep ==
  ASSUME IInv, NEW h \in Handle, NEW size \in 0 .. MaxSize, Truncate(h, size)
  PROVE  IInv'
<1> DEFINE s == node[h].at
           c == node[h].first
<1>1. Idle /\ Agrees(h)
  BY DEF Truncate
<1>2. node[h] \in Node /\ s \in Live(disk) /\ At(disk, s).first = c /\ c \in First
  BY <1>1, AgreesRight DEF Node
<1>3. Settled(mem, disk, Full)
  BY <1>1, AtIdle
<1>4. 0 \in First /\ 0 \in 0 .. MaxSize
  BY VolumeAssumption DEF First
<1>5. CASE size = 0 /\ Save(h, FreeChain(mem, c), 0, 0)
  <2> DEFINE n == FreeChain(mem, c)
  <2>1. n = FreeChain(mem, At(disk, s).first)
    BY <1>2
  <2> HIDE DEF n, s
  <2>2. \A more : Saved(mem, n, disk, s, 0, 0, more)
    BY <1>2, <1>3, <2>1, FreeSaved
  <2> QED
    BY <1>1, <1>4, <1>5, <2>2, SaveStep DEF n, s
<1>6. CASE size > 0 /\ size < node[h].size /\ Save(h, Cut(mem, c, size), c, size)
  <2> DEFINE n == Cut(mem, c, size)
  <2>1. n = Cut(mem, At(disk, s).first, size) /\ size \in Nat \ {0}
    BY <1>2, <1>6
  <2> HIDE DEF n, s, c
  <2>2. ASSUME NEW more, Full => more, Fits(n, c, size, more)
        PROVE  Saved(mem, n, disk, s, c, size, more)
    <3>1. Fits(n, At(disk, s).first, size, more)
      BY <1>2, <2>2
    <3>2. Saved(mem, n, disk, s, At(disk, s).first, size, more)
      BY <1>2, <1>3, <2>1, <3>1, CutSaved
    <3> QED
      BY <1>2, <3>2
  <2>3. Save(h, n, c, size)
    BY <1>6 DEF n, c
  <2> QED
    BY <1>1, <1>2, <2>2, <2>3, SaveStep DEF s
<1>7. ASSUME NEW g, g = Grown(mem, c, size), Save(h, g.m, g.first, size)
      PROVE  IInv'
  <2>1. g = Grown(mem, At(disk, s).first, size)
    BY <1>2, <1>7
  <2> HIDE DEF s, c
  <2>2. ASSUME NEW more, Full => more, Fits(g.m, g.first, size, more)
        PROVE  Saved(mem, g.m, disk, s, g.first, size, more)
    BY <1>2, <1>3, <2>1, <2>2, GrownSaved
  <2>3. g.first \in First
    <3>1. Fits(g.m, g.first, size, TRUE)
      BY DEF Fits
    <3> QED
      BY <1>2, <1>3, <2>1, <3>1, GrownSaved
  <2> QED
    BY <1>1, <1>7, <2>2, <2>3, SaveStep DEF s
<1>8. \/ size = 0 /\ Save(h, FreeChain(mem, c), 0, 0)
      \/ size > 0 /\ size < node[h].size /\ Save(h, Cut(mem, c, size), c, size)
      \/ LET g == Grown(mem, c, size) IN Save(h, g.m, g.first, size)
  BY DEF Truncate
<1> QED
  BY <1>5, <1>6, <1>7, <1>8

LEMMA UnlinkStep ==
  ASSUME IInv, NEW nm \in Name, Unlink(nm)
  PROVE  IInv'
<1> DEFINE s == Find(mem.fat, disk, nm)
           n == FreeChain(mem, At(disk, s).first)
           slots == Slots(mem.fat, Root)
           k == CHOOSE k \in DOMAIN slots : slots[k] = s
           from == IF nm \in Long THEN slots[k - 1] ELSE s
           p == Deletes(from, s) \o Flush(n.dirty)
<1>1. /\ Idle /\ s # <<0, 0>> /\ disk' = disk /\ node' = node /\ harm' = harm
      /\ mem' = n /\ pending' = p /\ busy' = {s}
  BY DEF Unlink, Call
<1>2. Settled(mem, disk, Full) /\ harm \subseteq {"full"}
  BY <1>1, AtIdle
<1>3. Called(n, disk, p, {s}, Full)
  BY <1>1, <1>2, UnlinkRight
<1>4. Full' = Full
  BY <1>1 DEF Full
<1> HIDE DEF s, n, slots, k, p
<1>5. Called(mem', disk, pending', busy', Full')
  BY <1>1, <1>3, <1>4
<1>6. Begun(mem', disk, pending')
  BY <1>5 DEF Called
<1>7. NodesOk'
  BY <1>1 DEF IInv, TypeInv, NodesOk
<1>8. harm' \subseteq Harm /\ "crash" \notin harm'
  BY <1>1, <1>2 DEF Harm
<1> QED
  BY <1>1, <1>5, <1>6, <1>7, <1>8, AfterCall

\* The entry of a node is written again: when the two agree nothing changes.
LEMMA WriteBackStep ==
  ASSUME IInv, pending = <<>>, harm \subseteq {"io", "full"}, NEW h \in Handle,
         node[h] # NoNode, WriteBack(h), NodesOk'
  PROVE  IInv'
<1> DEFINE s == node[h].at
           first == node[h].first
           size == node[h].size
           w == Update(Packed(s), first, size)
           far == Far(s)
           stale == IF Agrees(h) THEN {} ELSE {"stale"}
           p == <<w>> \o Flush(mem.dirty)
<1>1. CASE ~node[h].dirty
  <2>1. UNCHANGED <<mem, disk, pending, busy, harm>>
    BY <1>1 DEF WriteBack
  <2> QED
    BY <2>1, AfterNode
<1>2. CASE node[h].dirty
  <2>1. /\ mem' = mem /\ disk' = disk /\ pending' = p /\ busy' = {s}
        /\ harm' = harm \cup far \cup stale
    BY <1>2 DEF WriteBack, Call
  <2>2. /\ node[h] \in Node /\ s \in Place /\ mem \in Mem
        /\ ~mem.dirty => disk.fat1 = mem.fat
    BY DEF IInv, TypeInv, NodesOk, DirtyInv
  <2>3. first \in First /\ size \in 0 .. MaxSize /\ mem.dirty \in BOOLEAN
    BY <2>2 DEF Node, Mem
  <2>4. Begun(mem, disk, p)
    <3>1. w \in Op /\ w.op = "update"
      BY <2>2, <2>3, UpdateRight
    <3>2. Changed(mem, mem)
      BY <2>2 DEF Changed
    <3> HIDE DEF w
    <3> QED
      BY <3>1, <3>2, UpdateBegun
  <2>5. /\ far = {} \/ far = {"far"}
        /\ far = {} => Packed(s) = s
        /\ stale = {} \/ stale = {"stale"}
        /\ stale = {} => Agrees(h)
    BY DEF Far
  <2> HIDE DEF far, stale
  <2>6. ASSUME harm' \subseteq {"full"} PROVE Called(mem', disk, pending', busy', Full')
    <3>1. Agrees(h) /\ Packed(s) = s /\ harm \subseteq {"full"} /\ Full' = Full
      <4>1. far = {} /\ stale = {}
        BY <2>1, <2>5, <2>6
      <4> QED
        BY <2>1, <2>5, <2>6, <4>1 DEF Full
    <3>2. Settled(mem, disk, Full)
      BY <3>1, AtRest
    <3>3. Idle
      BY <3>1 DEF Idle
    <3>4. s \in Live(disk) /\ At(disk, s).first = first /\ At(disk, s).size = size
      BY <3>1, <3>3, AgreesRight
    <3>5. Called(mem, disk, <<Update(s, At(disk, s).first, At(disk, s).size)>> \o Flush(mem.dirty),
                 {s}, Full)
      BY <3>2, <3>4, WriteBackRight
    <3>6. Called(mem, disk, p, {s}, Full)
      BY <3>1, <3>4, <3>5
    <3> HIDE DEF p, s
    <3> QED
      BY <2>1, <3>1, <3>6
  <2>7. Begun(mem', disk, pending')
    BY <2>1, <2>4
  <2>8. harm' \subseteq Harm /\ "crash" \notin harm'
    BY <2>1, <2>5 DEF Harm
  <2> HIDE DEF p, s
  <2> QED
    BY <2>1, <2>6, <2>7, <2>8, AfterCall
<1> QED
  BY <1>1, <1>2

LEMMA SyncStep ==
  ASSUME IInv, NEW h \in Handle, Sync(h)
  PROVE  IInv'
<1>1. /\ pending = <<>> /\ harm \subseteq {"io", "full"} /\ node[h] # NoNode /\ WriteBack(h)
      /\ node' = [node EXCEPT ![h].dirty = FALSE]
  BY DEF Sync
<1> DEFINE n == [node[h] EXCEPT !.dirty = FALSE]
<1>2. node[h] \in Node /\ node[h].at \in Place /\ NodesOk
  BY <1>1 DEF IInv, TypeInv, NodesOk
<1>3. n \in Node /\ n.at \in Place /\ node' = [node EXCEPT ![h] = n]
  BY <1>1, <1>2 DEF Node
<1> HIDE DEF n
<1>4. NodesOk'
  BY <1>2, <1>3, NodeSet
<1> QED
  BY <1>1, <1>4, WriteBackStep

LEMMA ReleaseStep ==
  ASSUME IInv, NEW h \in Handle, Release(h)
  PROVE  IInv'
<1>1. /\ Idle /\ node[h] # NoNode /\ WriteBack(h) /\ node' = [node EXCEPT ![h] = NoNode]
  BY DEF Release
<1>2. pending = <<>> /\ harm \subseteq {"io", "full"}
  BY <1>1, AtIdle
<1>3. NodesOk'
  BY <1>1, NoNodeRight, NodeSet DEF IInv, TypeInv
<1> QED
  BY <1>1, <1>2, <1>3, WriteBackStep

LEMMA UmountStep ==
  ASSUME IInv, Umount
  PROVE  IInv'
<1> DEFINE p == Flush(mem.dirty) \o <<[op |-> "mount"]>>
<1>1. /\ Idle /\ mem' = mem /\ disk' = disk /\ pending' = p /\ busy' = {}
      /\ UNCHANGED <<node, harm>>
  BY DEF Umount, Call
<1>2. Settled(mem, disk, Full) /\ harm \subseteq {"full"}
  BY <1>1, AtIdle
<1>3. Called(mem, disk, p, {}, Full)
  BY <1>2, UmountRight
<1> HIDE DEF p
<1>4. Full' = Full /\ harm' \subseteq Harm /\ "crash" \notin harm'
  BY <1>1, <1>2 DEF Full, Harm
<1>5. Called(mem', disk, pending', busy', Full')
  BY <1>1, <1>3, <1>4
<1>6. Begun(mem', disk, pending')
  BY <1>5 DEF Called
<1>7. NodesOk'
  BY <1>1 DEF IInv, TypeInv, NodesOk
<1> QED
  BY <1>1, <1>4, <1>5, <1>6, <1>7, AfterCall

-----------------------------------------------------------------------------
(* The sector writes                                                       *)

LEMMA HeadRight ==
  ASSUME NEW p \in Seq(Op), p # <<>>
  PROVE  /\ Head(p) \in Op /\ Head(p) = p[1] /\ Tail(p) \in Seq(Op)
         /\ Len(p) = 1 => Tail(p) = <<>>
         /\ \A op : OpensWith(p, op) = (Head(p).op = op)
<1>1. Head(p) \in Op /\ Head(p) = p[1] /\ Tail(p) \in Seq(Op) /\ Len(Tail(p)) = Len(p) - 1
  OBVIOUS
<1>2. Len(p) = 1 => Tail(p) = <<>>
  <2> DEFINE q == Tail(p)
  <2>1. q \in Seq(Op) /\ (Len(p) = 1 => Len(q) = 0)
    BY <1>1
  <2> HIDE DEF q
  <2>2. Len(q) = 0 => q = <<>>
    BY <2>1
  <2>3. Len(p) = 1 => q = <<>>
    BY <2>1, <2>2
  <2> QED
    BY <2>3 DEF q
<1>3. \A op : OpensWith(p, op) = (Head(p).op = op)
  BY <1>1 DEF OpensWith
<1> QED
  BY <1>1, <1>2, <1>3

LEMMA CleanedRight ==
  ASSUME NEW m \in Mem, NEW w
  PROVE  /\ Cleaned(m, w) \in Mem /\ SameVolume(m, Cleaned(m, w))
         /\ Cleaned(m, w).dirty = (m.dirty /\ w.op # "fat2")
BY DEF Cleaned, Mem, SameVolume

LEMMA MountedRight ==
  ASSUME NEW d \in Disk
  PROVE  /\ Mounted(d) \in Mem /\ Mounted(d).fat = d.fat1 /\ Mounted(d).dirty = FALSE
         /\ Mounted(d).free = d.info.free
BY DEF Mounted, Mem, Disk, Info

\* Only the first copy changes what the cache is compared with.
LEMMA WrittenFat1 ==
  ASSUME NEW m \in Mem, NEW d \in Disk, NEW w \in Op
  PROVE  /\ w.op = "fat1" => Written(m, d, w).fat1 = m.fat
         /\ w.op # "fat1" => Written(m, d, w).fat1 = d.fat1
         /\ w.op = "mount" => Written(m, d, w) = d
<1>1. CASE w.op = "fat1"
  BY <1>1 DEF Written, Disk
<1>2. CASE w.op = "zero"
  BY <1>2 DEF Written, Disk
<1>3. CASE w.op = "put"
  BY <1>3 DEF Written, Disk
<1>4. CASE w.op = "update"
  BY <1>4 DEF Written, Disk
<1>5. CASE w.op = "delete"
  BY <1>5 DEF Written, Disk
<1>6. CASE w.op = "fat2"
  BY <1>6 DEF Written, Disk
<1>7. CASE w.op = "info"
  BY <1>7 DEF Written, Disk
<1>8. CASE w.op \notin {"zero", "put", "update", "delete", "fat1", "fat2", "info"}
  <2>1. Written(m, d, w) = d
    BY <1>8 DEF Written
  <2> QED
    BY <1>8, <2>1
<1> QED
  BY <1>1, <1>2, <1>3, <1>4, <1>5, <1>6, <1>7, <1>8

LEMMA StepStep ==
  ASSUME IInv, Step
  PROVE  IInv'
<1> DEFINE w == Head(pending)
           q == Tail(pending)
           d == Written(mem, disk, w)
           m == IF w.op = "mount" THEN Mounted(disk) ELSE Cleaned(mem, w)
<1>1. /\ pending # <<>> /\ disk' = d /\ mem' = m
      /\ node' = IF w.op = "hold" THEN [node EXCEPT ![w.h] = w.node] ELSE node
      /\ pending' = q /\ busy' = (IF Len(pending) = 1 THEN {} ELSE busy) /\ harm' = harm
  BY DEF Step
<1>2. /\ mem \in Mem /\ disk \in Disk /\ pending \in Seq(Op) /\ harm \subseteq Harm /\ NodesOk
      /\ Ordered(pending) /\ (~mem.dirty => disk.fat1 = mem.fat)
      /\ OpensWith(pending, "fat2") => disk.fat1 = mem.fat
      /\ Marked(pending, mem.dirty)
  BY DEF IInv, TypeInv, DirtyInv
<1>3. /\ w \in Op /\ q \in Seq(Op) /\ (Len(pending) = 1 => q = <<>>)
      /\ \A op : OpensWith(pending, op) = (w.op = op)
  BY <1>1, <1>2, HeadRight
<1>4. /\ Ordered(q) /\ (OpensWith(q, "fat2") => OpensWith(pending, "fat1"))
      /\ OpensWith(pending, "mount") => q = <<>>
      /\ OpensWith(pending, "fat2") => \A b : Marked(q, b)
      /\ \A b : Marked(pending, b) => Marked(q, b)
  BY <1>1, <1>2, OrderedTail
<1>5. d \in Disk
  BY <1>2, <1>3, WrittenType
<1>6. /\ w.op = "fat1" => d.fat1 = mem.fat
      /\ w.op # "fat1" => d.fat1 = disk.fat1
      /\ w.op = "mount" => d = disk
  BY <1>2, <1>3, WrittenFat1
<1>7. /\ w.op # "mount" => m \in Mem /\ SameVolume(mem, m) /\ m.dirty = (mem.dirty /\ w.op # "fat2")
      /\ w.op = "mount" => m \in Mem /\ m.fat = disk.fat1 /\ m.dirty = FALSE
                           /\ m.free = disk.info.free
  BY <1>2, CleanedRight, MountedRight
<1>8. \/ ~OpensWith(q, "fat2") \/ w.op = "fat1"
  BY <1>3, <1>4
<1>9. w.op = "fat2" => disk.fat1 = mem.fat
  BY <1>2, <1>3
<1>10. w.op = "mount" => q = <<>>
  BY <1>3, <1>4
<1>11. w.op = "hold" => w.h \in Handle /\ w.node \in Node /\ w.node.at \in Place
  BY <1>3 DEF Op, Held
<1>13. ASSUME NEW e, Leads(mem, disk, pending, busy, Full, e)
       PROVE  Leads(mem, d, q, busy, Full, e)
  BY <1>1, <1>2, <1>13, LeadsStep
<1> HIDE DEF w, q, d, m
<1>14. NodesOk'
  <2>1. CASE w.op = "hold"
    BY <1>1, <1>2, <1>11, <2>1, NodeSet
  <2>2. CASE w.op # "hold"
    BY <1>1, <1>2, <2>2 DEF NodesOk
  <2> QED
    BY <2>1, <2>2
<1>15. TypeInv'
  BY <1>1, <1>2, <1>3, <1>5, <1>7, <1>14 DEF TypeInv
<1>16. DirtyInv'
  <2>1. CASE w.op = "mount"
    <3>1. q = <<>> /\ d.fat1 = m.fat /\ m.dirty = FALSE
      BY <1>6, <1>7, <1>10, <2>1
    <3> QED
      BY <1>1, <1>4, <3>1 DEF DirtyInv, OpensWith, Marked
  <2>2. CASE w.op # "mount"
    <3>1. m.fat = mem.fat /\ m.dirty = (mem.dirty /\ w.op # "fat2")
      BY <1>7, <2>2 DEF SameVolume
    <3>2. ~m.dirty => d.fat1 = m.fat
      BY <1>2, <1>6, <1>9, <3>1
    <3>3. OpensWith(q, "fat2") => d.fat1 = m.fat
      BY <1>6, <1>8, <3>1
    <3>4. Marked(q, m.dirty)
      <4>1. CASE w.op = "fat2"
        BY <1>3, <1>4, <4>1
      <4>2. CASE w.op # "fat2"
        <5>1. m.dirty = mem.dirty
          BY <1>2, <3>1, <4>2 DEF Mem
        <5> QED
          BY <1>2, <1>4, <5>1
      <4> QED
        BY <4>1, <4>2
    <3> QED
      BY <1>1, <1>4, <3>2, <3>3, <3>4 DEF DirtyInv
  <2> QED
    BY <2>1, <2>2
<1>17. CrashInv'
  BY <1>1 DEF CrashInv, IInv
<1>18. Full' = Full
  BY <1>1 DEF Full
<1>19. ASSUME harm \subseteq {"full"}
       PROVE  \E e : Leads(m, d, q, busy', Full, e) /\ Settled(m, e, Full)
  <2>1. PICK e : Leads(mem, disk, pending, busy, Full, e) /\ Settled(mem, e, Full)
    BY <1>19 DEF IInv, VolumeInv
  <2>2. Leads(mem, d, q, busy, Full, e)
    BY <1>13, <2>1
  <2>3. CASE w.op = "mount"
    <3>1. q = <<>> /\ d = disk /\ m \in Mem /\ m.fat = disk.fat1 /\ m.free = disk.info.free
      BY <1>6, <1>7, <1>10, <2>3
    <3>2. e = d
      <4>1. q = <<>> => e = d
        <5>1. q \in Seq(Op)
          BY <1>3
        <5> QED
          BY <2>2, <5>1, LeadsStart
      <4> QED
        BY <3>1, <4>1
    <3>3. Settled(m, d, Full)
      BY <2>1, <3>1, <3>2 DEF Settled, Counted
    <3>4. Contained(d, busy', Full)
      BY <3>3, SettledContained
    <3>5. Leads(m, d, q, busy', Full, d)
      BY <1>5, <3>1, <3>4, LeadsNil
    <3> QED
      BY <3>3, <3>5
  <2>4. CASE w.op # "mount"
    <3>1. m \in Mem /\ SameVolume(mem, m)
      BY <1>7, <2>4
    <3>2. Settled(m, e, Full)
      BY <2>1, <3>1 DEF Settled, Counted, SameVolume
    <3>3. Leads(m, d, q, busy, Full, e)
      BY <2>2, <3>1, LeadsSame
    <3>4. CASE Len(pending) = 1
      <4>1. q = <<>> /\ busy' = {}
        BY <1>1, <1>3, <3>4
      <4>2. e = d
        <5>1. q = <<>> => e = d
          <6>1. q \in Seq(Op)
            BY <1>3
          <6> QED
            BY <3>3, <6>1, LeadsStart
        <5> QED
          BY <4>1, <5>1
      <4>3. Contained(d, busy', Full)
        BY <3>2, <4>2, SettledContained
      <4>4. Leads(m, d, q, busy', Full, d)
        BY <1>5, <4>1, <4>3, LeadsNil
      <4> QED
        BY <3>2, <4>2, <4>4
    <3>5. CASE Len(pending) # 1
      <4>1. busy' = busy
        BY <1>1, <3>5
      <4> QED
        BY <3>2, <3>3, <4>1
    <3> QED
      BY <3>4, <3>5
  <2> QED
    BY <2>3, <2>4
<1>20. VolumeInv'
  BY <1>1, <1>18, <1>19 DEF VolumeInv
<1> QED
  BY <1>15, <1>16, <1>17, <1>20 DEF IInv

\* What is left of a write that does not end.
LEMMA TornRight ==
  ASSUME NEW m \in Mem, NEW d \in Disk, NEW w \in Op, NEW x \in Torn(m, d, w)
  PROVE  x \in Disk /\ (w.op # "fat1" => x.fat1 = d.fat1)
<1>1. d.fat1 \in Table /\ d.fat2 \in Table /\ m.fat \in Table
  BY DEF Disk, Mem
<1>2. CASE w.op = "fat1"
  <2>1. PICK f \in Mixed(d.fat1, m.fat) : x = [d EXCEPT !.fat1 = f]
    BY <1>2 DEF Torn
  <2>2. f \in Table
    BY <1>1, MixedRight
  <2> QED
    BY <1>2, <2>1, <2>2 DEF Disk
<1>3. CASE w.op = "fat2"
  <2>1. PICK f \in Mixed(d.fat2, m.fat) : x = [d EXCEPT !.fat2 = f]
    BY <1>3 DEF Torn
  <2>2. f \in Table
    BY <1>1, MixedRight
  <2>3. x \in Disk /\ x.fat1 = d.fat1
    BY <2>1, <2>2 DEF Disk
  <2> QED
    BY <2>3
<1>4. CASE w.op \notin {"fat1", "fat2"}
  BY <1>4 DEF Torn
<1> QED
  BY <1>2, <1>3, <1>4

\* A failed write: the cache stays marked dirty unless the first copy is there.
LEMMA FailStep ==
  ASSUME IInv, Fail
  PROVE  IInv'
<1> DEFINE w == Head(pending)
           q == Tail(pending)
           m == IF w.op = "put" THEN FreeChain(mem, w.undo) ELSE Cleaned(mem, w)
           r == Left(w, q)
<1>1. /\ pending # <<>> /\ w.op \notin {"hold", "mount"} /\ mem' = m /\ pending' = r
      /\ harm' = harm \cup {"io"} /\ node' = node /\ disk' \in Torn(mem, disk, w)
  BY DEF Fail
<1>2. /\ mem \in Mem /\ disk \in Disk /\ pending \in Seq(Op) /\ harm \subseteq Harm /\ NodesOk
      /\ Ordered(pending) /\ (~mem.dirty => disk.fat1 = mem.fat)
      /\ OpensWith(pending, "fat2") => disk.fat1 = mem.fat
      /\ Marked(pending, mem.dirty) /\ mem.dirty \in BOOLEAN
  BY DEF IInv, TypeInv, DirtyInv, Mem
<1>3. /\ w \in Op /\ q \in Seq(Op)
      /\ \A op : OpensWith(pending, op) = (w.op = op)
  BY <1>1, <1>2, HeadRight
<1>4. /\ Ordered(q) /\ (OpensWith(q, "fat2") => OpensWith(pending, "fat1"))
      /\ OpensWith(pending, "fat1") => OpensWith(q, "fat2")
      /\ OpensWith(pending, "fat2") => \A b : Marked(q, b)
      /\ \A b : Marked(pending, b) => Marked(q, b)
  BY <1>1, <1>2, OrderedTail
<1>5. /\ FreeChain(mem, w.undo) \in Mem
      /\ FreeChain(mem, w.undo) = mem \/ FreeChain(mem, w.undo).dirty = TRUE
  BY <1>2, FreeChainType
<1>6. /\ Cleaned(mem, w) \in Mem /\ SameVolume(mem, Cleaned(mem, w))
      /\ Cleaned(mem, w).dirty = (mem.dirty /\ w.op # "fat2")
  BY <1>2, CleanedRight
<1>7. disk' \in Disk /\ (w.op # "fat1" => disk'.fat1 = disk.fat1)
  BY <1>1, <1>2, <1>3, TornRight
<1>8. w.op = "fat1" => mem.dirty = TRUE
  <2>1. 1 \in 1 .. Len(pending) /\ w = pending[1]
    BY <1>1, <1>2
  <2> HIDE DEF w
  <2> QED
    BY <1>2, <2>1 DEF Marked
<1>9. m \in Mem /\ (~m.dirty => disk'.fat1 = m.fat)
  <2>1. CASE w.op = "put"
    <3>1. disk'.fat1 = disk.fat1 /\ m = FreeChain(mem, w.undo)
      BY <1>7, <2>1
    <3> HIDE DEF m, w
    <3> QED
      BY <1>2, <1>5, <3>1
  <2>2. CASE w.op # "put"
    <3>1. w.op = "fat2" => disk.fat1 = mem.fat
      BY <1>2, <1>3
    <3>2. m = Cleaned(mem, w)
      BY <2>2
    <3> HIDE DEF m, w
    <3> QED
      BY <1>2, <1>6, <1>7, <1>8, <3>1, <3>2 DEF SameVolume
  <2> QED
    BY <2>1, <2>2
<1>10. \/ r = <<>>
       \/ r = q /\ w.op # "fat1"
       \/ /\ r = Tail(q) /\ q # <<>> /\ q[1].op \in {"fat2", "delete"}
          /\ (q[1].op = "fat2" <=> w.op = "fat1")
  <2>1. w.op = "fat1" => q # <<>> /\ q[1].op = "fat2"
    BY <1>3, <1>4 DEF OpensWith
  <2> HIDE DEF q, w
  <2> QED
    BY <2>1 DEF Left
<1> HIDE DEF w, q, m, r
<1>11. r \in Seq(Op) /\ Ordered(r) /\ ~OpensWith(r, "fat2") /\ Marked(r, m.dirty)
  <2>1. CASE r = <<>>
    <3>1. <<>> \in Seq(Op) /\ Ordered(<<>>) /\ ~OpensWith(<<>>, "fat2") /\ \A b : Marked(<<>>, b)
      BY DEF Ordered, OpensWith, Marked
    <3> QED
      BY <2>1, <3>1
  <2>2. CASE r = q /\ w.op # "fat1"
    <3>1. ~OpensWith(q, "fat2")
      BY <1>3, <1>4, <2>2
    <3>2. Marked(q, m.dirty)
      <4>1. CASE w.op = "fat2"
        BY <1>3, <1>4, <4>1
      <4>2. CASE w.op # "fat2"
        <5>1. mem.dirty => m.dirty = TRUE
          BY <1>2, <1>5, <1>6, <4>2 DEF m
        <5>2. Marked(q, mem.dirty)
          BY <1>2, <1>4
        <5> QED
          BY <1>2, <5>1, <5>2 DEF Marked
      <4> QED
        BY <4>1, <4>2
    <3> QED
      BY <1>3, <1>4, <2>2, <3>1, <3>2
  <2>3. CASE /\ r = Tail(q) /\ q # <<>> /\ q[1].op \in {"fat2", "delete"}
             /\ (q[1].op = "fat2" <=> w.op = "fat1")
    <3>1. /\ Ordered(Tail(q)) /\ Tail(q) \in Seq(Op)
          /\ OpensWith(Tail(q), "fat2") => OpensWith(q, "fat1")
          /\ OpensWith(q, "fat2") => \A b : Marked(Tail(q), b)
          /\ \A b : Marked(q, b) => Marked(Tail(q), b)
      BY <1>3, <1>4, <2>3, OrderedTail
    <3>2. ~OpensWith(q, "fat1")
      BY <2>3 DEF OpensWith
    <3>3. Marked(Tail(q), m.dirty)
      <4>1. CASE w.op = "fat1"
        BY <2>3, <3>1, <4>1 DEF OpensWith
      <4>2. CASE w.op = "fat2"
        BY <1>3, <1>4, <3>1, <4>2
      <4>3. CASE w.op \notin {"fat1", "fat2"}
        <5>1. mem.dirty => m.dirty = TRUE
          BY <1>2, <1>5, <1>6, <4>3 DEF m
        <5>2. Marked(Tail(q), mem.dirty)
          BY <1>2, <1>4, <3>1
        <5> QED
          BY <1>2, <5>1, <5>2 DEF Marked
      <4> QED
        BY <4>1, <4>2, <4>3
    <3> QED
      BY <2>3, <3>1, <3>2, <3>3
  <2> QED
    BY <1>10, <2>1, <2>2, <2>3
<1>12. NodesOk' /\ harm' \subseteq Harm /\ "io" \in harm'
  BY <1>1, <1>2 DEF NodesOk, Harm
<1>13. TypeInv' /\ DirtyInv'
  BY <1>1, <1>7, <1>9, <1>11, <1>12 DEF TypeInv, DirtyInv
<1>14. VolumeInv' /\ CrashInv'
  BY <1>12 DEF VolumeInv, CrashInv
<1> QED
  BY <1>13, <1>14 DEF IInv

LEMMA CrashStep ==
  ASSUME IInv, Crash
  PROVE  IInv'
<1>1. /\ mem' = Mounted(disk') /\ pending' = <<>> /\ node' = [h \in Handle |-> NoNode]
      /\ "crash" \notin harm /\ harm' = harm \cup {"crash"} /\ busy' = busy
      /\ pending # <<>> /\ disk' \in Torn(mem, disk, Head(pending))
  BY DEF Crash
<1>2. mem \in Mem /\ disk \in Disk /\ pending \in Seq(Op) /\ harm \subseteq Harm
  BY DEF IInv, TypeInv
<1>3. disk' \in Disk /\ mem' \in Mem /\ mem'.fat = disk'.fat1
  <2>1. Head(pending) \in Op
    BY <1>1, <1>2, HeadRight
  <2>2. disk' \in Disk
    BY <1>1, <1>2, <2>1, TornRight
  <2> QED
    BY <1>1, <2>2, MountedRight
<1>4. <<>> \in Seq(Op) /\ Ordered(<<>>) /\ ~OpensWith(<<>>, "fat2") /\ \A b : Marked(<<>>, b)
  BY DEF Ordered, OpensWith, Marked
<1>5. NodesOk'
  BY <1>1, NoNodeRight DEF NodesOk
<1>6. TypeInv'
  BY <1>1, <1>2, <1>3, <1>4, <1>5 DEF TypeInv, Harm
<1>7. DirtyInv'
  BY <1>1, <1>3, <1>4 DEF DirtyInv
<1>8. VolumeInv'
  BY <1>1 DEF VolumeInv
<1>9. CrashInv'
  <2>1. Full' = Full
    BY <1>1 DEF Full
  <2>2. ASSUME harm' \subseteq {"full", "crash"} PROVE Contained(disk', busy, Full)
    <3>1. harm \subseteq {"full"}
      BY <1>1, <2>2
    <3>2. PICK e : Leads(mem, disk, pending, busy, Full, e)
      BY <3>1 DEF IInv, VolumeInv
    <3>3. Breaks(mem, disk, Head(pending), busy, Full)
      BY <1>1, <1>2, <3>2, LeadsTorn
    <3> QED
      BY <1>1, <3>3 DEF Breaks
  <2> QED
    BY <1>1, <2>1, <2>2 DEF CrashInv
<1> QED
  BY <1>6, <1>7, <1>8, <1>9 DEF IInv

-----------------------------------------------------------------------------
(* The theorems                                                            *)

LEMMA CompleteNext ==
  IInv /\ [Next]_vars => IInv'
<1> SUFFICES ASSUME IInv, [Next]_vars PROVE IInv'
  OBVIOUS
<1>1. CASE \E h \in Handle, nm \in Name :
             \/ Lookup(h, nm)
             \/ \E type \in {"file", "dir"} : Create(h, nm, type) \/ CreateNoMem(h, nm, type)
  BY <1>1, LookupStep, CreateStep, CreateNoMemStep
<1>2. CASE \E h \in Handle : \E o \in 0 .. MaxSize - 1 :
             (\E n \in 1 .. MaxSize - o : Write(h, o, n)) \/ WriteNoMem(h, o)
  BY <1>2, WriteStep, WriteNoMemStep
<1>3. CASE \E h \in Handle : \E size \in 0 .. MaxSize : Truncate(h, size)
  BY <1>3, TruncateStep
<1>4. CASE \E h \in Handle : Sync(h) \/ Release(h)
  BY <1>4, SyncStep, ReleaseStep
<1>5. CASE \E nm \in Name : Unlink(nm)
  BY <1>5, UnlinkStep
<1>6. CASE Umount
  BY <1>6, UmountStep
<1>7. CASE Step
  BY <1>7, StepStep
<1>8. CASE Fail
  BY <1>8, FailStep
<1>9. CASE Crash
  BY <1>9, CrashStep
<1>10. CASE UNCHANGED vars
  <2>1. UNCHANGED <<mem, disk, pending, busy, harm>> /\ node' = node
    BY <1>10 DEF vars
  <2>2. NodesOk'
    BY <2>1 DEF IInv, TypeInv, NodesOk
  <2> QED
    BY <2>1, <2>2, AfterNode
<1> QED
  BY <1>1, <1>2, <1>3, <1>4, <1>5, <1>6, <1>7, <1>8, <1>9, <1>10 DEF Next

LEMMA Complete ==
  Spec => []IInv
<1>1. Init => IInv
  BY CompleteInit
<1>2. IInv /\ [Next]_vars => IInv'
  BY CompleteNext
<1> QED
  BY <1>1, <1>2, PTL DEF Spec

\* Whatever writes fail, after whichever of their sectors, and wherever the power
\* goes, a table in memory that the first copy does not hold is marked dirty
\* between calls (fat_flush_fat returns when the first copy fails, before it
\* clears the mark): the next flush writes it.  An update that went to another
\* sector than its entry's is excepted, since it may have hit the table.
THEOREM DirtyUntilWrittenHolds ==
  Spec => []DirtyUntilWritten
<1>1. IInv => DirtyUntilWritten
  BY DEF IInv, DirtyInv, DirtyUntilWritten
<1> QED
  BY <1>1, Complete, PTL

\* Between calls every used cluster belongs to the root or to an entry, and the
\* counters and the two copies of the table say the same: no call of create,
\* write, truncate or unlink loses a cluster, also when it runs out of room.
\* Until the first of what the property excepts: a write that failed, no memory
\* after a cluster was taken, a run of entries that left the directory, an entry
\* past what dir_entry_idx can tell, an entry written from a node not its own.
THEOREM NoneLostHolds ==
  Spec => []NoneLost
<1>1. IInv => NoneLost
  <2> SUFFICES ASSUME IInv, pending = <<>>, harm \subseteq {"full"}
               PROVE  LET used == {c \in Cluster : mem.fat[c] # FREE} IN
                      /\ used = Chain(mem.fat, Root)
                                \cup UNION {ChainOf(mem.fat, disk, s) : s \in Live(disk)}
                      /\ mem.free = N - Cardinality(used) /\ disk.info.free = mem.free
                      /\ disk.fat1 = mem.fat /\ disk.fat2 = mem.fat
    BY DEF NoneLost
  <2> DEFINE F == Firsts(disk)
             o == <<0, 0>>
             f == mem.fat
  <2>1. Settled(mem, disk, Full)
    BY AtRest
  <2>2. /\ DOMAIN F = Live(disk) \cup {o} /\ F[o] = Root
        /\ \A t \in Live(disk) : F[t] = At(disk, t).first
    BY <2>1, SettledFirsts
  <2>3. Used(f) = UNION {Chain(f, F[t]) : t \in DOMAIN F}
    BY <2>1 DEF Settled, Consistent, Tabled, Used
  <2> HIDE DEF F, o, f
  <2>4. Used(f) = Chain(f, Root) \cup UNION {ChainOf(f, disk, s) : s \in Live(disk)}
    BY <2>2, <2>3 DEF ChainOf
  <2> QED
    BY <2>1, <2>4 DEF Settled, Counted, Used, f
<1> QED
  BY <1>1, Complete, PTL

\* The power may go between any two writes of create, write, truncate, unlink,
\* sync or umount, and after any of the sectors of a copy of the table: only the
\* entry that call is about can be harmed, every other keeps a chain of its own,
\* used and as long as its size, on the disk.  Excepted is what NoneLost excepts.
THEOREM CrashContainedHolds ==
  Spec => []CrashContained
<1>1. IInv => CrashContained
  <2> SUFFICES ASSUME IInv, harm \subseteq {"full", "crash"}
               PROVE  Contained(disk, busy, Full)
    BY DEF CrashContained, Contained, Full
  <2>1. harm \subseteq {"full", "crash"} /\ pending \in Seq(Op)
    BY DEF IInv, TypeInv, Harm
  <2>2. CASE "crash" \in harm
    BY <2>1, <2>2 DEF IInv, CrashInv
  <2>3. CASE "crash" \notin harm
    <3>1. harm \subseteq {"full"}
      BY <2>1, <2>3
    <3>2. PICK e : Leads(mem, disk, pending, busy, Full, e)
      BY <3>1 DEF IInv, VolumeInv
    <3> QED
      BY <2>1, <3>2, LeadsStart
  <2> QED
    BY <2>2, <2>3
<1> QED
  BY <1>1, Complete, PTL

=============================================================================
