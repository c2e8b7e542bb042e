---------------------------- MODULE DesktopProofs ----------------------------
(***************************************************************************)
(* For every size of the screen, number and widths of windows and tasks:   *)
(* the screen is the composition of what lies on it (with the exceptions   *)
(* that Composed names), My Computer's number and the buffers are right,   *)
(* and a press acts once.                                                  *)
(***************************************************************************)
EXTENDS Desktop, FiniteSetTheorems, WellFoundedInduction, TLAPS

-----------------------------------------------------------------------------
(* Layers: items lie on a wall in the order st, each covering cells[item]  *)
(* with face[item]; saved[item] is what it covers, scr what one sees.      *)

\* None of the layers from i to j covers c.
Clear(st, cells, i, j, c) == \A l \in i .. j : c \notin cells[st[l]]

\* Below layer k, one sees v in cell c.
Sees(st, cells, face, wall, k, c, v) ==
  \/ v = wall[c] /\ Clear(st, cells, 1, k - 1, c)
  \/ \E l \in 1 .. k - 1 :
       c \in cells[st[l]] /\ v = face[st[l]] /\ Clear(st, cells, l + 1, k - 1, c)

Layered(st, cells, face, wall, saved, scr) ==
  /\ \A k, l \in 1 .. Len(st) : st[k] = st[l] => k = l
  /\ \A k \in 1 .. Len(st) : \A c \in cells[st[k]] :
       Sees(st, cells, face, wall, k, c, saved[st[k]][c])
  /\ \A c \in Cell : Sees(st, cells, face, wall, Len(st) + 1, c, scr[c])

\* What is seen depends only on what lies below.
LEMMA SeesBelow ==
  ASSUME NEW st, NEW u, NEW cells, NEW face, NEW wall, NEW k \in Nat, NEW c, NEW v,
         Sees(st, cells, face, wall, k, c, v), \A l \in 1 .. k - 1 : u[l] = st[l]
  PROVE  Sees(u, cells, face, wall, k, c, v)
<1>1. ASSUME NEW i \in Nat \ {0}, Clear(st, cells, i, k - 1, c)
      PROVE  Clear(u, cells, i, k - 1, c)
  BY <1>1 DEF Clear
<1>2. CASE v = wall[c] /\ Clear(st, cells, 1, k - 1, c)
  BY <1>1, <1>2 DEF Sees
<1>3. ASSUME NEW l \in 1 .. k - 1, c \in cells[st[l]], v = face[st[l]],
             Clear(st, cells, l + 1, k - 1, c)
      PROVE  Sees(u, cells, face, wall, k, c, v)
  <2>1. Clear(u, cells, l + 1, k - 1, c)
    BY <1>1, <1>3
  <2> QED
    BY <1>3, <2>1 DEF Sees
<1> QED
  BY <1>2, <1>3 DEF Sees

\* ... and there on the faces that cover the cell.
LEMMA SeesSame ==
  ASSUME NEW st, NEW cells, NEW face, NEW wall, NEW d, NEW f, NEW w,
         NEW k \in Nat, NEW c, NEW v,
         Sees(st, cells, face, wall, k, c, v),
         \A l \in 1 .. k - 1 :
           d[st[l]] = cells[st[l]] /\ (c \in cells[st[l]] => f[st[l]] = face[st[l]]),
         w[c] = wall[c]
  PROVE  Sees(st, d, f, w, k, c, v)
<1>1. ASSUME NEW i \in Nat \ {0}, Clear(st, cells, i, k - 1, c)
      PROVE  Clear(st, d, i, k - 1, c)
  BY <1>1 DEF Clear
<1>2. CASE v = wall[c] /\ Clear(st, cells, 1, k - 1, c)
  BY <1>1, <1>2 DEF Sees
<1>3. ASSUME NEW l \in 1 .. k - 1, c \in cells[st[l]], v = face[st[l]],
             Clear(st, cells, l + 1, k - 1, c)
      PROVE  Sees(st, d, f, w, k, c, v)
  <2>1. Clear(st, d, l + 1, k - 1, c)
    BY <1>1, <1>3
  <2>2. c \in d[st[l]] /\ v = f[st[l]]
    BY <1>3
  <2> QED
    BY <2>1, <2>2 DEF Sees
<1> QED
  BY <1>2, <1>3 DEF Sees

LEMMA SameLayers ==
  ASSUME NEW I, NEW st \in Seq(I), NEW cells, NEW face, NEW wall, NEW saved, NEW scr,
         NEW d, NEW f, NEW b,
         Layered(st, cells, face, wall, saved, scr),
         \A k \in 1 .. Len(st) :
           d[st[k]] = cells[st[k]] /\ f[st[k]] = face[st[k]] /\ b[st[k]] = saved[st[k]]
  PROVE  Layered(st, d, f, wall, b, scr)
<1>1. Len(st) \in Nat
  OBVIOUS
<1>2. ASSUME NEW k \in 1 .. Len(st) + 1, NEW c, NEW v, Sees(st, cells, face, wall, k, c, v)
      PROVE  Sees(st, d, f, wall, k, c, v)
  <2>1. \A l \in 1 .. k - 1 :
          d[st[l]] = cells[st[l]] /\ (c \in cells[st[l]] => f[st[l]] = face[st[l]])
    BY <1>1
  <2>2. k \in Nat
    BY <1>1
  <2> QED
    BY <1>2, <2>1, <2>2, SeesSame
<1>3. ASSUME NEW k \in 1 .. Len(st), NEW c \in d[st[k]]
      PROVE  Sees(st, d, f, wall, k, c, b[st[k]][c])
  <2>1. Sees(st, cells, face, wall, k, c, b[st[k]][c])
    BY <1>3 DEF Layered
  <2>2. k \in 1 .. Len(st) + 1
    BY <1>1
  <2> QED
    BY <1>2, <2>1, <2>2
<1>4. ASSUME NEW c \in Cell
      PROVE  Sees(st, d, f, wall, Len(st) + 1, c, scr[c])
  <2>1. Sees(st, cells, face, wall, Len(st) + 1, c, scr[c])
    BY <1>4 DEF Layered
  <2>2. Len(st) + 1 \in 1 .. Len(st) + 1
    BY <1>1
  <2> QED
    BY <1>2, <2>1, <2>2
<1>5. \A i, j \in 1 .. Len(st) : st[i] = st[j] => i = j
  BY DEF Layered
<1> QED
  BY <1>3, <1>4, <1>5 DEF Layered

\* An item is painted on top of everything, after what it covers was saved.
LEMMA PushLayer ==
  ASSUME NEW I, NEW st \in Seq(I), NEW cells, NEW face, NEW wall, NEW saved, NEW scr,
         NEW item \in I, NEW d, NEW f, NEW b, NEW s,
         Layered(st, cells, face, wall, saved, scr),
         \A k \in 1 .. Len(st) :
           /\ st[k] # item /\ d[st[k]] = cells[st[k]]
           /\ f[st[k]] = face[st[k]] /\ b[st[k]] = saved[st[k]],
         d[item] \subseteq Cell,
         \A c \in d[item] : b[item][c] = scr[c],
         \A c \in Cell : s[c] = IF c \in d[item] THEN f[item] ELSE scr[c]
  PROVE  Layered(Append(st, item), d, f, wall, b, s)
<1> DEFINE u == Append(st, item)
           n == Len(st)
<1>1. n \in Nat /\ Len(u) = n + 1 /\ u[n + 1] = item /\ \A l \in 1 .. n : u[l] = st[l]
  OBVIOUS
<1> HIDE DEF u, n
<1>2. \A k, l \in 1 .. n + 1 : u[k] = u[l] => k = l
  <2> SUFFICES ASSUME NEW k \in 1 .. n + 1, NEW l \in 1 .. n + 1, u[k] = u[l]
               PROVE  k = l
    OBVIOUS
  <2>1. \A i \in 1 .. n : st[i] # item
    BY DEF n
  <2>2. \A i, j \in 1 .. n : st[i] = st[j] => i = j
    BY DEF Layered, n
  <2> QED
    BY <1>1, <2>1, <2>2
<1>3. ASSUME NEW k \in 1 .. n + 1, NEW c, NEW v, Sees(st, cells, face, wall, k, c, v)
      PROVE  Sees(u, d, f, wall, k, c, v)
  <2>1. k \in Nat
    BY <1>1
  <2>2. \A l \in 1 .. k - 1 : l \in 1 .. n
    BY <1>1
  <2>3. \A l \in 1 .. k - 1 :
          d[st[l]] = cells[st[l]] /\ (c \in cells[st[l]] => f[st[l]] = face[st[l]])
    BY <1>1, <2>2 DEF n
  <2>4. Sees(st, d, f, wall, k, c, v)
    BY <1>3, <2>1, <2>3, SeesSame
  <2>5. \A l \in 1 .. k - 1 : u[l] = st[l]
    BY <1>1, <2>2
  <2> QED
    BY <2>1, <2>4, <2>5, SeesBelow
<1>4. ASSUME NEW k \in 1 .. n + 1, NEW c \in d[u[k]]
      PROVE  Sees(u, d, f, wall, k, c, b[u[k]][c])
  <2>1. CASE k = n + 1
    <3>1. c \in d[item] /\ c \in Cell
      BY <1>1, <1>4, <2>1
    <3>2. Sees(st, cells, face, wall, n + 1, c, scr[c])
      BY <3>1 DEF Layered, n
    <3> QED
      BY <1>1, <1>3, <2>1, <3>1, <3>2
  <2>2. CASE k \in 1 .. n
    <3>1. c \in cells[st[k]] /\ b[u[k]] = saved[st[k]]
      BY <1>1, <1>4, <2>2 DEF n
    <3>2. Sees(st, cells, face, wall, k, c, saved[st[k]][c])
      BY <2>2, <3>1 DEF Layered, n
    <3> QED
      BY <1>3, <3>1, <3>2
  <2> QED
    BY <1>1, <2>1, <2>2
<1>5. ASSUME NEW c \in Cell
      PROVE  Sees(u, d, f, wall, (n + 1) + 1, c, s[c])
  <2>1. CASE c \in d[item]
    <3>1. n + 1 \in 1 .. ((n + 1) + 1) - 1 /\ c \in d[u[n + 1]] /\ s[c] = f[u[n + 1]]
      BY <1>1, <2>1
    <3>2. Clear(u, d, (n + 1) + 1, ((n + 1) + 1) - 1, c)
      BY <1>1 DEF Clear
    <3> QED
      BY <3>1, <3>2 DEF Sees
  <2>2. CASE c \notin d[item]
    <3>1. Sees(st, cells, face, wall, n + 1, c, scr[c]) /\ s[c] = scr[c]
      BY <2>2 DEF Layered, n
    <3>2. n + 1 \in 1 .. n + 1
      BY <1>1
    <3>3. Sees(u, d, f, wall, n + 1, c, s[c])
      BY <1>3, <3>1, <3>2
    <3>4. ASSUME NEW i \in Nat \ {0}, Clear(u, d, i, (n + 1) - 1, c)
          PROVE  Clear(u, d, i, ((n + 1) + 1) - 1, c)
      <4> SUFFICES ASSUME NEW l \in i .. n + 1 PROVE c \notin d[u[l]]
        BY <1>1 DEF Clear
      <4>1. CASE l = n + 1
        BY <1>1, <2>2, <4>1
      <4>2. CASE l # n + 1
        <5>1. l \in i .. (n + 1) - 1
          BY <1>1, <4>2
        <5> QED
          BY <3>4, <5>1 DEF Clear
      <4> QED
        BY <4>1, <4>2
    <3>5. CASE s[c] = wall[c] /\ Clear(u, d, 1, (n + 1) - 1, c)
      BY <3>4, <3>5 DEF Sees
    <3>6. ASSUME NEW l \in 1 .. (n + 1) - 1, c \in d[u[l]], s[c] = f[u[l]],
                 Clear(u, d, l + 1, (n + 1) - 1, c)
          PROVE  Sees(u, d, f, wall, (n + 1) + 1, c, s[c])
      <4>1. Clear(u, d, l + 1, ((n + 1) + 1) - 1, c)
        <5>1. l + 1 \in Nat \ {0}
          OBVIOUS
        <5> QED
          BY <3>4, <3>6, <5>1
      <4>2. l \in 1 .. ((n + 1) + 1) - 1
        BY <1>1
      <4> QED
        BY <3>6, <4>1, <4>2 DEF Sees
    <3> QED
      BY <3>3, <3>5, <3>6 DEF Sees
  <2> QED
    BY <2>1, <2>2
<1> QED
  BY <1>1, <1>2, <1>4, <1>5 DEF Layered, u

LEMMA WithoutRight ==
  ASSUME NEW I, NEW st \in Seq(I), NEW k \in 1 .. Len(st),
         \A i, j \in 1 .. Len(st) : st[i] = st[j] => i = j
  PROVE  Without(st, st[k])
           = [l \in 1 .. Len(st) - 1 |-> IF l < k THEN st[l] ELSE st[l + 1]]
<1> DEFINE K == {l \in DOMAIN st : st[l] = st[k]}
<1>1. DOMAIN st = 1 .. Len(st) /\ K = {k}
  OBVIOUS
<1>2. (CHOOSE l \in K : TRUE) = k /\ K # {}
  <2> HIDE DEF K
  <2> QED
    BY <1>1
<1> HIDE DEF K
<1>3. Without(st, st[k]) = IF K = {} THEN st
        ELSE [l \in 1 .. Len(st) - 1 |->
                IF l < (CHOOSE m \in K : TRUE) THEN st[l] ELSE st[l + 1]]
  BY DEF Without, K
<1> QED
  BY <1>2, <1>3, Zenon

\* Nothing that was painted later covers a part of layer k.
OnTop(st, cells, k) ==
  \A l \in k + 1 .. Len(st) : cells[st[l]] \cap cells[st[k]] = {}

\* An item nothing covers is taken away, and what it had saved put back.
LEMMA PopLayer ==
  ASSUME NEW I, NEW st \in Seq(I), NEW cells, NEW face, NEW wall, NEW saved, NEW scr,
         NEW k \in 1 .. Len(st), NEW s,
         Layered(st, cells, face, wall, saved, scr), OnTop(st, cells, k),
         \A c \in Cell : s[c] = IF c \in cells[st[k]] THEN saved[st[k]][c] ELSE scr[c]
  PROVE  Layered(Without(st, st[k]), cells, face, wall, saved, s)
<1> DEFINE n == Len(st)
           u == [l \in 1 .. n - 1 |-> IF l < k THEN st[l] ELSE st[l + 1]]
<1>1. n \in Nat \ {0} /\ n - 1 \in Nat /\ DOMAIN st = 1 .. n /\ k \in 1 .. n
  OBVIOUS
<1>2. \A i, j \in 1 .. n : st[i] = st[j] => i = j
  BY DEF Layered
<1>3. Without(st, st[k]) = u
  BY <1>2, WithoutRight
<1>4. u \in Seq(I) /\ Len(u) = n - 1
  <2>1. \A l \in 1 .. n - 1 : l \in 1 .. n /\ l + 1 \in 1 .. n
    BY <1>1
  <2>2. \A l \in 1 .. n : st[l] \in I
    BY <1>1
  <2>3. u \in [1 .. n - 1 -> I]
    BY <2>1, <2>2
  <2> QED
    BY <1>1, <2>3
<1>5. \A l \in 1 .. n - 1 : u[l] = IF l < k THEN st[l] ELSE st[l + 1]
  OBVIOUS
<1> HIDE DEF n, u
<1>6. \A i, j \in 1 .. n - 1 : u[i] = u[j] => i = j
  <2> SUFFICES ASSUME NEW i \in 1 .. n - 1, NEW j \in 1 .. n - 1, u[i] = u[j]
               PROVE  i = j
    OBVIOUS
  <2> DEFINE p(l) == IF l < k THEN l ELSE l + 1
  <2>1. p(i) \in 1 .. n /\ p(j) \in 1 .. n
    BY <1>1
  <2>2. st[p(i)] = st[p(j)]
    BY <1>5
  <2>3. p(i) = p(j)
    <3> HIDE DEF p
    <3> QED
      BY <1>2, <2>1, <2>2
  <2> QED
    BY <1>1, <2>3
\* Layers from i to j of st without k are those from pi to pj, moved up.
<1>7. ASSUME NEW i \in 1 .. n, NEW j \in 0 .. n - 1, NEW c,
             \A l \in (IF i <= k THEN i ELSE i + 1) .. (IF j < k THEN j ELSE j + 1) :
               l # k => c \notin cells[st[l]]
      PROVE  Clear(u, cells, i, j, c)
  <2> SUFFICES ASSUME NEW l \in i .. j PROVE c \notin cells[u[l]]
    BY DEF Clear
  <2>1. CASE l < k
    <3>1. l \in 1 .. n - 1 /\ u[l] = st[l]
      BY <1>1, <1>5, <2>1
    <3>2. l \in (IF i <= k THEN i ELSE i + 1) .. (IF j < k THEN j ELSE j + 1) /\ l # k
      BY <1>1, <2>1
    <3> QED
      BY <1>7, <3>1, <3>2
  <2>2. CASE ~(l < k)
    <3>1. l \in 1 .. n - 1 /\ u[l] = st[l + 1]
      BY <1>1, <1>5, <2>2
    <3>2. /\ l + 1 \in (IF i <= k THEN i ELSE i + 1) .. (IF j < k THEN j ELSE j + 1)
          /\ l + 1 # k
      BY <1>1, <2>2
    <3> QED
      BY <1>7, <3>1, <3>2
  <2> QED
    BY <2>1, <2>2
\* What is seen below layer i of st is seen below the same layer without k,
\* unless k covers the cell.
<1>8. ASSUME NEW i \in 1 .. n + 1, NEW c, NEW v, Sees(st, cells, face, wall, i, c, v),
             i <= k \/ c \notin cells[st[k]]
      PROVE  Sees(u, cells, face, wall, IF i <= k THEN i ELSE i - 1, c, v)
  <2> DEFINE m == IF i <= k THEN i ELSE i - 1
  <2>1. m \in 1 .. n /\ m - 1 \in 0 .. n - 1
    BY <1>1
  <2>2. CASE v = wall[c] /\ Clear(st, cells, 1, i - 1, c)
    <3>1. Clear(u, cells, 1, m - 1, c)
      <4>1. \A l \in (IF 1 <= k THEN 1 ELSE 2)
                     .. (IF m - 1 < k THEN m - 1 ELSE (m - 1) + 1) :
              l # k => c \notin cells[st[l]]
        BY <1>1, <2>2 DEF Clear
      <4> HIDE DEF m
      <4>2. 1 \in 1 .. n
        BY <1>1
      <4> QED
        BY <1>7, <2>1, <4>1, <4>2
    <3> QED
      BY <2>2, <3>1 DEF Sees
  <2>3. ASSUME NEW l \in 1 .. i - 1, c \in cells[st[l]], v = face[st[l]],
               Clear(st, cells, l + 1, i - 1, c)
        PROVE  Sees(u, cells, face, wall, m, c, v)
    <3> DEFINE q == IF l < k THEN l ELSE l - 1
    <3>1. l # k
      BY <1>1, <1>8, <2>3
    <3>2. q \in 1 .. n - 1 /\ q \in 1 .. m - 1 /\ u[q] = st[l]
      BY <1>1, <1>5, <3>1
    <3>3. Clear(u, cells, q + 1, m - 1, c)
      <4>1. \A j \in (IF q + 1 <= k THEN q + 1 ELSE (q + 1) + 1)
                     .. (IF m - 1 < k THEN m - 1 ELSE (m - 1) + 1) :
              j # k => c \notin cells[st[j]]
        <5> SUFFICES ASSUME NEW j \in (IF q + 1 <= k THEN q + 1 ELSE (q + 1) + 1)
                              .. (IF m - 1 < k THEN m - 1 ELSE (m - 1) + 1), j # k
                     PROVE  c \notin cells[st[j]]
          OBVIOUS
        <5>1. j \in l + 1 .. i - 1
          BY <1>1, <3>1
        <5> QED
          BY <2>3, <5>1 DEF Clear
      <4>2. q + 1 \in 1 .. n
        BY <1>1, <3>2
      <4> HIDE DEF m, q
      <4> QED
        BY <1>7, <2>1, <4>1, <4>2
    <3> QED
      BY <2>3, <3>2, <3>3 DEF Sees
  <2> QED
    BY <1>8, <2>2, <2>3 DEF Sees
<1>9. ASSUME NEW i \in 1 .. n - 1, NEW c \in cells[u[i]]
      PROVE  Sees(u, cells, face, wall, i, c, saved[u[i]][c])
  <2>1. CASE i < k
    <3>1. u[i] = st[i] /\ i \in 1 .. n
      BY <1>1, <1>5, <2>1
    <3>2. Sees(st, cells, face, wall, i, c, saved[st[i]][c])
      BY <1>9, <3>1 DEF Layered, n
    <3>3. i <= k /\ i \in 1 .. n + 1
      BY <1>1, <2>1
    <3> QED
      BY <1>8, <3>1, <3>2, <3>3
  <2>2. CASE ~(i < k)
    <3>1. u[i] = st[i + 1] /\ i + 1 \in 1 .. n /\ i + 1 \in k + 1 .. n
      BY <1>1, <1>5, <2>2
    <3>2. Sees(st, cells, face, wall, i + 1, c, saved[st[i + 1]][c])
      BY <1>9, <3>1 DEF Layered, n
    <3>3. c \notin cells[st[k]]
      BY <1>9, <3>1 DEF OnTop, n
    <3>4. i + 1 \in 1 .. n + 1 /\ ~(i + 1 <= k) /\ (i + 1) - 1 = i
      BY <1>1, <2>2
    <3>5. Sees(u, cells, face, wall, IF i + 1 <= k THEN i + 1 ELSE (i + 1) - 1, c,
               saved[st[i + 1]][c])
      BY <1>8, <3>2, <3>3, <3>4
    <3> QED
      BY <3>1, <3>4, <3>5
  <2> QED
    BY <2>1, <2>2
<1>10. ASSUME NEW c \in Cell
       PROVE  Sees(u, cells, face, wall, (n - 1) + 1, c, s[c])
  <2>1. CASE c \in cells[st[k]]
    <3>1. Sees(st, cells, face, wall, k, c, s[c])
      BY <1>1, <2>1 DEF Layered, n
    <3>2. Sees(u, cells, face, wall, k, c, s[c])
      <4>1. k \in 1 .. n + 1 /\ k <= k
        BY <1>1
      <4> QED
        BY <1>8, <3>1, <4>1
    <3>3. ASSUME NEW i \in Nat \ {0}, i <= k, Clear(u, cells, i, k - 1, c)
          PROVE  Clear(u, cells, i, ((n - 1) + 1) - 1, c)
      <4> SUFFICES ASSUME NEW l \in i .. n - 1 PROVE c \notin cells[u[l]]
        BY <1>1 DEF Clear
      <4>1. CASE l < k
        <5>1. l \in i .. k - 1
          BY <1>1, <4>1
        <5> QED
          BY <3>3, <5>1 DEF Clear
      <4>2. CASE ~(l < k)
        <5>1. l \in 1 .. n - 1 /\ u[l] = st[l + 1] /\ l + 1 \in k + 1 .. n
          BY <1>1, <1>5, <4>2
        <5> QED
          BY <2>1, <5>1 DEF OnTop, n
      <4> QED
        BY <4>1, <4>2
    <3>4. CASE s[c] = wall[c] /\ Clear(u, cells, 1, k - 1, c)
      <4>1. Clear(u, cells, 1, ((n - 1) + 1) - 1, c)
        BY <1>1, <3>3, <3>4
      <4> QED
        BY <3>4, <4>1 DEF Sees
    <3>5. ASSUME NEW l \in 1 .. k - 1, c \in cells[u[l]], s[c] = face[u[l]],
                 Clear(u, cells, l + 1, k - 1, c)
          PROVE  Sees(u, cells, face, wall, (n - 1) + 1, c, s[c])
      <4>1. l + 1 \in Nat \ {0} /\ l + 1 <= k /\ l \in 1 .. ((n - 1) + 1) - 1
        BY <1>1
      <4>2. Clear(u, cells, l + 1, ((n - 1) + 1) - 1, c)
        BY <3>3, <3>5, <4>1
      <4> QED
        BY <3>5, <4>1, <4>2 DEF Sees
    <3> QED
      BY <3>2, <3>4, <3>5 DEF Sees
  <2>2. CASE c \notin cells[st[k]]
    <3>1. Sees(st, cells, face, wall, n + 1, c, s[c])
      BY <2>2 DEF Layered, n
    <3>2. n + 1 \in 1 .. n + 1 /\ ~(n + 1 <= k) /\ (n + 1) - 1 = (n - 1) + 1
      BY <1>1
    <3>3. Sees(u, cells, face, wall, IF n + 1 <= k THEN n + 1 ELSE (n + 1) - 1, c, s[c])
      BY <1>8, <2>2, <3>1, <3>2
    <3> QED
      BY <3>2, <3>3
  <2> QED
    BY <2>1, <2>2
<1> QED
  BY <1>3, <1>4, <1>6, <1>9, <1>10 DEF Layered

\* An item nothing covers is painted anew.
LEMMA RepaintLayer ==
  ASSUME NEW I, NEW st \in Seq(I), NEW cells, NEW face, NEW wall, NEW saved, NEW scr,
         NEW k \in 1 .. Len(st), NEW d, NEW f, NEW b, NEW s,
         Layered(st, cells, face, wall, saved, scr), OnTop(st, cells, k),
         \A l \in 1 .. Len(st) :
           /\ d[st[l]] = cells[st[l]] /\ b[st[l]] = saved[st[l]]
           /\ l # k => f[st[l]] = face[st[l]],
         \A c \in Cell : s[c] = IF c \in cells[st[k]] THEN f[st[k]] ELSE scr[c]
  PROVE  Layered(st, d, f, wall, b, s)
<1>1. Len(st) \in Nat
  OBVIOUS
<1>2. ASSUME NEW i \in 1 .. Len(st) + 1, NEW c, NEW v, Sees(st, cells, face, wall, i, c, v),
             i <= k \/ c \notin cells[st[k]]
      PROVE  Sees(st, d, f, wall, i, c, v)
  <2>1. \A l \in 1 .. i - 1 :
          d[st[l]] = cells[st[l]] /\ (c \in cells[st[l]] => f[st[l]] = face[st[l]])
    BY <1>1, <1>2
  <2>2. i \in Nat
    BY <1>1
  <2> QED
    BY <1>2, <2>1, <2>2, SeesSame
<1>3. ASSUME NEW i \in 1 .. Len(st), NEW c \in d[st[i]]
      PROVE  Sees(st, d, f, wall, i, c, b[st[i]][c])
  <2>1. Sees(st, cells, face, wall, i, c, b[st[i]][c]) /\ c \in cells[st[i]]
    BY <1>3 DEF Layered
  <2>2. i <= k \/ c \notin cells[st[k]]
    <3> SUFFICES ASSUME ~(i <= k) PROVE c \notin cells[st[k]]
      OBVIOUS
    <3>1. i \in k + 1 .. Len(st)
      BY <1>1
    <3> QED
      BY <2>1, <3>1 DEF OnTop
  <2>3. i \in 1 .. Len(st) + 1
    BY <1>1
  <2> QED
    BY <1>2, <2>1, <2>2, <2>3
<1>4. ASSUME NEW c \in Cell
      PROVE  Sees(st, d, f, wall, Len(st) + 1, c, s[c])
  <2>1. CASE c \in cells[st[k]]
    <3>1. k \in 1 .. (Len(st) + 1) - 1 /\ c \in d[st[k]] /\ s[c] = f[st[k]]
      BY <1>1, <2>1
    <3>2. Clear(st, d, k + 1, (Len(st) + 1) - 1, c)
      <4> SUFFICES ASSUME NEW l \in k + 1 .. (Len(st) + 1) - 1 PROVE c \notin d[st[l]]
        BY DEF Clear
      <4>1. l \in k + 1 .. Len(st) /\ l \in 1 .. Len(st)
        BY <1>1
      <4> QED
        BY <2>1, <4>1 DEF OnTop
    <3> QED
      BY <3>1, <3>2 DEF Sees
  <2>2. CASE c \notin cells[st[k]]
    <3>1. Sees(st, cells, face, wall, Len(st) + 1, c, s[c])
      BY <2>2 DEF Layered
    <3>2. Len(st) + 1 \in 1 .. Len(st) + 1
      BY <1>1
    <3> QED
      BY <1>2, <2>2, <3>1, <3>2
  <2> QED
    BY <2>1, <2>2
<1>5. \A i, j \in 1 .. Len(st) : st[i] = st[j] => i = j
  BY DEF Layered
<1> QED
  BY <1>3, <1>4, <1>5 DEF Layered

\* The icon changes, and nothing covers it.
LEMMA WallLayer ==
  ASSUME NEW I, NEW st \in Seq(I), NEW cells, NEW face, NEW wall, NEW saved, NEW scr,
         NEW d, NEW f, NEW b, NEW w, NEW s,
         Layered(st, cells, face, wall, saved, scr),
         \A k \in 1 .. Len(st) :
           /\ d[st[k]] = cells[st[k]] /\ f[st[k]] = face[st[k]] /\ b[st[k]] = saved[st[k]]
           /\ IconCell \notin cells[st[k]] /\ cells[st[k]] \subseteq Cell,
         \A c \in Cell : s[c] = IF c = IconCell THEN w[c] ELSE scr[c],
         \A c \in Cell : c # IconCell => w[c] = wall[c]
  PROVE  Layered(st, d, f, w, b, s)
<1>1. Len(st) \in Nat
  OBVIOUS
<1>2. ASSUME NEW k \in 1 .. Len(st) + 1, NEW c \in Cell, c # IconCell, NEW v,
             Sees(st, cells, face, wall, k, c, v)
      PROVE  Sees(st, d, f, w, k, c, v)
  <2>1. \A l \in 1 .. k - 1 :
          d[st[l]] = cells[st[l]] /\ (c \in cells[st[l]] => f[st[l]] = face[st[l]])
    BY <1>1
  <2>2. k \in Nat /\ w[c] = wall[c]
    BY <1>1, <1>2
  <2> QED
    BY <1>2, <2>1, <2>2, SeesSame
<1>3. ASSUME NEW k \in 1 .. Len(st), NEW c \in d[st[k]]
      PROVE  Sees(st, d, f, w, k, c, b[st[k]][c])
  <2>1. Sees(st, cells, face, wall, k, c, b[st[k]][c]) /\ c # IconCell /\ c \in Cell
    BY <1>3 DEF Layered
  <2>2. k \in 1 .. Len(st) + 1
    BY <1>1
  <2> QED
    BY <1>2, <2>1, <2>2
<1>4. ASSUME NEW c \in Cell
      PROVE  Sees(st, d, f, w, Len(st) + 1, c, s[c])
  <2>1. CASE c = IconCell
    <3>1. Clear(st, d, 1, (Len(st) + 1) - 1, c)
      BY <1>1, <2>1 DEF Clear
    <3> QED
      BY <2>1, <3>1 DEF Sees
  <2>2. CASE c # IconCell
    <3>1. Sees(st, cells, face, wall, Len(st) + 1, c, s[c])
      BY <2>2 DEF Layered
    <3>2. Len(st) + 1 \in 1 .. Len(st) + 1
      BY <1>1
    <3> QED
      BY <1>2, <2>2, <3>1, <3>2
  <2> QED
    BY <2>1, <2>2
<1>5. \A i, j \in 1 .. Len(st) : st[i] = st[j] => i = j
  BY DEF Layered
<1> QED
  BY <1>3, <1>4, <1>5 DEF Layered

-----------------------------------------------------------------------------
(* The desktop as layers                                                   *)

Item == Slot \cup {Popup, Cursor}

\* What a list of My Computer holds.
Kind == {"drive", "up", "dir", "file"}

\* What a cell can show.
Val == {<<"desk">>, <<"icon">>, <<"halo">>, <<"white">>, <<"cursor">>}
       \cup {<<"fm", l>> : l \in Seq(Kind)} \cup {<<"menu", h>> : h \in Int}

Part == (UNION {[C -> Val] : C \in SUBSET Cell}) \cup {None}
Sav == {None} \cup {<<f>> : f \in Part}
Win == [used : BOOLEAN, owner : Int, x : Int, w : Int, saved : Sav, drag : Int]
Menu == [open : BOOLEAN, hover : Int, saved : Sav]
Fm == [dir : Int, list : Seq(Kind)]
Cur == [at : Pointer, saved : Sav]
Ui == [scr : [Cell -> Val], win : [Slot -> Win], menu : Menu, hover : BOOLEAN,
       clean : BOOLEAN, fx : Int, fm : Fm, cur : Cur, bufs : Int,
       stack : Seq(Item), tidy : BOOLEAN]

SavedOf(s, i) ==
  IF i = Popup THEN s.menu.saved ELSE IF i = Cursor THEN s.cur.saved ELSE s.win[i].saved

Look(s, i) ==
  IF i = Popup THEN <<"menu", s.menu.hover>>
  ELSE IF i = Cursor THEN <<"cursor">> ELSE Face(s.fm, s.win[i].owner = Kernel)

CellsOf(s) == [i \in Item |-> Cells(s, i)]
Looks(s) == [i \in Item |-> Look(s, i)]
Behind(s) == [i \in Item |-> SavedOf(s, i)[1]]

\* The items J lie on the screen, and each has saved what it covers.
Sound(s, J) ==
  /\ {s.stack[k] : k \in 1 .. Len(s.stack)} = J
  /\ \A i \in J : SavedOf(s, i) # None /\ DOMAIN SavedOf(s, i)[1] = Cells(s, i)
  /\ Layered(s.stack, CellsOf(s), Looks(s), Wallpaper(s.hover), Behind(s), s.scr)

\* The items I look the same in s and t.
Alike(s, t, I) ==
  \A i \in I : /\ Cells(t, i) = Cells(s, i) /\ Look(t, i) = Look(s, i)
               /\ SavedOf(t, i) = SavedOf(s, i)

LEMMA SlotRight ==
  /\ Cardinality(Slot) \in Nat /\ Slot \subseteq Nat \ {0} /\ IsFiniteSet(Slot)
  /\ Slot = 1 .. Cardinality(Slot)
  /\ Popup \notin Slot /\ Cursor \notin Slot /\ NoWindow \notin Slot /\ Popup # Cursor
  /\ Slot \subseteq Item /\ Popup \in Item /\ Cursor \in Item /\ Kernel \notin App
  /\ Cols \in Nat \ {0} /\ WinW \in Nat \ {0} /\ App \subseteq Nat
  /\ Widths \subseteq Nat \ {0}
<1>1. Cardinality(Slot) \in Nat
  BY DesktopAssumption, FS_CardinalityType
<1> QED
  BY <1>1, DesktopAssumption DEF Item, Popup, Cursor, NoWindow, Kernel

LEMMA UiFields ==
  ASSUME NEW s \in Ui
  PROVE  /\ s.scr \in [Cell -> Val] /\ s.win \in [Slot -> Win] /\ s.menu \in Menu
         /\ s.hover \in BOOLEAN /\ s.clean \in BOOLEAN /\ s.fx \in Int /\ s.fm \in Fm
         /\ s.cur \in Cur
         /\ s.bufs \in Int /\ s.stack \in Seq(Item) /\ s.tidy \in BOOLEAN
  BY DEF Ui

LEMMA CellsInCell ==
  ASSUME NEW s, NEW i
  PROVE  Cells(s, i) \subseteq Cell
<1>1. MenuCell \in Cell
  BY SlotRight DEF MenuCell, Cell
<1> QED
  BY <1>1 DEF Cells, Area

LEMMA StackItems ==
  ASSUME NEW s \in Ui, NEW J, Sound(s, J)
  PROVE  /\ s.stack \in Seq(Item) /\ Len(s.stack) \in Nat /\ J \subseteq Item
         /\ \A k \in 1 .. Len(s.stack) : s.stack[k] \in J /\ s.stack[k] \in Item
         /\ \A i \in J : \E k \in 1 .. Len(s.stack) : s.stack[k] = i
<1>1. s.stack \in Seq(Item)
  BY UiFields
<1>2. \A k \in 1 .. Len(s.stack) : s.stack[k] \in Item
  BY <1>1
<1> QED
  BY <1>1, <1>2 DEF Sound

LEMMA Entries ==
  ASSUME NEW s, NEW i \in Item
  PROVE  /\ CellsOf(s)[i] = Cells(s, i) /\ Looks(s)[i] = Look(s, i)
         /\ Behind(s)[i] = SavedOf(s, i)[1]
  BY DEF CellsOf, Looks, Behind

\* Nothing that lies there, and nothing one sees, has changed.
LEMMA SoundSame ==
  ASSUME NEW s \in Ui, NEW J, Sound(s, J), NEW t, Alike(s, t, J),
         t.stack = s.stack, t.scr = s.scr, t.hover = s.hover
  PROVE  Sound(t, J)
<1> DEFINE st == s.stack
<1>1. /\ st \in Seq(Item) /\ J \subseteq Item
      /\ \A k \in 1 .. Len(st) : st[k] \in J /\ st[k] \in Item
  BY StackItems
<1>2. Layered(st, CellsOf(s), Looks(s), Wallpaper(s.hover), Behind(s), s.scr)
  BY DEF Sound
<1>3. \A k \in 1 .. Len(st) : /\ CellsOf(t)[st[k]] = CellsOf(s)[st[k]]
                              /\ Looks(t)[st[k]] = Looks(s)[st[k]]
                              /\ Behind(t)[st[k]] = Behind(s)[st[k]]
  BY <1>1, Entries DEF Alike
<1>4. Layered(st, CellsOf(t), Looks(t), Wallpaper(s.hover), Behind(t), s.scr)
  <2> HIDE DEF st
  <2> QED
    BY <1>1, <1>2, <1>3, SameLayers
<1> QED
  BY <1>4 DEF Sound, Alike

\* item comes to lie on top.
LEMMA SoundPush ==
  ASSUME NEW s \in Ui, NEW J, Sound(s, J), NEW t, NEW item \in Item \ J, Alike(s, t, J),
         t.stack = Append(s.stack, item), t.hover = s.hover,
         SavedOf(t, item) # None, DOMAIN SavedOf(t, item)[1] = Cells(t, item),
         \A c \in Cells(t, item) : SavedOf(t, item)[1][c] = s.scr[c],
         \A c \in Cell : t.scr[c] = IF c \in Cells(t, item) THEN Look(t, item) ELSE s.scr[c]
  PROVE  Sound(t, J \cup {item})
<1> DEFINE st == s.stack
<1>1. /\ st \in Seq(Item) /\ J \subseteq Item /\ Len(st) \in Nat
      /\ \A k \in 1 .. Len(st) : st[k] \in J /\ st[k] \in Item
  BY StackItems
<1>2. Layered(st, CellsOf(s), Looks(s), Wallpaper(s.hover), Behind(s), s.scr)
  BY DEF Sound
<1>3. \A k \in 1 .. Len(st) : /\ st[k] # item
                              /\ CellsOf(t)[st[k]] = CellsOf(s)[st[k]]
                              /\ Looks(t)[st[k]] = Looks(s)[st[k]]
                              /\ Behind(t)[st[k]] = Behind(s)[st[k]]
  BY <1>1, Entries DEF Alike
<1>4. CellsOf(t)[item] = Cells(t, item) /\ Looks(t)[item] = Look(t, item)
      /\ Behind(t)[item] = SavedOf(t, item)[1]
  BY Entries
<1>5. CellsOf(t)[item] \subseteq Cell
  BY <1>4, CellsInCell
<1>6. /\ \A c \in CellsOf(t)[item] : Behind(t)[item][c] = s.scr[c]
      /\ \A c \in Cell : t.scr[c] = IF c \in CellsOf(t)[item] THEN Looks(t)[item]
                                    ELSE s.scr[c]
  BY <1>4
<1>7. Layered(Append(st, item), CellsOf(t), Looks(t), Wallpaper(s.hover), Behind(t), t.scr)
  <2> HIDE DEF st
  <2> QED
    BY <1>1, <1>2, <1>3, <1>5, <1>6, PushLayer
<1>8. {t.stack[k] : k \in 1 .. Len(t.stack)} = J \cup {item}
  <2>1. Len(t.stack) = Len(st) + 1 /\ t.stack[Len(st) + 1] = item
        /\ \A k \in 1 .. Len(st) : t.stack[k] = st[k]
    BY <1>1
  <2>2. {st[k] : k \in 1 .. Len(st)} = J
    BY DEF Sound
  <2> HIDE DEF st
  <2> QED
    BY <1>1, <2>1, <2>2
<1> QED
  BY <1>7, <1>8 DEF Sound, Alike

LEMMA TopRight ==
  ASSUME NEW s \in Ui, NEW J, Sound(s, J), NEW k \in 1 .. Len(s.stack),
         Uncovered(s, s.stack[k])
  PROVE  OnTop(s.stack, CellsOf(s), k)
<1> DEFINE st == s.stack
<1>1. /\ st \in Seq(Item) /\ Len(st) \in Nat
      /\ \A l \in 1 .. Len(st) : st[l] \in Item
  BY StackItems
<1>2. ASSUME NEW l \in k + 1 .. Len(st)
      PROVE  CellsOf(s)[st[l]] \cap CellsOf(s)[st[k]] = {}
  <2>1. l \in 1 .. Len(st) /\ k \in DOMAIN st
    BY <1>1
  <2>2. Cells(s, st[l]) \cap Cells(s, st[k]) = {}
    BY <1>2, <2>1 DEF Uncovered
  <2> QED
    BY <1>1, <2>1, <2>2, Entries
<1> QED
  BY <1>2 DEF OnTop

\* item, which nothing covers, is taken away.
LEMMA SoundPop ==
  ASSUME NEW s \in Ui, NEW J, Sound(s, J), NEW t, NEW item \in J, Alike(s, t, J \ {item}),
         Uncovered(s, item), t.stack = Without(s.stack, item), t.hover = s.hover,
         \A c \in Cell : t.scr[c] = IF c \in Cells(s, item) THEN SavedOf(s, item)[1][c]
                                    ELSE s.scr[c]
  PROVE  Sound(t, J \ {item})
<1> DEFINE st == s.stack
<1>1. /\ st \in Seq(Item) /\ J \subseteq Item /\ Len(st) \in Nat
      /\ \A k \in 1 .. Len(st) : st[k] \in J /\ st[k] \in Item
      /\ \E k \in 1 .. Len(st) : st[k] = item
  BY StackItems
<1>2. PICK k \in 1 .. Len(st) : st[k] = item
  BY <1>1
<1>3. /\ Layered(st, CellsOf(s), Looks(s), Wallpaper(s.hover), Behind(s), s.scr)
      /\ \A i, j \in 1 .. Len(st) : st[i] = st[j] => i = j
  BY DEF Sound, Layered
<1>4. OnTop(st, CellsOf(s), k)
  BY <1>2, TopRight
<1>5. \A c \in Cell : t.scr[c] = IF c \in CellsOf(s)[st[k]] THEN Behind(s)[st[k]][c]
                                 ELSE s.scr[c]
  BY <1>1, <1>2, Entries
<1>6. Layered(Without(st, st[k]), CellsOf(s), Looks(s), Wallpaper(s.hover), Behind(s), t.scr)
  <2> HIDE DEF st
  <2> QED
    BY <1>1, <1>3, <1>4, <1>5, PopLayer
<1> DEFINE u == Without(st, st[k])
<1>7. u = [l \in 1 .. Len(st) - 1 |-> IF l < k THEN st[l] ELSE st[l + 1]]
  <2> HIDE DEF st
  <2> QED
    BY <1>1, <1>3, WithoutRight
<1>8. u \in Seq(Item) /\ Len(u) = Len(st) - 1
  <2> HIDE DEF u, st
  <2>1. \A l \in 1 .. Len(st) - 1 : l \in 1 .. Len(st) /\ l + 1 \in 1 .. Len(st)
    BY <1>1
  <2>2. u \in [1 .. Len(st) - 1 -> Item]
    BY <1>1, <1>7, <2>1
  <2>3. Len(st) - 1 \in Nat
    BY <1>1, <1>2
  <2> QED
    BY <2>2, <2>3
<1>9. {u[l] : l \in 1 .. Len(u)} = J \ {item}
  <2> DEFINE m == Len(st)
  <2>1. {st[l] : l \in 1 .. m} = J /\ m \in Nat
    BY <1>1 DEF Sound
  <2>2. \A l \in 1 .. m - 1 : u[l] = IF l < k THEN st[l] ELSE st[l + 1]
    <3> HIDE DEF u
    <3> QED
      BY <1>7
  <2>3. Len(u) = m - 1 /\ k \in 1 .. m /\ st[k] = item
        /\ \A i, j \in 1 .. m : st[i] = st[j] => i = j
    BY <1>2, <1>3, <1>8
  <2> HIDE DEF u, st, m
  <2>4. ASSUME NEW l \in 1 .. m - 1 PROVE u[l] \in J \ {item}
    <3>1. CASE l < k
      <4>1. l \in 1 .. m /\ l # k /\ u[l] = st[l]
        BY <2>1, <2>2, <2>3, <3>1
      <4> QED
        BY <2>1, <2>3, <4>1
    <3>2. CASE ~(l < k)
      <4>1. l + 1 \in 1 .. m /\ l + 1 # k /\ u[l] = st[l + 1]
        BY <2>1, <2>2, <2>3, <3>2
      <4> QED
        BY <2>1, <2>3, <4>1
    <3> QED
      BY <3>1, <3>2
  <2>5. ASSUME NEW j \in J \ {item} PROVE \E l \in 1 .. m - 1 : u[l] = j
    <3>1. PICK i \in 1 .. m : st[i] = j
      BY <2>1
    <3>2. CASE i < k
      <4>1. i \in 1 .. m - 1 /\ u[i] = st[i]
        BY <2>1, <2>2, <2>3, <3>2
      <4> QED
        BY <3>1, <4>1
    <3>3. CASE ~(i < k)
      <4>1. i # k
        BY <2>3, <3>1
      <4>2. i - 1 \in 1 .. m - 1 /\ ~(i - 1 < k) /\ (i - 1) + 1 = i
        BY <2>1, <2>3, <3>3, <4>1
      <4>3. u[i - 1] = st[i]
        BY <2>2, <4>2
      <4> QED
        BY <3>1, <4>2, <4>3
    <3> QED
      BY <3>2, <3>3
  <2> QED
    BY <2>3, <2>4, <2>5
<1>10. Layered(u, CellsOf(t), Looks(t), Wallpaper(s.hover), Behind(t), t.scr)
  <2>1. \A l \in 1 .. Len(u) : /\ CellsOf(t)[u[l]] = CellsOf(s)[u[l]]
                               /\ Looks(t)[u[l]] = Looks(s)[u[l]]
                               /\ Behind(t)[u[l]] = Behind(s)[u[l]]
    <3> HIDE DEF u, st
    <3>1. \A l \in 1 .. Len(u) : u[l] \in J \ {item} /\ u[l] \in Item
      BY <1>1, <1>9
    <3> QED
      BY <3>1, Entries DEF Alike
  <2> HIDE DEF st, u
  <2>2. Layered(u, CellsOf(s), Looks(s), Wallpaper(s.hover), Behind(s), t.scr)
    BY <1>6 DEF u
  <2> QED
    BY <1>8, <2>1, <2>2, SameLayers
<1>11. t.stack = u
  BY <1>2
<1> HIDE DEF u, st
<1>12. \A i \in J \ {item} : SavedOf(t, i) # None /\ DOMAIN SavedOf(t, i)[1] = Cells(t, i)
  BY DEF Sound, Alike
<1> QED
  BY <1>9, <1>10, <1>11, <1>12 DEF Sound

\* item, which nothing covers, is painted anew.
LEMMA SoundRepaint ==
  ASSUME NEW s \in Ui, NEW J, Sound(s, J), NEW t, NEW item \in J, Alike(s, t, J \ {item}),
         Cells(t, item) = Cells(s, item), SavedOf(t, item) = SavedOf(s, item),
         Uncovered(s, item), t.stack = s.stack, t.hover = s.hover,
         \A c \in Cell : t.scr[c] = IF c \in Cells(s, item) THEN Look(t, item)
                                    ELSE s.scr[c]
  PROVE  Sound(t, J)
<1> DEFINE st == s.stack
<1>1. /\ st \in Seq(Item) /\ J \subseteq Item /\ Len(st) \in Nat
      /\ \A k \in 1 .. Len(st) : st[k] \in J /\ st[k] \in Item
      /\ \E k \in 1 .. Len(st) : st[k] = item
  BY StackItems
<1>2. PICK k \in 1 .. Len(st) : st[k] = item
  BY <1>1
<1>3. /\ Layered(st, CellsOf(s), Looks(s), Wallpaper(s.hover), Behind(s), s.scr)
      /\ \A i, j \in 1 .. Len(st) : st[i] = st[j] => i = j
  BY DEF Sound, Layered
<1>4. OnTop(st, CellsOf(s), k)
  BY <1>2, TopRight
<1>5. \A c \in Cell : t.scr[c] = IF c \in CellsOf(s)[st[k]] THEN Looks(t)[st[k]]
                                 ELSE s.scr[c]
  BY <1>1, <1>2, Entries
<1>6. \A l \in 1 .. Len(st) : /\ CellsOf(t)[st[l]] = CellsOf(s)[st[l]]
                              /\ Behind(t)[st[l]] = Behind(s)[st[l]]
                              /\ l # k => Looks(t)[st[l]] = Looks(s)[st[l]]
  <2> SUFFICES ASSUME NEW l \in 1 .. Len(st)
               PROVE  /\ CellsOf(t)[st[l]] = CellsOf(s)[st[l]]
                      /\ Behind(t)[st[l]] = Behind(s)[st[l]]
                      /\ l # k => Looks(t)[st[l]] = Looks(s)[st[l]]
    OBVIOUS
  <2>1. st[l] \in J /\ st[l] \in Item /\ (l # k => st[l] # item)
    BY <1>1, <1>2, <1>3
  <2> HIDE DEF st
  <2> QED
    BY <2>1, Entries DEF Alike
<1>7. Layered(st, CellsOf(t), Looks(t), Wallpaper(s.hover), Behind(t), t.scr)
  <2> HIDE DEF st
  <2> QED
    BY <1>1, <1>3, <1>4, <1>5, <1>6, RepaintLayer
<1>8. \A i \in J : SavedOf(t, i) # None /\ DOMAIN SavedOf(t, i)[1] = Cells(t, i)
  BY DEF Sound, Alike
<1>9. {t.stack[l] : l \in 1 .. Len(t.stack)} = J
  BY DEF Sound
<1> QED
  BY <1>7, <1>8, <1>9 DEF Sound

\* The icon, which nothing covers, is painted anew.
LEMMA SoundWall ==
  ASSUME NEW s \in Ui, NEW J, Sound(s, J), NEW t, Alike(s, t, J),
         \A k \in DOMAIN s.stack : IconCell \notin Cells(s, s.stack[k]),
         t.stack = s.stack,
         \A c \in Cell : t.scr[c] = IF c = IconCell THEN IconFace(t.hover) ELSE s.scr[c]
  PROVE  Sound(t, J)
<1> DEFINE st == s.stack
<1>1. /\ st \in Seq(Item) /\ J \subseteq Item /\ Len(st) \in Nat
      /\ \A k \in 1 .. Len(st) : st[k] \in J /\ st[k] \in Item
  BY StackItems
<1>2. Layered(st, CellsOf(s), Looks(s), Wallpaper(s.hover), Behind(s), s.scr)
  BY DEF Sound
<1>3. \A k \in 1 .. Len(st) : /\ CellsOf(t)[st[k]] = CellsOf(s)[st[k]]
                              /\ Looks(t)[st[k]] = Looks(s)[st[k]]
                              /\ Behind(t)[st[k]] = Behind(s)[st[k]]
                              /\ IconCell \notin CellsOf(s)[st[k]]
                              /\ CellsOf(s)[st[k]] \subseteq Cell
  <2>1. \A k \in 1 .. Len(st) : /\ IconCell \notin Cells(s, st[k])
                                /\ Cells(s, st[k]) \subseteq Cell
    BY <1>1, CellsInCell
  <2> HIDE DEF st
  <2> QED
    BY <1>1, <2>1, Entries DEF Alike
<1>4. IconCell \in Cell
  BY SlotRight DEF IconCell, Cell
<1>5. \A c \in Cell : t.scr[c] = IF c = IconCell THEN Wallpaper(t.hover)[c] ELSE s.scr[c]
  BY <1>4 DEF Wallpaper
<1>6. \A c \in Cell : c # IconCell => Wallpaper(t.hover)[c] = Wallpaper(s.hover)[c]
  BY DEF Wallpaper
<1>7. Layered(st, CellsOf(t), Looks(t), Wallpaper(t.hover), Behind(t), t.scr)
  <2> DEFINE C == CellsOf(s)  D == CellsOf(t)  F == Looks(s)  G == Looks(t)
             B == Behind(s)  E == Behind(t)  V == Wallpaper(s.hover)
             W == Wallpaper(t.hover)  r == s.scr  q == t.scr
  <2>1. /\ st \in Seq(Item) /\ Layered(st, C, F, V, B, r)
        /\ \A k \in 1 .. Len(st) :
             /\ D[st[k]] = C[st[k]] /\ G[st[k]] = F[st[k]] /\ E[st[k]] = B[st[k]]
             /\ IconCell \notin C[st[k]] /\ C[st[k]] \subseteq Cell
        /\ \A c \in Cell : q[c] = IF c = IconCell THEN W[c] ELSE r[c]
        /\ \A c \in Cell : c # IconCell => W[c] = V[c]
    BY <1>1, <1>2, <1>3, <1>5, <1>6
  <2> HIDE DEF st, C, D, F, G, B, E, V, W, r, q
  <2>2. Layered(st, D, G, W, E, q)
    BY <2>1, WallLayer
  <2> QED
    BY <2>2 DEF D, G, W, E, q
<1>8. \A i \in J : SavedOf(t, i) # None /\ DOMAIN SavedOf(t, i)[1] = Cells(t, i)
  BY DEF Sound, Alike
<1>9. {t.stack[l] : l \in 1 .. Len(t.stack)} = J
  BY DEF Sound
<1> QED
  BY <1>7, <1>8, <1>9 DEF Sound

LEMMA AlikeRight ==
  ASSUME NEW s, NEW t, NEW I \in SUBSET Item,
         \A i \in I \cap Slot :
           /\ t.win[i].x = s.win[i].x /\ t.win[i].w = s.win[i].w
           /\ t.win[i].saved = s.win[i].saved /\ t.win[i].owner = s.win[i].owner
           /\ t.fm = s.fm \/ s.win[i].owner # Kernel,
         Popup \in I => t.menu.hover = s.menu.hover /\ t.menu.saved = s.menu.saved,
         Cursor \in I => t.cur = s.cur
  PROVE  Alike(s, t, I)
<1> SUFFICES ASSUME NEW i \in I
             PROVE  /\ Cells(t, i) = Cells(s, i) /\ Look(t, i) = Look(s, i)
                    /\ SavedOf(t, i) = SavedOf(s, i)
  BY DEF Alike
<1>1. CASE i = Popup
  BY <1>1, SlotRight DEF Cells, Look, SavedOf
<1>2. CASE i = Cursor
  BY <1>2, SlotRight DEF Cells, Look, SavedOf
<1>3. CASE i \in Slot
  <2>1. i # Popup /\ i # Cursor
    BY <1>3, SlotRight
  <2>2. Face(t.fm, t.win[i].owner = Kernel) = Face(s.fm, s.win[i].owner = Kernel)
    BY <1>3 DEF Face
  <2>3. Area(t.win[i]) = Area(s.win[i])
    BY <1>3 DEF Area, Columns
  <2> QED
    BY <1>3, <2>1, <2>2, <2>3 DEF Cells, Look, SavedOf
<1> QED
  BY <1>1, <1>2, <1>3 DEF Item

\* The cells from column x to the right.
Spread(x, w) == ((x .. x + w - 1) \X {0, 1}) \cap Cell

LEMMA AreaRight ==
  ASSUME NEW r
  PROVE  Area(r) = Spread(r.x, r.w) /\ Area(r) \in SUBSET Cell
  BY DEF Area, Columns, Spread

LEMMA WithoutType ==
  ASSUME NEW st \in Seq(Item), NEW item
  PROVE  Without(st, item) \in Seq(Item)
<1> DEFINE K == {k \in DOMAIN st : st[k] = item}
           k == CHOOSE k \in K : TRUE
           u == [l \in 1 .. Len(st) - 1 |-> IF l < k THEN st[l] ELSE st[l + 1]]
<1>1. CASE K = {}
  BY <1>1 DEF Without
<1>2. CASE K # {}
  <2>1. k \in K
    <3> HIDE DEF K
    <3> QED
      BY <1>2
  <2>2. k \in 1 .. Len(st) /\ Len(st) \in Nat
    BY <2>1
  <2> HIDE DEF k
  <2>3. \A l \in 1 .. Len(st) - 1 : l \in 1 .. Len(st) /\ l + 1 \in 1 .. Len(st)
    BY <2>2
  <2>4. \A l \in 1 .. Len(st) : st[l] \in Item
    OBVIOUS
  <2>5. u \in [1 .. Len(st) - 1 -> Item] /\ Len(st) - 1 \in Nat
    BY <2>2, <2>3, <2>4
  <2>6. u \in Seq(Item)
    BY <2>5
  <2> QED
    BY <1>2, <2>6 DEF Without, k
<1> QED
  BY <1>1, <1>2

LEMMA OffRight ==
  ASSUME NEW s \in Ui, NEW item
  PROVE  LET t == Off(s, item) IN
         /\ t \in Ui /\ t.stack = Without(s.stack, item)
         /\ t.tidy = (s.tidy /\ Uncovered(s, item))
         /\ t.scr = s.scr /\ t.win = s.win /\ t.menu = s.menu /\ t.hover = s.hover
         /\ t.fx = s.fx /\ t.fm = s.fm /\ t.cur = s.cur /\ t.bufs = s.bufs
<1> DEFINE v == s.tidy /\ Uncovered(s, item)
           w == Without(s.stack, item)
<1>1. w \in Seq(Item) /\ v \in BOOLEAN
  BY UiFields, WithoutType DEF Uncovered
<1>2. Off(s, item) = [[s EXCEPT !.tidy = v] EXCEPT !.stack = w]
  BY DEF Off, Touch, Ui
<1> HIDE DEF v, w
<1>3. LET t == [[s EXCEPT !.tidy = v] EXCEPT !.stack = w] IN
         /\ t \in Ui /\ t.stack = w
         /\ t.tidy = v
         /\ t.scr = s.scr /\ t.win = s.win /\ t.menu = s.menu /\ t.hover = s.hover
         /\ t.fx = s.fx /\ t.fm = s.fm /\ t.cur = s.cur /\ t.bufs = s.bufs
  BY <1>1 DEF Ui
<1> QED
  BY <1>2, <1>3 DEF v, w

LEMMA TouchRight ==
  ASSUME NEW s \in Ui, NEW item
  PROVE  LET t == Touch(s, item) IN
         /\ t \in Ui /\ t.stack = s.stack
         /\ t.tidy = (s.tidy /\ Uncovered(s, item))
         /\ t.scr = s.scr /\ t.win = s.win /\ t.menu = s.menu /\ t.hover = s.hover
         /\ t.fx = s.fx /\ t.fm = s.fm /\ t.cur = s.cur /\ t.bufs = s.bufs
<1> DEFINE v == s.tidy /\ Uncovered(s, item)
<1>1. v \in BOOLEAN
  BY UiFields DEF Uncovered
<1>2. Touch(s, item) = [s EXCEPT !.tidy = v]
  BY DEF Touch, Ui
<1> HIDE DEF v
<1>3. LET t == [s EXCEPT !.tidy = v] IN
         /\ t \in Ui /\ t.stack = s.stack
         /\ t.tidy = v
         /\ t.scr = s.scr /\ t.win = s.win /\ t.menu = s.menu /\ t.hover = s.hover
         /\ t.fx = s.fx /\ t.fm = s.fm /\ t.cur = s.cur /\ t.bufs = s.bufs
  BY <1>1 DEF Ui
<1> QED
  BY <1>2, <1>3 DEF v

LEMMA OnRight ==
  ASSUME NEW s \in Ui, NEW item \in Item
  PROVE  LET t == On(s, item) IN
         /\ t \in Ui /\ t.stack = Append(s.stack, item) /\ t.tidy = s.tidy
         /\ t.scr = s.scr /\ t.win = s.win /\ t.menu = s.menu /\ t.hover = s.hover
         /\ t.fx = s.fx /\ t.fm = s.fm /\ t.cur = s.cur /\ t.bufs = s.bufs
<1> DEFINE w == Append(s.stack, item)
<1>1. w \in Seq(Item)
  BY UiFields
<1>2. On(s, item) = [s EXCEPT !.stack = w]
  BY DEF On, Ui
<1> HIDE DEF w
<1>3. LET t == [s EXCEPT !.stack = w] IN
         /\ t \in Ui /\ t.stack = w /\ t.tidy = s.tidy
         /\ t.scr = s.scr /\ t.win = s.win /\ t.menu = s.menu /\ t.hover = s.hover
         /\ t.fx = s.fx /\ t.fm = s.fm /\ t.cur = s.cur /\ t.bufs = s.bufs
  BY <1>1 DEF Ui
<1> QED
  BY <1>2, <1>3 DEF w

\* s and t differ in the screen at most.
ButScreen(s, t) ==
  /\ t \in Ui /\ t.stack = s.stack /\ t.tidy = s.tidy
  /\ t.win = s.win /\ t.menu = s.menu /\ t.hover = s.hover
  /\ t.fx = s.fx /\ t.fm = s.fm /\ t.cur = s.cur /\ t.bufs = s.bufs

LEMMA ScreenRight ==
  ASSUME NEW s \in Ui, NEW r \in [Cell -> Val]
  PROVE  ButScreen(s, [s EXCEPT !.scr = r]) /\ [s EXCEPT !.scr = r].scr = r
  BY DEF Ui, ButScreen

LEMMA PaintRight ==
  ASSUME NEW s \in Ui, NEW C, NEW v \in Val
  PROVE  /\ ButScreen(s, Paint(s, C, v))
         /\ \A c \in Cell : Paint(s, C, v).scr[c] = IF c \in C THEN v ELSE s.scr[c]
<1> DEFINE r == [c \in Cell |-> IF c \in C THEN v ELSE s.scr[c]]
<1>1. r \in [Cell -> Val]
  BY UiFields
<1>2. Paint(s, C, v) = [s EXCEPT !.scr = r]
  BY DEF Paint, Ui
<1>3. \A c \in Cell : r[c] = IF c \in C THEN v ELSE s.scr[c]
  OBVIOUS
<1> HIDE DEF r
<1> QED
  BY <1>1, <1>2, <1>3, ScreenRight

LEMMA PutBackRight ==
  ASSUME NEW s \in Ui, NEW f \in Part
  PROVE  /\ ButScreen(s, PutBack(s, f))
         /\ \A c \in Cell :
              PutBack(s, f).scr[c] = IF c \in DOMAIN f THEN f[c] ELSE s.scr[c]
<1> DEFINE r == [c \in Cell |-> IF c \in DOMAIN f THEN f[c] ELSE s.scr[c]]
<1>1. \A c \in DOMAIN f : f[c] \in Val
  BY DEF Part, None
<1>2. r \in [Cell -> Val]
  BY <1>1, UiFields
<1>3. PutBack(s, f) = [s EXCEPT !.scr = r]
  BY DEF PutBack, Ui
<1>4. \A c \in Cell : r[c] = IF c \in DOMAIN f THEN f[c] ELSE s.scr[c]
  OBVIOUS
<1> HIDE DEF r
<1> QED
  BY <1>2, <1>3, <1>4, ScreenRight

LEMMA SavRight ==
  /\ None \in Sav
  /\ \A v \in Sav : v # None => v[1] \in Part
  /\ \A f \in Part : <<f>> \in Sav /\ <<f>> # None /\ <<f>>[1] = f
  /\ None \in Part
  BY DEF Sav, None, Part

LEMMA UnderRight ==
  ASSUME NEW s \in Ui, NEW C \in SUBSET Cell
  PROVE  /\ Under(s, C) \in Part /\ <<Under(s, C)>> \in Sav /\ <<Under(s, C)>> # None
         /\ <<Under(s, C)>>[1] = Under(s, C) /\ DOMAIN Under(s, C) = C
         /\ \A c \in C : Under(s, C)[c] = s.scr[c]
<1>1. Under(s, C) \in [C -> Val] /\ DOMAIN Under(s, C) = C
      /\ \A c \in C : Under(s, C)[c] = s.scr[c]
  BY UiFields DEF Under
<1>2. Under(s, C) \in Part
  BY <1>1 DEF Part
<1> QED
  BY <1>1, <1>2, SavRight

LEMMA ValRight ==
  /\ \A h \in BOOLEAN : IconFace(h) \in Val /\ Wallpaper(h) \in [Cell -> Val]
  /\ \A fm \in Fm, b \in BOOLEAN : Face(fm, b) \in Val
  /\ \A h \in Int : <<"menu", h>> \in Val
  /\ <<"cursor">> \in Val
<1>1. \A h \in BOOLEAN : IconFace(h) \in Val
  BY DEF IconFace, Val
<1>2. \A h \in BOOLEAN : Wallpaper(h) \in [Cell -> Val]
  BY <1>1 DEF Wallpaper, Val
<1>3. \A fm \in Fm, b \in BOOLEAN : Face(fm, b) \in Val
  BY DEF Face, Val, Fm
<1>4. (\A h \in Int : <<"menu", h>> \in Val) /\ <<"cursor">> \in Val
  BY DEF Val
<1> QED
  BY <1>1, <1>2, <1>3, <1>4

-----------------------------------------------------------------------------
(* The invariant, and the cursor and the Menu                              *)

\* What lies on the screen.
Laid(s) ==
  {i \in Slot : s.win[i].used} \cup (IF s.menu.open THEN {Popup} ELSE {})
    \cup (IF s.cur.saved # None THEN {Cursor} ELSE {})

\* The windows of the kernel are that of My Computer.
FxInv(s) ==
  /\ s.fx \in Slot \cup {NoWindow}
  /\ \A i \in Slot : s.win[i].used /\ s.win[i].owner = Kernel <=> i = s.fx

Buffers(s) == {i \in Slot : s.win[i].used /\ s.win[i].saved # None}

BufInv(s) ==
  /\ \A i \in Slot : ~s.win[i].used => s.win[i].saved = None
  /\ s.bufs = Cardinality(Buffers(s))

\* o: whether no task has closed a window of somebody else.
Good(s, o) ==
  /\ s \in Ui /\ BufInv(s)
  /\ (o => FxInv(s)) /\ (s.tidy => o /\ Sound(s, Laid(s)))

LEMMA LaidRight ==
  ASSUME NEW s
  PROVE  /\ Laid(s) \subseteq Item
         /\ Popup \in Laid(s) <=> s.menu.open
         /\ Cursor \in Laid(s) <=> s.cur.saved # None
         /\ \A i \in Slot : i \in Laid(s) <=> s.win[i].used
  BY SlotRight DEF Laid

LEMMA BufSame ==
  ASSUME NEW s, NEW t, BufInv(s), t.bufs = s.bufs,
         \A i \in Slot : t.win[i].used = s.win[i].used /\ t.win[i].saved = s.win[i].saved
  PROVE  BufInv(t)
<1>1. Buffers(t) = Buffers(s)
  BY DEF Buffers
<1> QED
  BY <1>1 DEF BufInv

LEMMA FxSame ==
  ASSUME NEW s, NEW t, FxInv(s), t.fx = s.fx,
         \A i \in Slot : t.win[i].used = s.win[i].used /\ t.win[i].owner = s.win[i].owner
  PROVE  FxInv(t)
  BY DEF FxInv

\* The press of a button changes neither the Menu nor My Computer's number.
Steady(s, t) == t.menu.open = s.menu.open /\ t.fx = s.fx

LEMMA CursorOffRight ==
  ASSUME NEW s, NEW o \in BOOLEAN, Good(s, o)
  PROVE  /\ Good(CursorOff(s), o) /\ Steady(s, CursorOff(s))
         /\ CursorOff(s).cur.saved = None /\ CursorOff(s).menu = s.menu
<1>1. s \in Ui /\ BufInv(s)
  BY DEF Good
<1>2. CASE s.cur.saved = None
  BY <1>2 DEF CursorOff, Steady
<1>3. CASE s.cur.saved # None
  <2> DEFINE u == Off(s, Cursor)
             f == s.cur.saved[1]
             v == PutBack(u, f)
             t == [v EXCEPT !.cur.saved = None]
  <2>1. CursorOff(s) = t
    BY <1>3 DEF CursorOff
  <2>2. /\ u \in Ui /\ u.stack = Without(s.stack, Cursor)
        /\ u.tidy = (s.tidy /\ Uncovered(s, Cursor))
        /\ u.scr = s.scr /\ u.win = s.win /\ u.menu = s.menu /\ u.hover = s.hover
        /\ u.fx = s.fx /\ u.fm = s.fm /\ u.cur = s.cur /\ u.bufs = s.bufs
    BY <1>1, OffRight
  <2>3. f \in Part
    BY <1>1, <1>3, UiFields, SavRight DEF Cur
  <2> HIDE DEF u, f
  <2>4. /\ ButScreen(u, v)
        /\ \A c \in Cell : v.scr[c] = IF c \in DOMAIN f THEN f[c] ELSE u.scr[c]
    BY <2>2, <2>3, PutBackRight
  <2> HIDE DEF v
  <2>5. /\ t \in Ui /\ t.stack = v.stack /\ t.tidy = v.tidy /\ t.scr = v.scr
        /\ t.win = v.win /\ t.menu = v.menu /\ t.hover = v.hover
        /\ t.fx = v.fx /\ t.fm = v.fm /\ t.bufs = v.bufs /\ t.cur.saved = None
    <3>1. v \in Ui /\ v.cur \in Cur
      BY <2>4, UiFields DEF ButScreen
    <3>2. [v.cur EXCEPT !.saved = None] \in Cur /\ [v.cur EXCEPT !.saved = None].saved = None
      BY <3>1, SavRight DEF Cur
    <3>3. t = [v EXCEPT !.cur = [v.cur EXCEPT !.saved = None]]
      BY <3>1 DEF Ui
    <3> DEFINE w == [v.cur EXCEPT !.saved = None]
    <3> HIDE DEF w
    <3>4. LET q == [v EXCEPT !.cur = w] IN
          /\ q \in Ui /\ q.stack = v.stack /\ q.tidy = v.tidy /\ q.scr = v.scr
          /\ q.win = v.win /\ q.menu = v.menu /\ q.hover = v.hover
          /\ q.fx = v.fx /\ q.fm = v.fm /\ q.bufs = v.bufs /\ q.cur = w
      BY <3>1, <3>2 DEF Ui, w
    <3> QED
      BY <3>2, <3>3, <3>4 DEF w
  <2> HIDE DEF t
  <2>6. BufInv(t)
    BY <1>1, <2>2, <2>4, <2>5, BufSame DEF ButScreen
  <2>7. o => FxInv(t)
    BY <2>2, <2>4, <2>5, FxSame DEF Good, ButScreen
  <2>8. ASSUME t.tidy PROVE o /\ Sound(t, Laid(t))
    <3>1. s.tidy /\ Uncovered(s, Cursor)
      BY <2>2, <2>4, <2>5, <2>8 DEF ButScreen
    <3>2. o /\ Sound(s, Laid(s))
      BY <2>8, <3>1 DEF Good
    <3>3. Cursor \in Laid(s) /\ Laid(t) = Laid(s) \ {Cursor}
      BY <1>3, <2>2, <2>4, <2>5, SlotRight DEF Laid, ButScreen
    <3>4. Alike(s, t, Laid(s) \ {Cursor})
      <4>1. Laid(s) \ {Cursor} \in SUBSET Item /\ Cursor \notin Laid(s) \ {Cursor}
        BY LaidRight
      <4>2. t.win = s.win /\ t.fm = s.fm /\ t.menu = s.menu
        BY <2>2, <2>4, <2>5 DEF ButScreen
      <4> QED
        BY <4>1, <4>2, AlikeRight
    <3>5. SavedOf(s, Cursor)[1] = f /\ DOMAIN f = Cells(s, Cursor)
      BY <3>2, <3>3, SlotRight DEF Sound, SavedOf, f
    <3>6. \A c \in Cell : t.scr[c] = IF c \in Cells(s, Cursor) THEN SavedOf(s, Cursor)[1][c]
                                     ELSE s.scr[c]
      BY <2>2, <2>4, <2>5, <3>5
    <3>7. t.stack = Without(s.stack, Cursor) /\ t.hover = s.hover
      BY <2>2, <2>4, <2>5 DEF ButScreen
    <3>8. Sound(t, Laid(s) \ {Cursor})
      BY <1>1, <3>1, <3>2, <3>3, <3>4, <3>6, <3>7, SoundPop
    <3> QED
      BY <3>2, <3>3, <3>8
  <2> QED
    BY <2>1, <2>2, <2>4, <2>5, <2>6, <2>7, <2>8 DEF Good, Steady, ButScreen
<1> QED
  BY <1>2, <1>3

LEMMA CursorOnRight ==
  ASSUME NEW s, NEW o \in BOOLEAN, Good(s, o), s.cur.saved = None, NEW p \in Pointer
  PROVE  Good(CursorOn(s, p), o) /\ Steady(s, CursorOn(s, p))
<1> DEFINE C == {p} \cap Cell
           v == Paint(s, C, <<"cursor">>)
           w == [at |-> p, saved |-> <<Under(s, C)>>]
           q == [v EXCEPT !.cur = w]
           t == On(q, Cursor)
<1>1. s \in Ui /\ BufInv(s)
  BY DEF Good
<1>2. CursorOn(s, p) = t
  BY DEF CursorOn
<1>3. /\ ButScreen(s, v)
      /\ \A c \in Cell : v.scr[c] = IF c \in C THEN <<"cursor">> ELSE s.scr[c]
  BY <1>1, ValRight, PaintRight
<1>4. /\ <<Under(s, C)>> \in Sav /\ <<Under(s, C)>> # None
      /\ <<Under(s, C)>>[1] = Under(s, C) /\ DOMAIN Under(s, C) = C
      /\ \A c \in C : Under(s, C)[c] = s.scr[c]
  BY <1>1, UnderRight
<1>5. w \in Cur /\ w.at = p /\ w.saved = <<Under(s, C)>>
  BY <1>4 DEF Cur
<1> HIDE DEF v, w
<1>6. /\ q \in Ui /\ q.stack = v.stack /\ q.tidy = v.tidy /\ q.scr = v.scr
      /\ q.win = v.win /\ q.menu = v.menu /\ q.hover = v.hover
      /\ q.fx = v.fx /\ q.fm = v.fm /\ q.bufs = v.bufs /\ q.cur = w
  BY <1>3, <1>5 DEF Ui, ButScreen
<1> HIDE DEF q
<1>7. /\ t \in Ui /\ t.stack = Append(q.stack, Cursor) /\ t.tidy = q.tidy
      /\ t.scr = q.scr /\ t.win = q.win /\ t.menu = q.menu /\ t.hover = q.hover
      /\ t.fx = q.fx /\ t.fm = q.fm /\ t.cur = q.cur /\ t.bufs = q.bufs
  BY <1>6, OnRight, SlotRight
<1> HIDE DEF t
<1>8. BufInv(t)
  BY <1>1, <1>3, <1>6, <1>7, BufSame DEF ButScreen
<1>9. o => FxInv(t)
  BY <1>3, <1>6, <1>7, FxSame DEF Good, ButScreen
<1>10. ASSUME t.tidy PROVE o /\ Sound(t, Laid(t))
  <2>1. o /\ Sound(s, Laid(s))
    BY <1>3, <1>6, <1>7, <1>10 DEF Good, ButScreen
  <2>2. Cursor \notin Laid(s) /\ Laid(t) = Laid(s) \cup {Cursor}
    BY <1>3, <1>4, <1>5, <1>6, <1>7, SlotRight DEF Laid, ButScreen
  <2>3. Alike(s, t, Laid(s))
    <3>1. Laid(s) \in SUBSET Item
      BY LaidRight
    <3>2. t.win = s.win /\ t.fm = s.fm /\ t.menu = s.menu
      BY <1>3, <1>6, <1>7 DEF ButScreen
    <3> QED
      BY <2>2, <3>1, <3>2, AlikeRight
  <2>4. SavedOf(t, Cursor) = <<Under(s, C)>> /\ Cells(t, Cursor) = C
        /\ Look(t, Cursor) = <<"cursor">>
    BY <1>5, <1>6, <1>7, SlotRight DEF SavedOf, Cells, Look
  <2>5. /\ SavedOf(t, Cursor) # None /\ DOMAIN SavedOf(t, Cursor)[1] = Cells(t, Cursor)
        /\ \A c \in Cells(t, Cursor) : SavedOf(t, Cursor)[1][c] = s.scr[c]
    BY <1>4, <2>4
  <2>6. \A c \in Cell : t.scr[c] = IF c \in Cells(t, Cursor) THEN Look(t, Cursor) ELSE s.scr[c]
    BY <1>3, <1>6, <1>7, <2>4
  <2>7. t.stack = Append(s.stack, Cursor) /\ t.hover = s.hover /\ Cursor \in Item \ Laid(s)
    BY <1>3, <1>6, <1>7, <2>2, SlotRight DEF ButScreen
  <2>8. Sound(t, Laid(s) \cup {Cursor})
    BY <1>1, <2>1, <2>3, <2>5, <2>6, <2>7, SoundPush
  <2> QED
    BY <2>1, <2>2, <2>8
<1> QED
  BY <1>2, <1>3, <1>6, <1>7, <1>8, <1>9, <1>10 DEF Good, Steady, ButScreen

\* The popup goes, and what it had saved comes back.
LEMMA MenuCloseRight ==
  ASSUME NEW s, NEW o \in BOOLEAN, Good(s, o), s.menu.open
  PROVE  /\ Good(MenuClose(s), o) /\ MenuClose(s).fx = s.fx
         /\ MenuClose(s).cur = s.cur
<1> DEFINE u == Off(s, Popup)
           m == [u.menu EXCEPT !.open = FALSE]
           a == [u EXCEPT !.menu = m]
           v == IF s.menu.saved = None THEN a ELSE PutBack(a, s.menu.saved[1])
           n == IF s.menu.saved = None THEN m ELSE [m EXCEPT !.saved = <<None>>]
           t == [v EXCEPT !.menu = n]
<1>1. s \in Ui /\ BufInv(s) /\ s.menu \in Menu /\ s.menu.saved \in Sav
  BY UiFields DEF Good, Menu
<1>2. /\ u \in Ui /\ u.stack = Without(s.stack, Popup)
      /\ u.tidy = (s.tidy /\ Uncovered(s, Popup))
      /\ u.scr = s.scr /\ u.win = s.win /\ u.menu = s.menu /\ u.hover = s.hover
      /\ u.fx = s.fx /\ u.fm = s.fm /\ u.cur = s.cur /\ u.bufs = s.bufs
  BY <1>1, OffRight
<1> HIDE DEF u
<1>3. m \in Menu /\ m.open = FALSE
  BY <1>1, <1>2 DEF Menu
<1>4. <<None>> \in Sav
  BY SavRight
<1>5. n \in Menu /\ n.open = FALSE
  BY <1>3, <1>4 DEF Menu
<1>6. [u EXCEPT !.menu.open = FALSE] = a
  BY <1>2 DEF Ui
<1> HIDE DEF m
<1>7. /\ a \in Ui /\ a.stack = u.stack /\ a.tidy = u.tidy /\ a.scr = u.scr
      /\ a.win = u.win /\ a.menu = m /\ a.hover = u.hover
      /\ a.fx = u.fx /\ a.fm = u.fm /\ a.bufs = u.bufs /\ a.cur = u.cur
  BY <1>2, <1>3 DEF Ui
<1>8. MenuClose(s) = IF s.menu.saved = None THEN a
                     ELSE [PutBack(a, s.menu.saved[1]) EXCEPT !.menu.saved = <<None>>]
  BY <1>6, Zenon DEF MenuClose, u
<1> HIDE DEF a
<1>9. /\ ButScreen(a, v)
      /\ s.menu.saved # None =>
           \A c \in Cell : v.scr[c] = IF c \in DOMAIN s.menu.saved[1]
                                      THEN s.menu.saved[1][c] ELSE a.scr[c]
  <2>1. CASE s.menu.saved = None
    BY <1>7, <2>1 DEF ButScreen
  <2>2. CASE s.menu.saved # None
    <3>1. s.menu.saved[1] \in Part
      BY <1>1, <2>2, SavRight
    <3> QED
      BY <1>7, <2>2, <3>1, PutBackRight
  <2> QED
    BY <2>1, <2>2
<1>10. MenuClose(s) = t
  <2>1. CASE s.menu.saved = None
    BY <1>7, <1>8, <2>1 DEF Ui
  <2>2. CASE s.menu.saved # None
    <3>1. v \in Ui /\ v.menu = m /\ v = PutBack(a, s.menu.saved[1])
      BY <1>7, <1>9, <2>2 DEF ButScreen
    <3>2. MenuClose(s) = [v EXCEPT !.menu.saved = <<None>>]
      BY <1>8, <2>2, <3>1
    <3>3. n = [m EXCEPT !.saved = <<None>>]
      BY <2>2
    <3> HIDE DEF v, n
    <3> QED
      BY <3>1, <3>2, <3>3 DEF Ui
  <2> QED
    BY <2>1, <2>2
<1> HIDE DEF v, n
<1>11. /\ t \in Ui /\ t.stack = v.stack /\ t.tidy = v.tidy /\ t.scr = v.scr
       /\ t.win = v.win /\ t.menu = n /\ t.hover = v.hover
       /\ t.fx = v.fx /\ t.fm = v.fm /\ t.bufs = v.bufs /\ t.cur = v.cur
  BY <1>5, <1>9 DEF Ui, ButScreen
<1> HIDE DEF t
<1>12. /\ t.stack = Without(s.stack, Popup) /\ t.tidy = (s.tidy /\ Uncovered(s, Popup))
       /\ t.win = s.win /\ t.fm = s.fm /\ t.cur = s.cur /\ t.hover = s.hover
       /\ t.fx = s.fx /\ t.bufs = s.bufs /\ a.scr = s.scr
  BY <1>2, <1>7, <1>9, <1>11 DEF ButScreen
<1>13. BufInv(t) /\ (o => FxInv(t))
  BY <1>1, <1>12, BufSame, FxSame DEF Good
<1>14. ASSUME t.tidy PROVE o /\ Sound(t, Laid(t))
  <2>1. s.tidy /\ Uncovered(s, Popup)
    BY <1>12, <1>14
  <2>2. o /\ Sound(s, Laid(s))
    BY <2>1 DEF Good
  <2>3. Popup \in Laid(s) /\ Laid(t) = Laid(s) \ {Popup}
    BY <1>5, <1>11, <1>12, SlotRight DEF Laid
  <2>4. Alike(s, t, Laid(s) \ {Popup})
    <3>1. Laid(s) \ {Popup} \in SUBSET Item /\ Popup \notin Laid(s) \ {Popup}
      BY LaidRight
    <3> QED
      BY <1>12, <3>1, AlikeRight
  <2>5. SavedOf(s, Popup) = s.menu.saved /\ s.menu.saved # None
        /\ DOMAIN s.menu.saved[1] = Cells(s, Popup)
    <3>1. SavedOf(s, Popup) = s.menu.saved
      BY SlotRight DEF SavedOf
    <3> QED
      BY <2>2, <2>3, <3>1 DEF Sound
  <2>6. \A c \in Cell : t.scr[c] = IF c \in Cells(s, Popup) THEN SavedOf(s, Popup)[1][c]
                                   ELSE s.scr[c]
    BY <1>9, <1>11, <1>12, <2>5
  <2>7. Sound(t, Laid(s) \ {Popup})
    BY <1>1, <1>12, <2>1, <2>2, <2>3, <2>4, <2>6, SoundPop
  <2> QED
    BY <2>2, <2>3, <2>7
<1> QED
  BY <1>10, <1>11, <1>12, <1>13, <1>14 DEF Good

\* The popup is painted over what it has saved.
LEMMA MenuOpenRight ==
  ASSUME NEW s, NEW o \in BOOLEAN, Good(s, o), ~s.menu.open, NEW got \in BOOLEAN
  PROVE  /\ Good(MenuOpen(s, got), o) /\ MenuOpen(s, got).fx = s.fx
         /\ MenuOpen(s, got).cur = s.cur
<1> DEFINE C == {MenuCell}
           v == Paint(s, C, <<"menu", -1>>)
           has == s.menu.saved # None \/ got
           below == IF has THEN <<Under(s, C)>> ELSE None
           m == [open |-> TRUE, hover |-> -1, saved |-> below]
           d == v.tidy /\ has
           q == [v EXCEPT !.menu = m, !.tidy = d]
           t == On(q, Popup)
<1>1. s \in Ui /\ BufInv(s) /\ s.menu \in Menu
  BY UiFields DEF Good
<1>2. MenuCell \in Cell /\ -1 \in Int
  BY SlotRight DEF MenuCell, Cell
<1>3. /\ ButScreen(s, v)
      /\ \A c \in Cell : v.scr[c] = IF c \in C THEN <<"menu", -1>> ELSE s.scr[c]
  <2>1. <<"menu", -1>> \in Val
    BY ValRight
  <2> QED
    BY <1>1, <2>1, PaintRight
<1>4. /\ <<Under(s, C)>> \in Sav /\ <<Under(s, C)>> # None
      /\ <<Under(s, C)>>[1] = Under(s, C) /\ DOMAIN Under(s, C) = C
      /\ \A c \in C : Under(s, C)[c] = s.scr[c]
  BY <1>1, <1>2, UnderRight
<1>5. m \in Menu /\ m.open = TRUE /\ m.hover = -1 /\ m.saved = below
  BY <1>4, SavRight DEF Menu
<1>11. d \in BOOLEAN /\ has \in BOOLEAN
  BY <1>1, <1>3, UiFields DEF ButScreen
<1>12. (d => v.tidy /\ has) /\ (has => below = <<Under(s, C)>>)
  OBVIOUS
<1>13. [v EXCEPT !.menu = m, !.tidy = @ /\ has] = q
  BY <1>3 DEF Ui, ButScreen
<1>14. MenuOpen(s, got) = On([v EXCEPT !.menu = m, !.tidy = @ /\ has], Popup)
  BY DEF MenuOpen
<1> HIDE DEF v, m, d, has, below
<1>6. /\ q \in Ui /\ q.stack = v.stack /\ q.tidy = d /\ q.scr = v.scr
      /\ q.win = v.win /\ q.menu = m /\ q.hover = v.hover
      /\ q.fx = v.fx /\ q.fm = v.fm /\ q.bufs = v.bufs /\ q.cur = v.cur
  <2>1. LET r == [[v EXCEPT !.menu = m] EXCEPT !.tidy = d] IN
      /\ r \in Ui /\ r.stack = v.stack /\ r.tidy = d /\ r.scr = v.scr
      /\ r.win = v.win /\ r.menu = m /\ r.hover = v.hover
      /\ r.fx = v.fx /\ r.fm = v.fm /\ r.bufs = v.bufs /\ r.cur = v.cur
    BY <1>3, <1>5, <1>11 DEF Ui, ButScreen
  <2> QED
    BY <2>1
<1> HIDE DEF q
<1>7. /\ t \in Ui /\ t.stack = Append(q.stack, Popup) /\ t.tidy = q.tidy
      /\ t.scr = q.scr /\ t.win = q.win /\ t.menu = q.menu /\ t.hover = q.hover
      /\ t.fx = q.fx /\ t.fm = q.fm /\ t.cur = q.cur /\ t.bufs = q.bufs
  BY <1>6, OnRight, SlotRight
<1> HIDE DEF t
<1>8. BufInv(t) /\ (o => FxInv(t))
  BY <1>1, <1>3, <1>6, <1>7, BufSame, FxSame DEF Good, ButScreen
<1>9. ASSUME t.tidy PROVE o /\ Sound(t, Laid(t))
  <2>1. o /\ Sound(s, Laid(s)) /\ has
    BY <1>3, <1>6, <1>7, <1>9, <1>12 DEF Good, ButScreen
  <2>2. Popup \notin Laid(s) /\ Laid(t) = Laid(s) \cup {Popup}
    BY <1>1, <1>3, <1>5, <1>6, <1>7, SlotRight DEF Laid, ButScreen
  <2>3. Alike(s, t, Laid(s))
    <3>1. Laid(s) \in SUBSET Item
      BY LaidRight
    <3>2. t.win = s.win /\ t.fm = s.fm /\ t.cur = s.cur
      BY <1>3, <1>6, <1>7 DEF ButScreen
    <3> QED
      BY <2>2, <3>1, <3>2, AlikeRight
  <2>4. SavedOf(t, Popup) = <<Under(s, C)>> /\ Cells(t, Popup) = C
        /\ Look(t, Popup) = <<"menu", -1>>
    BY <1>5, <1>6, <1>7, <1>12, <2>1, SlotRight DEF SavedOf, Cells, Look
  <2>5. /\ SavedOf(t, Popup) # None /\ DOMAIN SavedOf(t, Popup)[1] = Cells(t, Popup)
        /\ \A c \in Cells(t, Popup) : SavedOf(t, Popup)[1][c] = s.scr[c]
    BY <1>4, <2>4
  <2>6. \A c \in Cell : t.scr[c] = IF c \in Cells(t, Popup) THEN Look(t, Popup) ELSE s.scr[c]
    BY <1>3, <1>6, <1>7, <2>4
  <2>7. t.stack = Append(s.stack, Popup) /\ t.hover = s.hover /\ Popup \in Item \ Laid(s)
    BY <1>3, <1>6, <1>7, <2>2, SlotRight DEF ButScreen
  <2>8. Sound(t, Laid(s) \cup {Popup})
    BY <1>1, <2>1, <2>3, <2>5, <2>6, <2>7, SoundPush
  <2> QED
    BY <2>1, <2>2, <2>8
<1>10. MenuOpen(s, got) = t
  BY <1>13, <1>14 DEF t
<1> QED
  BY <1>1, <1>3, <1>6, <1>7, <1>8, <1>9, <1>10 DEF Good, ButScreen

LEMMA MenuToggleRight ==
  ASSUME NEW s, NEW o \in BOOLEAN, Good(s, o), NEW got \in BOOLEAN
  PROVE  /\ Good(MenuToggle(s, got), o) /\ MenuToggle(s, got).fx = s.fx
         /\ MenuToggle(s, got).cur = s.cur
  BY MenuCloseRight, MenuOpenRight DEF MenuToggle

\* Whether something covers item hangs on the windows and the cursor.
LEMMA UncoveredSame ==
  ASSUME NEW s, NEW t, NEW item, t.stack = s.stack, t.win = s.win, t.cur = s.cur
  PROVE  Uncovered(t, item) <=> Uncovered(s, item)
<1>1. \A i : Cells(t, i) = Cells(s, i)
  BY DEF Cells
<1> QED
  BY <1>1 DEF Uncovered

\* The pointer enters the item of the Menu or leaves it.
LEMMA MenuHoverRight ==
  ASSUME NEW s, NEW o \in BOOLEAN, Good(s, o), s.menu.open, NEW h \in Int
  PROVE  LET t == Touch(Paint([s EXCEPT !.menu.hover = h], {MenuCell}, <<"menu", h>>), Popup)
         IN Good(t, o) /\ Steady(s, t) /\ t.cur = s.cur /\ t.menu.open
<1> DEFINE m == [s.menu EXCEPT !.hover = h]
           u == [s EXCEPT !.menu = m]
           v == Paint(u, {MenuCell}, <<"menu", h>>)
           t == Touch(v, Popup)
<1>1. s \in Ui /\ BufInv(s) /\ s.menu \in Menu
  BY UiFields DEF Good
<1>2. m \in Menu /\ m.open = s.menu.open /\ m.saved = s.menu.saved /\ m.hover = h
  BY <1>1 DEF Menu
<1>3. [s EXCEPT !.menu.hover = h] = u
  BY <1>1 DEF Ui
<1> HIDE DEF m
<1>4. /\ u \in Ui /\ u.stack = s.stack /\ u.tidy = s.tidy /\ u.scr = s.scr
      /\ u.win = s.win /\ u.menu = m /\ u.hover = s.hover
      /\ u.fx = s.fx /\ u.fm = s.fm /\ u.bufs = s.bufs /\ u.cur = s.cur
  BY <1>1, <1>2 DEF Ui
<1> HIDE DEF u
<1>5. /\ ButScreen(u, v)
      /\ \A c \in Cell : v.scr[c] = IF c \in {MenuCell} THEN <<"menu", h>> ELSE u.scr[c]
  <2>1. <<"menu", h>> \in Val
    BY ValRight
  <2> QED
    BY <1>4, <2>1, PaintRight
<1> HIDE DEF v
<1>6. /\ t \in Ui /\ t.stack = v.stack /\ t.tidy = (v.tidy /\ Uncovered(v, Popup))
      /\ t.scr = v.scr /\ t.win = v.win /\ t.menu = v.menu /\ t.hover = v.hover
      /\ t.fx = v.fx /\ t.fm = v.fm /\ t.cur = v.cur /\ t.bufs = v.bufs
  BY <1>5, TouchRight DEF ButScreen
<1> HIDE DEF t
<1>7. BufInv(t) /\ (o => FxInv(t))
  BY <1>1, <1>4, <1>5, <1>6, BufSame, FxSame DEF Good, ButScreen
<1>8. /\ t.stack = s.stack /\ t.win = s.win /\ t.fm = s.fm /\ t.cur = s.cur /\ t.menu = m
      /\ t.hover = s.hover /\ t.fx = s.fx
  BY <1>4, <1>5, <1>6 DEF ButScreen
<1>9. ASSUME t.tidy PROVE o /\ Sound(t, Laid(t))
  <2>1. s.tidy /\ Uncovered(s, Popup)
    BY <1>4, <1>5, <1>6, <1>9, UncoveredSame DEF ButScreen
  <2>2. o /\ Sound(s, Laid(s))
    BY <1>9, <2>1 DEF Good
  <2>3. Popup \in Laid(s) /\ Laid(t) = Laid(s)
    BY <1>2, <1>8 DEF Laid
  <2>4. Alike(s, t, Laid(s) \ {Popup})
    <3>1. Laid(s) \ {Popup} \in SUBSET Item /\ Popup \notin Laid(s) \ {Popup}
      BY LaidRight
    <3> QED
      BY <1>8, <3>1, AlikeRight
  <2>5. SavedOf(t, Popup) = SavedOf(s, Popup) /\ Cells(t, Popup) = {MenuCell}
        /\ Cells(s, Popup) = {MenuCell} /\ Look(t, Popup) = <<"menu", h>>
    BY <1>2, <1>8, SlotRight DEF SavedOf, Cells, Look
  <2>6. \A c \in Cell : t.scr[c] = IF c \in Cells(s, Popup) THEN Look(t, Popup) ELSE s.scr[c]
    BY <1>4, <1>5, <1>6, <2>5
  <2>7. Sound(t, Laid(s))
    BY <1>1, <1>8, <2>1, <2>2, <2>3, <2>4, <2>5, <2>6, SoundRepaint
  <2> QED
    BY <2>2, <2>3, <2>7
<1>10. t.menu.open
  BY <1>2, <1>8
<1>11. Good(t, o) /\ Steady(s, t) /\ t.cur = s.cur /\ t.menu.open
  BY <1>2, <1>6, <1>7, <1>8, <1>9, <1>10 DEF Good, Steady
<1> QED
  BY <1>3, <1>11 DEF t, v

LEMMA MenuStepRight ==
  ASSUME NEW s, NEW o \in BOOLEAN, Good(s, o), NEW p, NEW h \in Int, NEW click \in BOOLEAN
  PROVE  /\ Good(MenuStep(s, p, h, click), o) /\ MenuStep(s, p, h, click).cur = s.cur
         /\ MenuStep(s, p, h, click).fx = s.fx
         /\ ~click => Steady(s, MenuStep(s, p, h, click))
<1> DEFINE b == Touch(Paint([s EXCEPT !.menu.hover = h], {MenuCell}, <<"menu", h>>), Popup)
           a == IF h = s.menu.hover THEN s ELSE b
<1>1. CASE ~s.menu.open
  BY <1>1 DEF MenuStep, Steady
<1>2. CASE s.menu.open
  <2>1. Good(b, o) /\ Steady(s, b) /\ b.cur = s.cur
    BY <1>2, MenuHoverRight
  <2>2. MenuStep(s, p, h, click) = IF click /\ p # MenuCell THEN MenuClose(a) ELSE a
    BY <1>2 DEF MenuStep
  <2> HIDE DEF b
  <2>3. Good(a, o) /\ Steady(s, a) /\ a.cur = s.cur
    BY <2>1 DEF Steady
  <2> HIDE DEF a
  <2>5. a.menu.open
    BY <1>2, <2>3 DEF Steady
  <2>4. Good(MenuClose(a), o) /\ MenuClose(a).fx = a.fx /\ MenuClose(a).cur = a.cur
    BY <2>3, <2>5, MenuCloseRight
  <2> QED
    BY <2>2, <2>3, <2>4 DEF Steady
<1> QED
  BY <1>1, <1>2

\* The pointer enters the icon or leaves it.
IconHover(s, over) ==
  LET free == \A k \in DOMAIN s.stack : IconCell \notin Cells(s, s.stack[k])
  IN [Paint(s, {IconCell}, IconFace(over)) EXCEPT
        !.hover = over, !.tidy = @ /\ free /\ (over \/ s.clean)]

LEMMA IconHoverRight ==
  ASSUME NEW s, NEW o \in BOOLEAN, Good(s, o), NEW over \in BOOLEAN
  PROVE  LET t == IconHover(s, over) IN Good(t, o) /\ Steady(s, t) /\ t.cur = s.cur
<1> DEFINE free == \A k \in DOMAIN s.stack : IconCell \notin Cells(s, s.stack[k])
           v == Paint(s, {IconCell}, IconFace(over))
           d == v.tidy /\ (free /\ (over \/ s.clean))
           t == [v EXCEPT !.hover = over, !.tidy = d]
<1>1. s \in Ui /\ BufInv(s)
  BY DEF Good
<1>2. /\ ButScreen(s, v)
      /\ \A c \in Cell : v.scr[c] = IF c \in {IconCell} THEN IconFace(over) ELSE s.scr[c]
  BY <1>1, ValRight, PaintRight
<1>3. free \in BOOLEAN
  OBVIOUS
<1> HIDE DEF v, free
<1>4. d \in BOOLEAN
  BY <1>1, <1>3, UiFields
<1>5. [v EXCEPT !.hover = over, !.tidy = @ /\ free /\ (over \/ s.clean)] = t
  BY <1>2 DEF Ui, ButScreen
<1>12. IconHover(s, over) = [v EXCEPT !.hover = over, !.tidy = @ /\ free /\ (over \/ s.clean)]
  BY DEF IconHover, v, free
<1>6. d => v.tidy /\ free
  OBVIOUS
<1> HIDE DEF d
<1>7. /\ t \in Ui /\ t.stack = v.stack /\ t.tidy = d /\ t.scr = v.scr
      /\ t.win = v.win /\ t.menu = v.menu /\ t.hover = over
      /\ t.fx = v.fx /\ t.fm = v.fm /\ t.bufs = v.bufs /\ t.cur = v.cur
  <2>1. LET q == [[v EXCEPT !.hover = over] EXCEPT !.tidy = d] IN
      /\ q \in Ui /\ q.stack = v.stack /\ q.tidy = d /\ q.scr = v.scr
      /\ q.win = v.win /\ q.menu = v.menu /\ q.hover = over
      /\ q.fx = v.fx /\ q.fm = v.fm /\ q.bufs = v.bufs /\ q.cur = v.cur
    BY <1>2, <1>4 DEF Ui, ButScreen
  <2> QED
    BY <2>1
<1> HIDE DEF t
<1>8. BufInv(t) /\ (o => FxInv(t))
  BY <1>1, <1>2, <1>7, BufSame, FxSame DEF Good, ButScreen
<1>9. /\ t.stack = s.stack /\ t.win = s.win /\ t.fm = s.fm /\ t.cur = s.cur
      /\ t.menu = s.menu /\ t.fx = s.fx
  BY <1>2, <1>7 DEF ButScreen
<1>10. ASSUME t.tidy PROVE o /\ Sound(t, Laid(t))
  <2>1. s.tidy /\ free
    BY <1>2, <1>6, <1>7, <1>10 DEF ButScreen
  <2>2. o /\ Sound(s, Laid(s))
    BY <1>10, <2>1 DEF Good
  <2>3. Laid(t) = Laid(s)
    BY <1>9 DEF Laid
  <2>4. Alike(s, t, Laid(s))
    <3>1. Laid(s) \in SUBSET Item
      BY LaidRight
    <3> QED
      BY <1>9, <3>1, AlikeRight
  <2>5. \A c \in Cell : t.scr[c] = IF c = IconCell THEN IconFace(t.hover) ELSE s.scr[c]
    BY <1>2, <1>7
  <2>6. \A k \in DOMAIN s.stack : IconCell \notin Cells(s, s.stack[k])
    BY <2>1 DEF free
  <2>7. Sound(t, Laid(s))
    BY <1>1, <1>9, <2>2, <2>4, <2>5, <2>6, SoundWall
  <2> QED
    BY <2>2, <2>3, <2>7
<1>11. Good(t, o) /\ Steady(s, t) /\ t.cur = s.cur
  BY <1>7, <1>8, <1>9, <1>10 DEF Good, Steady
<1> QED
  BY <1>5, <1>11, <1>12

-----------------------------------------------------------------------------
(* Windows are made, moved, dragged and closed                             *)

LEMMA LeastNat ==
  ASSUME NEW S \in SUBSET Nat, S # {}
  PROVE  \E m \in S : \A n \in S : m <= n
<1> DEFINE R == {p \in Nat \X Nat : p[1] < p[2]}
<1>1. IsWellFoundedOn(R, Nat)
  BY NatLessThanWellFounded, Zenon DEF OpToRel
<1>2. PICK m \in S : \A n \in S : <<n, m>> \notin R
  <2> HIDE DEF R
  <2> QED
    BY <1>1, WFMin
<1>3. \A n \in S : m <= n
  <2> SUFFICES ASSUME NEW n \in S, n < m PROVE FALSE
    OBVIOUS
  <2>1. <<n, m>> \in Nat \X Nat /\ <<n, m>>[1] < <<n, m>>[2]
    OBVIOUS
  <2>2. <<n, m>> \in R
    BY <2>1
  <2> QED
    BY <1>2, <2>2
<1> QED
  BY <1>3

LEMMA LowestRight ==
  ASSUME NEW s, FreeSlots(s) # {}
  PROVE  Lowest(FreeSlots(s)) \in Slot /\ ~s.win[Lowest(FreeSlots(s))].used
<1> DEFINE F == FreeSlots(s)
<1>1. F \in SUBSET Nat
  BY SlotRight DEF FreeSlots
<1> HIDE DEF F
<1>2. \E m \in F : \A n \in F : m <= n
  BY <1>1, LeastNat DEF F
<1>3. Lowest(F) \in F
  BY <1>2 DEF Lowest
<1> QED
  BY <1>3 DEF F, FreeSlots

LEMMA WinFields ==
  ASSUME NEW s \in Ui, NEW i \in Slot
  PROVE  /\ s.win \in [Slot -> Win] /\ s.win[i] \in Win /\ s.win[i].used \in BOOLEAN
         /\ s.win[i].owner \in Int /\ s.win[i].x \in Int /\ s.win[i].w \in Int
         /\ s.win[i].saved \in Sav
         /\ s.win[i].drag \in Int
  BY UiFields DEF Win

\* The record of slot i is replaced.
LEMMA SlotSet ==
  ASSUME NEW s \in Ui, NEW i \in Slot, NEW w \in Win
  PROVE  LET t == [s EXCEPT !.win[i] = w] IN
         /\ t \in Ui /\ t.stack = s.stack /\ t.tidy = s.tidy /\ t.scr = s.scr
         /\ t.menu = s.menu /\ t.hover = s.hover /\ t.fx = s.fx /\ t.fm = s.fm
         /\ t.cur = s.cur /\ t.bufs = s.bufs
         /\ t.win[i] = w /\ \A j \in Slot \ {i} : t.win[j] = s.win[j]
<1> DEFINE W == [s.win EXCEPT ![i] = w]
<1>1. s.win \in [Slot -> Win]
  BY UiFields
<1>2. W \in [Slot -> Win] /\ W[i] = w /\ \A j \in Slot \ {i} : W[j] = s.win[j]
  BY <1>1
<1>3. [s EXCEPT !.win[i] = w] = [s EXCEPT !.win = W]
  BY DEF Ui
<1> HIDE DEF W
<1>4. LET t == [s EXCEPT !.win = W] IN
      /\ t \in Ui /\ t.stack = s.stack /\ t.tidy = s.tidy /\ t.scr = s.scr
      /\ t.menu = s.menu /\ t.hover = s.hover /\ t.fx = s.fx /\ t.fm = s.fm
      /\ t.cur = s.cur /\ t.bufs = s.bufs /\ t.win = W
  BY <1>2 DEF Ui
<1> QED
  BY <1>2, <1>3, <1>4

\* s and t differ in slot i, in what counts the buffers, in the stack and on
\* the screen at most.
ButSlot(s, t, i) ==
  /\ t \in Ui /\ t.menu = s.menu /\ t.hover = s.hover
  /\ t.fx = s.fx /\ t.fm = s.fm /\ t.cur = s.cur
  /\ \A j \in Slot \ {i} : t.win[j] = s.win[j]

\* The number of buffers follows the one that slot i gains or loses.
LEMMA BufOne ==
  ASSUME NEW s, NEW t, NEW i \in Slot, BufInv(s), s.bufs \in Int,
         \A j \in Slot \ {i} : t.win[j] = s.win[j],
         ~t.win[i].used => t.win[i].saved = None,
         t.bufs = s.bufs + (IF t.win[i].saved # None THEN 1 ELSE 0)
                         - (IF s.win[i].saved # None THEN 1 ELSE 0)
  PROVE  BufInv(t)
<1> DEFINE A == Buffers(s)  B == Buffers(t)
<1>1. IsFiniteSet(A) /\ IsFiniteSet(B)
  <2>1. A \subseteq Slot /\ B \subseteq Slot
    BY DEF Buffers
  <2> QED
    BY <2>1, SlotRight, FS_Subset
<1>2. /\ i \in A <=> s.win[i].saved # None
      /\ i \in B <=> t.win[i].saved # None
      /\ s.bufs = Cardinality(A) /\ Cardinality(A) \in Nat
  BY <1>1, FS_CardinalityType DEF BufInv, Buffers
<1>3. \A j : j # i => (j \in A <=> j \in B)
  BY DEF Buffers
<1> HIDE DEF A, B
<1>4. CASE i \in A <=> i \in B
  <2>1. A = B
    <3>1. \A j : j \in A <=> j \in B
      BY <1>3, <1>4
    <3> QED
      BY <3>1
  <2>2. t.bufs = s.bufs
    BY <1>2, <1>4
  <2> QED
    BY <1>2, <2>1, <2>2 DEF BufInv, A, B
<1>5. CASE i \in B /\ i \notin A
  <2>1. B = A \cup {i}
    BY <1>3, <1>5
  <2>2. Cardinality(B) = Cardinality(A) + 1
    BY <1>1, <1>5, <2>1, FS_AddElement
  <2>3. t.bufs = s.bufs + 1
    BY <1>2, <1>5
  <2> QED
    BY <1>2, <2>2, <2>3 DEF BufInv, A, B
<1>6. CASE i \in A /\ i \notin B
  <2>1. B = A \ {i}
    BY <1>3, <1>6
  <2>2. Cardinality(B) = Cardinality(A) - 1
    BY <1>1, <1>6, <2>1, FS_RemoveElement
  <2>3. t.bufs = s.bufs - 1
    BY <1>2, <1>6
  <2> QED
    BY <1>2, <2>2, <2>3 DEF BufInv, A, B
<1> QED
  BY <1>4, <1>5, <1>6

\* What the saving below window i does.
Backed(s, t, i, got) ==
  /\ ButSlot(s, t, i) /\ t.stack = s.stack /\ t.scr = s.scr
  /\ t.win[i] = [s.win[i] EXCEPT !.saved = IF s.win[i].saved # None \/ got
                                           THEN <<Under(s, Area(s.win[i]))>> ELSE None]
  /\ t.tidy => s.tidy /\ (s.win[i].saved # None \/ got)
  /\ t.bufs = s.bufs + (IF t.win[i].saved # None THEN 1 ELSE 0)
                     - (IF s.win[i].saved # None THEN 1 ELSE 0)

LEMMA SaveBgRight ==
  ASSUME NEW s \in Ui, NEW i \in Slot, NEW got \in BOOLEAN
  PROVE  Backed(s, SaveBg(s, i, got), i, got)
<1> DEFINE C == Area(s.win[i])
           has == s.win[i].saved # None \/ got
           v == IF has THEN <<Under(s, C)>> ELSE None
           w == [s.win[i] EXCEPT !.saved = v]
           b == IF s.win[i].saved = None /\ got THEN s.bufs + 1 ELSE s.bufs
           d == s.tidy /\ has /\ Columns(s.win[i]) \subseteq 0 .. Cols - 1
           u == [s EXCEPT !.win[i] = w]
           t == [[u EXCEPT !.bufs = b] EXCEPT !.tidy = d]
<1>1. C \in SUBSET Cell
  BY AreaRight
<1>2. <<Under(s, C)>> \in Sav /\ <<Under(s, C)>> # None
  BY <1>1, UnderRight
<1>3. v \in Sav /\ (v # None <=> has)
  BY <1>2, SavRight
<1>4. s.win \in [Slot -> Win] /\ s.win[i] \in Win
  BY WinFields
<1>5. SaveBg(s, i, got) = [s EXCEPT !.win[i].saved = v, !.bufs = b, !.tidy = d]
  BY DEF SaveBg, Ui
<1>6. b = s.bufs + (IF has THEN 1 ELSE 0) - (IF s.win[i].saved # None THEN 1 ELSE 0)
      /\ b \in Int
  BY UiFields
<1>7. d \in BOOLEAN
  BY UiFields
<1>8. d = (s.tidy /\ has /\ Columns(s.win[i]) \subseteq 0 .. Cols - 1)
  OBVIOUS
<1>9. (s.win[i].saved # None \/ got) = has
  OBVIOUS
<1> HIDE DEF v, b, d, has
<1>10. w \in Win /\ w.saved = v
  BY <1>3, <1>4 DEF Win
<1>11. SaveBg(s, i, got) = t
  BY <1>4, <1>5 DEF Ui
<1>12. w = [s.win[i] EXCEPT !.saved = v]
  OBVIOUS
<1> HIDE DEF w
<1>13. /\ u \in Ui /\ u.stack = s.stack /\ u.tidy = s.tidy /\ u.scr = s.scr
       /\ u.menu = s.menu /\ u.hover = s.hover /\ u.fx = s.fx /\ u.fm = s.fm
       /\ u.cur = s.cur /\ u.bufs = s.bufs
       /\ u.win[i] = w /\ \A j \in Slot \ {i} : u.win[j] = s.win[j]
  BY <1>10, SlotSet
<1> HIDE DEF u
<1>14. /\ t \in Ui /\ t.stack = u.stack /\ t.tidy = d /\ t.scr = u.scr
       /\ t.menu = u.menu /\ t.hover = u.hover /\ t.fx = u.fx /\ t.fm = u.fm
       /\ t.cur = u.cur /\ t.bufs = b /\ t.win = u.win
  BY <1>6, <1>7, <1>13 DEF Ui
<1> HIDE DEF t
<1>15. ButSlot(s, t, i) /\ t.stack = s.stack /\ t.scr = s.scr
  BY <1>13, <1>14 DEF ButSlot
<1>16. t.win[i] = [s.win[i] EXCEPT !.saved = IF has THEN <<Under(s, C)>> ELSE None]
  BY <1>12, <1>13, <1>14 DEF v
<1>17. t.bufs = s.bufs + (IF t.win[i].saved # None THEN 1 ELSE 0)
                       - (IF s.win[i].saved # None THEN 1 ELSE 0)
  BY <1>3, <1>6, <1>10, <1>13, <1>14
<1>18. t.tidy => s.tidy /\ has
  BY <1>8, <1>14
<1> QED
  BY <1>9, <1>11, <1>15, <1>16, <1>17, <1>18 DEF Backed

LEMMA DrawRight ==
  ASSUME NEW s \in Ui, NEW i \in Slot, NEW mine \in BOOLEAN
  PROVE  /\ ButScreen(s, Draw(s, i, mine))
         /\ \A c \in Cell : Draw(s, i, mine).scr[c]
                              = IF c \in Area(s.win[i]) THEN Face(s.fm, mine) ELSE s.scr[c]
<1>1. Face(s.fm, mine) \in Val
  BY UiFields, ValRight
<1> QED
  BY <1>1, PaintRight DEF Draw

LEMMA RestoreBgRight ==
  ASSUME NEW s \in Ui, NEW i \in Slot
  PROVE  /\ ButScreen(s, RestoreBg(s, i))
         /\ s.win[i].saved # None =>
              \A c \in Cell : RestoreBg(s, i).scr[c]
                = IF c \in DOMAIN s.win[i].saved[1] THEN s.win[i].saved[1][c] ELSE s.scr[c]
<1>1. CASE s.win[i].saved = None
  BY <1>1 DEF RestoreBg, ButScreen
<1>2. CASE s.win[i].saved # None
  <2>1. s.win[i].saved[1] \in Part
    BY <1>2, WinFields, SavRight
  <2> QED
    BY <1>2, <2>1, PutBackRight DEF RestoreBg
<1> QED
  BY <1>1, <1>2

\* A window that is not open comes to lie on top.
LEMMA GoodCreate ==
  ASSUME NEW s, NEW o \in BOOLEAN, Good(s, o), NEW t, NEW i \in Slot, ~s.win[i].used,
         t \in Ui, t.menu = s.menu, t.hover = s.hover, t.cur = s.cur,
         \A j \in Slot \ {i} : t.win[j] = s.win[j],
         t.win[i].used,
         t.win[i].saved = <<Under(s, Area(t.win[i]))>> \/ (t.win[i].saved = None /\ ~t.tidy),
         t.bufs = s.bufs + (IF t.win[i].saved # None THEN 1 ELSE 0),
         t.stack = Append(s.stack, i), t.tidy => s.tidy,
         \A c \in Cell : t.scr[c] = IF c \in Area(t.win[i])
                                    THEN Face(t.fm, t.win[i].owner = Kernel) ELSE s.scr[c],
         \/ t.win[i].owner # Kernel /\ t.fx = s.fx /\ t.fm = s.fm
         \/ t.win[i].owner = Kernel /\ t.fx = i /\ (o => s.fx = NoWindow)
  PROVE  Good(t, o)
<1>1. s \in Ui /\ BufInv(s) /\ s.bufs \in Int
  BY UiFields DEF Good
<1>2. BufInv(t)
  <2>1. s.win[i].saved = None
    BY <1>1 DEF BufInv
  <2>2. t.bufs = s.bufs + (IF t.win[i].saved # None THEN 1 ELSE 0)
                        - (IF s.win[i].saved # None THEN 1 ELSE 0)
    BY <1>1, <2>1
  <2>3. ~t.win[i].used => t.win[i].saved = None
    OBVIOUS
  <2> QED
    BY <1>1, <2>2, <2>3, BufOne
<1>3. ASSUME o PROVE FxInv(t)
  <2>1. FxInv(s)
    BY <1>3 DEF Good
  <2>2. i # NoWindow /\ i # s.fx
    BY <2>1, SlotRight DEF FxInv
  <2>3. CASE t.win[i].owner # Kernel /\ t.fx = s.fx
    <3> SUFFICES ASSUME NEW j \in Slot
                 PROVE  t.win[j].used /\ t.win[j].owner = Kernel <=> j = t.fx
      BY <2>1, <2>3 DEF FxInv
    <3> QED
      BY <2>1, <2>2, <2>3 DEF FxInv
  <2>4. CASE t.win[i].owner = Kernel /\ t.fx = i /\ s.fx = NoWindow
    <3> SUFFICES ASSUME NEW j \in Slot
                 PROVE  t.win[j].used /\ t.win[j].owner = Kernel <=> j = t.fx
      BY <2>4 DEF FxInv
    <3> QED
      BY <2>1, <2>2, <2>4, SlotRight DEF FxInv
  <2> QED
    BY <1>3, <2>3, <2>4
<1>4. ASSUME t.tidy PROVE o /\ Sound(t, Laid(t))
  <2> DEFINE C == Area(t.win[i])
  <2>1. o /\ Sound(s, Laid(s)) /\ FxInv(s)
    BY <1>4 DEF Good
  <2>2. i \notin Laid(s) /\ Laid(t) = Laid(s) \cup {i}
    BY SlotRight DEF Laid
  <2>3. Alike(s, t, Laid(s))
    <3>1. Laid(s) \in SUBSET Item
      BY LaidRight
    <3>2. ASSUME NEW j \in Laid(s) \cap Slot
          PROVE  t.win[j] = s.win[j] /\ (t.fm = s.fm \/ s.win[j].owner # Kernel)
      <4>1. j # i /\ s.win[j].used
        BY <2>2, LaidRight
      <4>2. j # NoWindow
        BY SlotRight
      <4> QED
        BY <1>4, <2>1, <4>1, <4>2 DEF FxInv
    <3> QED
      BY <3>1, <3>2, AlikeRight
  <2>4. SavedOf(t, i) = <<Under(s, C)>> /\ Cells(t, i) = C
        /\ Look(t, i) = Face(t.fm, t.win[i].owner = Kernel)
    BY <1>4, SlotRight DEF SavedOf, Cells, Look
  <2>5. /\ SavedOf(t, i) # None /\ DOMAIN SavedOf(t, i)[1] = Cells(t, i)
        /\ \A c \in Cells(t, i) : SavedOf(t, i)[1][c] = s.scr[c]
    <3>1. C \in SUBSET Cell
      BY AreaRight
    <3> HIDE DEF C
    <3> QED
      BY <1>1, <2>4, <3>1, UnderRight
  <2>6. \A c \in Cell : t.scr[c] = IF c \in Cells(t, i) THEN Look(t, i) ELSE s.scr[c]
    BY <2>4
  <2>7. i \in Item \ Laid(s)
    BY <2>2, SlotRight
  <2>8. Sound(t, Laid(s) \cup {i})
    BY <1>1, <2>1, <2>3, <2>5, <2>6, <2>7, SoundPush
  <2> QED
    BY <2>1, <2>2, <2>8
<1> QED
  BY <1>2, <1>3, <1>4 DEF Good

\* What the making of window i does.
Created(s, t, i, owner, x, wd, got) ==
  /\ ~s.win[i].used
  /\ ButSlot(s, t, i) /\ t.stack = Append(s.stack, i)
  /\ t.win[i].used /\ t.win[i].owner = owner /\ t.win[i].x = x /\ t.win[i].w = wd
  /\ t.win[i].saved = IF got THEN <<Under(s, Spread(x, wd))>> ELSE None
  /\ t.bufs = s.bufs + (IF t.win[i].saved # None THEN 1 ELSE 0)
  /\ t.tidy => s.tidy /\ got
  /\ \A c \in Cell : t.scr[c] = IF c \in Spread(x, wd) THEN Face(s.fm, FALSE) ELSE s.scr[c]

LEMMA WinCreateRight ==
  ASSUME NEW s \in Ui, BufInv(s), FreeSlots(s) # {}, NEW owner \in Int, NEW x \in Int,
         NEW wd \in Int, NEW got \in BOOLEAN
  PROVE  LET i == Lowest(FreeSlots(s)) IN
         i \in Slot /\ Created(s, WinCreate(s, owner, x, wd, got), i, owner, x, wd, got)
<1> DEFINE i == Lowest(FreeSlots(s))
           w == [Free EXCEPT !.used = TRUE, !.owner = owner, !.x = x, !.w = wd]
           a == [s EXCEPT !.win[i] = w]
           b == SaveBg(a, i, got)
           d == Draw(b, i, FALSE)
           t == On(d, i)
<1>1. i \in Slot /\ ~s.win[i].used
  BY LowestRight
<1>2. WinCreate(s, owner, x, wd, got) = t
  BY DEF WinCreate
<1> HIDE DEF i
<1>3. /\ w \in Win /\ w.used /\ w.owner = owner /\ w.x = x /\ w.w = wd
      /\ w.saved = None
  <2>1. Free \in Win /\ Free.saved = None
    <3>1. -1 \in Int
      OBVIOUS
    <3> QED
      BY <3>1, SavRight DEF Win, Free, Kernel
  <2> QED
    BY <2>1 DEF Win
<1> HIDE DEF w
<1>4. /\ a \in Ui /\ a.stack = s.stack /\ a.tidy = s.tidy /\ a.scr = s.scr
      /\ a.menu = s.menu /\ a.hover = s.hover /\ a.fx = s.fx /\ a.fm = s.fm
      /\ a.cur = s.cur /\ a.bufs = s.bufs
      /\ a.win[i] = w /\ \A j \in Slot \ {i} : a.win[j] = s.win[j]
  BY <1>1, <1>3, SlotSet
<1> HIDE DEF a
<1> DEFINE v == IF got THEN <<Under(a, Spread(x, wd))>> ELSE None
<1>5. /\ ButSlot(a, b, i) /\ b.stack = a.stack /\ b.scr = a.scr
      /\ b.win[i] = [w EXCEPT !.saved = v]
      /\ b.tidy => a.tidy /\ got
      /\ b.bufs = a.bufs + (IF b.win[i].saved # None THEN 1 ELSE 0)
  <2>1. Backed(a, b, i, got)
    BY <1>1, <1>4, SaveBgRight
  <2>2. a.bufs \in Int
    BY <1>4, UiFields
  <2>3. Area(a.win[i]) = Spread(x, wd)
    BY <1>3, <1>4, AreaRight
  <2> HIDE DEF b
  <2> QED
    BY <1>3, <1>4, <2>1, <2>2, <2>3 DEF Backed
<1>6. v = (IF got THEN <<Under(s, Spread(x, wd))>> ELSE None)
  BY <1>4 DEF Under
<1> HIDE DEF b, v
<1>7. b \in Ui /\ b.win[i].saved = v /\ b.win[i].used /\ b.win[i].owner = owner
      /\ b.win[i].x = x /\ b.win[i].w = wd
  BY <1>3, <1>5 DEF ButSlot, Win
<1>8. /\ ButScreen(b, d)
      /\ \A c \in Cell : d.scr[c] = IF c \in Spread(x, wd) THEN Face(b.fm, FALSE)
                                    ELSE b.scr[c]
  <2>1. Area(b.win[i]) = Spread(x, wd)
    BY <1>7, AreaRight
  <2>2. /\ ButScreen(b, d)
        /\ \A c \in Cell : d.scr[c] = IF c \in Area(b.win[i]) THEN Face(b.fm, FALSE)
                                      ELSE b.scr[c]
    BY <1>1, <1>7, DrawRight
  <2> HIDE DEF d
  <2> QED
    BY <2>1, <2>2
<1> HIDE DEF d
<1>9. /\ t \in Ui /\ t.stack = Append(d.stack, i) /\ t.tidy = d.tidy
      /\ t.scr = d.scr /\ t.win = d.win /\ t.menu = d.menu /\ t.hover = d.hover
      /\ t.fx = d.fx /\ t.fm = d.fm /\ t.cur = d.cur /\ t.bufs = d.bufs
  BY <1>1, <1>8, OnRight, SlotRight DEF ButScreen
<1> HIDE DEF t
<1>10. ButSlot(s, t, i)
  BY <1>4, <1>5, <1>8, <1>9 DEF ButSlot, ButScreen
<1>11. t.stack = Append(s.stack, i) /\ (t.tidy => s.tidy /\ got) /\ t.win = b.win
       /\ t.bufs = s.bufs + (IF t.win[i].saved # None THEN 1 ELSE 0)
  <2>1. t.stack = Append(s.stack, i) /\ (t.tidy => s.tidy /\ got) /\ t.win = b.win
        /\ t.bufs = b.bufs /\ a.bufs = s.bufs
    BY <1>4, <1>5, <1>8, <1>9 DEF ButScreen
  <2> QED
    BY <1>5, <2>1
<1>12. \A c \in Cell : t.scr[c] = IF c \in Spread(x, wd) THEN Face(s.fm, FALSE) ELSE s.scr[c]
  <2>1. b.fm = s.fm /\ b.scr = s.scr /\ t.scr = d.scr
    BY <1>4, <1>5, <1>9 DEF ButSlot
  <2> QED
    BY <1>7, <1>8, <2>1
<1>13. Created(s, t, i, owner, x, wd, got)
  BY <1>1, <1>6, <1>7, <1>10, <1>11, <1>12 DEF Created
<1> QED
  BY <1>1, <1>2, <1>13 DEF i

LEMMA CreateRight ==
  ASSUME NEW s, NEW o \in BOOLEAN, Good(s, o), FreeSlots(s) # {}, NEW owner \in App,
         NEW x \in Int, NEW wd \in Int, NEW got \in BOOLEAN
  PROVE  Good(WinCreate(s, owner, x, wd, got), o)
<1> DEFINE t == WinCreate(s, owner, x, wd, got)
<1>1. s \in Ui /\ BufInv(s) /\ owner \in Int /\ owner # Kernel
  BY SlotRight DEF Good
<1> DEFINE i == Lowest(FreeSlots(s))
<1>7. i \in Slot /\ Created(s, t, i, owner, x, wd, got)
  BY <1>1, WinCreateRight
<1> HIDE DEF i, t
<1>2. /\ ~s.win[i].used
      /\ ButSlot(s, t, i) /\ t.stack = Append(s.stack, i)
      /\ t.win[i].used /\ t.win[i].owner = owner /\ t.win[i].x = x /\ t.win[i].w = wd
      /\ t.win[i].saved = IF got THEN <<Under(s, Spread(x, wd))>> ELSE None
      /\ t.bufs = s.bufs + (IF t.win[i].saved # None THEN 1 ELSE 0)
      /\ t.tidy => s.tidy /\ got
      /\ \A c \in Cell : t.scr[c] = IF c \in Spread(x, wd) THEN Face(s.fm, FALSE) ELSE s.scr[c]
  BY <1>7 DEF Created
<1>3. /\ t \in Ui /\ t.menu = s.menu /\ t.hover = s.hover /\ t.cur = s.cur
      /\ t.fx = s.fx /\ t.fm = s.fm /\ \A j \in Slot \ {i} : t.win[j] = s.win[j]
  BY <1>2 DEF ButSlot
<1>8. Area(t.win[i]) = Spread(x, wd)
  BY <1>2, AreaRight
<1>4. t.win[i].saved = <<Under(s, Area(t.win[i]))>> \/ (t.win[i].saved = None /\ ~t.tidy)
  BY <1>2, <1>8
<1>5. \A c \in Cell : t.scr[c] = IF c \in Area(t.win[i])
                                 THEN Face(t.fm, t.win[i].owner = Kernel) ELSE s.scr[c]
  BY <1>1, <1>2, <1>3, <1>8
<1>6. Good(t, o)
  BY <1>1, <1>2, <1>3, <1>4, <1>5, <1>7, GoodCreate
<1> QED
  BY <1>6 DEF t

LEMMA IconClickRight ==
  ASSUME NEW s, NEW o \in BOOLEAN, Good(s, o), NEW x \in Int, NEW got \in BOOLEAN
  PROVE  Good(IconClick(s, x, got), o) /\ IconClick(s, x, got).cur = s.cur
<1>1. s \in Ui /\ BufInv(s)
  BY DEF Good
<1>2. CASE s.fx # NoWindow /\ s.win[s.fx].used
  BY <1>2 DEF IconClick
<1>3. ASSUME ~(s.fx # NoWindow /\ s.win[s.fx].used) PROVE o => s.fx = NoWindow
  BY <1>3 DEF Good, FxInv
<1>4. CASE ~(s.fx # NoWindow /\ s.win[s.fx].used) /\ FreeSlots(s) = {}
  <2> DEFINE t == [s EXCEPT !.fx = NoWindow]
  <2>1. IconClick(s, x, got) = t
    BY <1>4 DEF IconClick
  <2>2. /\ t \in Ui /\ t.stack = s.stack /\ t.tidy = s.tidy /\ t.scr = s.scr
        /\ t.win = s.win /\ t.menu = s.menu /\ t.hover = s.hover
        /\ t.fx = NoWindow /\ t.fm = s.fm /\ t.bufs = s.bufs /\ t.cur = s.cur
    BY <1>1 DEF Ui, NoWindow
  <2> HIDE DEF t
  <2>3. BufInv(t)
    BY <1>1, <2>2, BufSame
  <2>4. o => FxInv(t)
    BY <1>3, <1>4, <2>2, FxSame DEF Good
  <2>5. ASSUME t.tidy PROVE o /\ Sound(t, Laid(t))
    <3>1. o /\ Sound(s, Laid(s)) /\ Laid(s) \in SUBSET Item /\ Laid(t) = Laid(s)
      BY <2>2, <2>5, LaidRight DEF Good, Laid
    <3>2. Alike(s, t, Laid(s))
      BY <2>2, <3>1, AlikeRight
    <3>3. Sound(t, Laid(s))
      BY <1>1, <2>2, <3>1, <3>2, SoundSame
    <3> QED
      BY <3>1, <3>3
  <2> QED
    BY <2>1, <2>2, <2>3, <2>4, <2>5 DEF Good
<1>5. CASE ~(s.fx # NoWindow /\ s.win[s.fx].used) /\ FreeSlots(s) # {}
  <2> DEFINE b == WinCreate(s, Kernel, x, WinW, got)
             k == Lowest(FreeSlots(s))
             m == [dir |-> DrivesView, list |-> Drives]
             a == [[b EXCEPT !.fx = k] EXCEPT !.fm = m]
             t == Draw(a, k, TRUE)
  <2>1. IconClick(s, x, got) = t
    BY <1>5 DEF IconClick
  <2>11. k \in Slot /\ Created(s, b, k, Kernel, x, WinW, got)
    <3>1. Kernel \in Int /\ WinW \in Int
      BY SlotRight DEF Kernel
    <3> QED
      BY <1>1, <1>5, <3>1, WinCreateRight
  <2> HIDE DEF b, k
  <2>2. /\ ~s.win[k].used
        /\ ButSlot(s, b, k) /\ b.stack = Append(s.stack, k)
        /\ b.win[k].used /\ b.win[k].owner = Kernel /\ b.win[k].x = x
        /\ b.win[k].w = WinW
        /\ b.win[k].saved = IF got THEN <<Under(s, Spread(x, WinW))>> ELSE None
        /\ b.bufs = s.bufs + (IF b.win[k].saved # None THEN 1 ELSE 0)
        /\ b.tidy => s.tidy /\ got
        /\ \A c \in Cell : b.scr[c] = IF c \in Spread(x, WinW) THEN Face(s.fm, FALSE) ELSE s.scr[c]
    BY <2>11 DEF Created
  <2>3. m \in Fm
    <3>1. <<"drive">> \in Seq(Kind)
      <4>1. "drive" \in Kind
        BY DEF Kind
      <4> QED
        BY <4>1
    <3>2. -1 \in Int
      OBVIOUS
    <3> QED
      BY <3>1, <3>2 DEF Fm, DrivesView, Drives
  <2>4. /\ a \in Ui /\ a.stack = b.stack /\ a.tidy = b.tidy /\ a.scr = b.scr
        /\ a.win = b.win /\ a.menu = b.menu /\ a.hover = b.hover
        /\ a.fx = k /\ a.fm = m /\ a.bufs = b.bufs /\ a.cur = b.cur
    <3>1. k \in Int /\ b \in Ui
      BY <2>2, <2>11, SlotRight DEF ButSlot
    <3> HIDE DEF m
    <3> QED
      BY <2>2, <2>3, <3>1 DEF Ui
  <2> HIDE DEF a
  <2>5. /\ ButScreen(a, t)
        /\ \A c \in Cell : t.scr[c] = IF c \in Area(a.win[k]) THEN Face(a.fm, TRUE)
                                      ELSE a.scr[c]
    BY <2>4, <2>11, DrawRight
  <2> HIDE DEF t, m
  <2>6. /\ t \in Ui /\ t.menu = s.menu /\ t.hover = s.hover /\ t.cur = s.cur
        /\ t.fx = k /\ \A j \in Slot \ {k} : t.win[j] = s.win[j]
        /\ t.win[k] = b.win[k] /\ t.stack = Append(s.stack, k) /\ (t.tidy => s.tidy /\ got)
        /\ t.bufs = b.bufs /\ t.fm = a.fm
    BY <2>2, <2>4, <2>5 DEF ButSlot, ButScreen
  <2>7. t.win[k].saved = <<Under(s, Area(t.win[k]))>> \/ (t.win[k].saved = None /\ ~t.tidy)
    BY <2>2, <2>6, AreaRight
  <2>8. \A c \in Cell : t.scr[c] = IF c \in Area(t.win[k])
                                   THEN Face(t.fm, t.win[k].owner = Kernel) ELSE s.scr[c]
    <3>1. Area(a.win[k]) = Spread(x, WinW) /\ Area(t.win[k]) = Spread(x, WinW)
          /\ (t.win[k].owner = Kernel) = TRUE
      BY <2>2, <2>4, <2>6, AreaRight
    <3>2. \A c \in Cell : t.scr[c] = IF c \in Spread(x, WinW) THEN Face(t.fm, TRUE) ELSE a.scr[c]
      BY <2>5, <2>6, <3>1
    <3>3. \A c \in Cell : a.scr[c] = IF c \in Spread(x, WinW) THEN Face(s.fm, FALSE) ELSE s.scr[c]
      BY <2>2, <2>4
    <3> QED
      BY <3>1, <3>2, <3>3
  <2>9. t.bufs = s.bufs + (IF t.win[k].saved # None THEN 1 ELSE 0) /\ t.win[k].used
        /\ t.win[k].owner = Kernel
    BY <2>2, <2>6
  <2>10. Good(t, o)
    BY <1>3, <1>5, <2>2, <2>6, <2>7, <2>8, <2>9, <2>11, GoodCreate
  <2> QED
    BY <2>1, <2>6, <2>10
<1> QED
  BY <1>2, <1>4, <1>5

\* A window is taken away.
LEMMA GoodClose ==
  ASSUME NEW s, NEW o \in BOOLEAN, Good(s, o), NEW t, NEW i \in Slot, s.win[i].used,
         NEW q \in BOOLEAN,
         t \in Ui, t.menu = s.menu, t.hover = s.hover, t.cur = s.cur, t.fm = s.fm,
         \A j \in Slot \ {i} : t.win[j] = s.win[j],
         t.win[i] = Free,
         t.bufs = s.bufs - (IF s.win[i].saved # None THEN 1 ELSE 0),
         t.stack = Without(s.stack, i), t.tidy => s.tidy /\ Uncovered(s, i) /\ (o => q),
         s.win[i].saved # None =>
           \A c \in Cell : t.scr[c] = IF c \in DOMAIN s.win[i].saved[1]
                                      THEN s.win[i].saved[1][c] ELSE s.scr[c],
         q => o /\ t.fx = Forgets(s, i)
  PROVE  Good(t, q)
<1>1. s \in Ui /\ BufInv(s) /\ s.bufs \in Int
  BY UiFields DEF Good
<1>2. ~t.win[i].used /\ t.win[i].saved = None
  BY DEF Free
<1>3. BufInv(t)
  <2>1. t.bufs = s.bufs + (IF t.win[i].saved # None THEN 1 ELSE 0)
                        - (IF s.win[i].saved # None THEN 1 ELSE 0)
    BY <1>1, <1>2
  <2> QED
    BY <1>1, <1>2, <2>1, BufOne
<1>4. ASSUME q PROVE FxInv(t)
  <2>1. FxInv(s) /\ t.fx = Forgets(s, i) /\ i # NoWindow
    BY <1>4, SlotRight DEF Good
  <2>2. t.fx = (IF i = s.fx THEN NoWindow ELSE s.fx)
    BY <2>1 DEF Forgets
  <2>3. t.fx \in Slot \cup {NoWindow} /\ t.fx # i
    BY <2>1, <2>2 DEF FxInv
  <2>4. ASSUME NEW j \in Slot
        PROVE  t.win[j].used /\ t.win[j].owner = Kernel <=> j = t.fx
    <3>1. CASE j = i
      BY <1>2, <2>3, <3>1
    <3>2. CASE j # i
      <4>1. t.win[j] = s.win[j] /\ j # NoWindow
        BY <3>2, SlotRight
      <4> QED
        BY <2>1, <2>2, <3>2, <4>1 DEF FxInv
    <3> QED
      BY <3>1, <3>2
  <2> QED
    BY <2>3, <2>4 DEF FxInv
<1>5. ASSUME t.tidy PROVE q /\ Sound(t, Laid(t))
  <2>1. q /\ Sound(s, Laid(s)) /\ Uncovered(s, i)
    BY <1>5 DEF Good
  <2>2. i \in Laid(s)
    BY LaidRight
  <2>3. Laid(t) = Laid(s) \ {i}
    <3>1. {j \in Slot : t.win[j].used} = {j \in Slot : s.win[j].used} \ {i}
      BY <1>2
    <3> QED
      BY <3>1, SlotRight DEF Laid
  <2>4. Alike(s, t, Laid(s) \ {i})
    <3>1. Laid(s) \ {i} \in SUBSET Item
      BY LaidRight
    <3> QED
      BY <3>1, AlikeRight
  <2>5. SavedOf(s, i) = s.win[i].saved
    BY SlotRight DEF SavedOf
  <2>6. s.win[i].saved # None /\ DOMAIN s.win[i].saved[1] = Cells(s, i)
    BY <2>1, <2>2, <2>5 DEF Sound
  <2>7. \A c \in Cell : t.scr[c] = IF c \in Cells(s, i) THEN SavedOf(s, i)[1][c] ELSE s.scr[c]
    BY <2>5, <2>6
  <2>8. Sound(t, Laid(s) \ {i})
    BY <1>1, <2>1, <2>2, <2>4, <2>7, SoundPop
  <2> QED
    BY <2>1, <2>3, <2>8
<1> QED
  BY <1>3, <1>4, <1>5, <1>1 DEF Good

\* What the closing of window i does.
Closed(s, t, i) ==
  /\ ButSlot(s, t, i) /\ t.win[i] = Free /\ t.stack = Without(s.stack, i)
  /\ t.bufs = s.bufs - (IF s.win[i].saved # None THEN 1 ELSE 0)
  /\ t.tidy = (s.tidy /\ Uncovered(s, i))
  /\ s.win[i].saved # None =>
       \A c \in Cell : t.scr[c] = IF c \in DOMAIN s.win[i].saved[1]
                                  THEN s.win[i].saved[1][c] ELSE s.scr[c]

LEMMA FreeRight == Free \in Win
<1>1. -1 \in Int
  OBVIOUS
<1> QED
  BY <1>1, SavRight DEF Win, Free, Kernel

LEMMA WinCloseRight ==
  ASSUME NEW s \in Ui, NEW i \in Slot
  PROVE  Closed(s, WinClose(s, i), i)
<1> DEFINE u == Off(s, i)
           r == RestoreBg(u, i)
           f == [r EXCEPT !.win[i] = Free]
           b == IF r.win[i].saved = None THEN r.bufs ELSE r.bufs - 1
           t == [f EXCEPT !.bufs = b]
<1>1. /\ u \in Ui /\ u.stack = Without(s.stack, i)
      /\ u.tidy = (s.tidy /\ Uncovered(s, i))
      /\ u.scr = s.scr /\ u.win = s.win /\ u.menu = s.menu /\ u.hover = s.hover
      /\ u.fx = s.fx /\ u.fm = s.fm /\ u.cur = s.cur /\ u.bufs = s.bufs
  BY OffRight
<1> HIDE DEF u
<1>2. /\ ButScreen(u, r)
      /\ u.win[i].saved # None =>
           \A c \in Cell : r.scr[c] = IF c \in DOMAIN u.win[i].saved[1]
                                      THEN u.win[i].saved[1][c] ELSE u.scr[c]
  BY <1>1, RestoreBgRight
<1> HIDE DEF r
<1>3. r \in Ui
  BY <1>2 DEF ButScreen
<1>4. WinClose(s, i) = t
  BY <1>3 DEF WinClose, Freed, Ui, u, r
<1>5. /\ f \in Ui /\ f.stack = r.stack /\ f.tidy = r.tidy /\ f.scr = r.scr
      /\ f.menu = r.menu /\ f.hover = r.hover /\ f.fx = r.fx /\ f.fm = r.fm
      /\ f.cur = r.cur /\ f.bufs = r.bufs
      /\ f.win[i] = Free /\ \A j \in Slot \ {i} : f.win[j] = r.win[j]
  BY <1>3, FreeRight, SlotSet
<1>6. b \in Int /\ b = r.bufs - (IF r.win[i].saved # None THEN 1 ELSE 0)
  BY <1>3, UiFields
<1> HIDE DEF f, b
<1>7. /\ t \in Ui /\ t.stack = f.stack /\ t.tidy = f.tidy /\ t.scr = f.scr
      /\ t.menu = f.menu /\ t.hover = f.hover /\ t.fx = f.fx /\ t.fm = f.fm
      /\ t.cur = f.cur /\ t.bufs = b /\ t.win = f.win
  BY <1>5, <1>6 DEF Ui
<1> HIDE DEF t
<1>8. ButSlot(s, t, i)
  BY <1>1, <1>2, <1>5, <1>7 DEF ButSlot, ButScreen
<1>9. /\ t.win[i] = Free /\ t.stack = Without(s.stack, i)
      /\ t.bufs = s.bufs - (IF s.win[i].saved # None THEN 1 ELSE 0)
      /\ t.tidy = (s.tidy /\ Uncovered(s, i))
  BY <1>1, <1>2, <1>5, <1>6, <1>7 DEF ButScreen
<1>10. s.win[i].saved # None =>
         \A c \in Cell : t.scr[c] = IF c \in DOMAIN s.win[i].saved[1]
                                    THEN s.win[i].saved[1][c] ELSE s.scr[c]
  <2>1. t.scr = r.scr /\ u.win = s.win /\ u.scr = s.scr
    BY <1>1, <1>5, <1>7
  <2> QED
    BY <1>2, <2>1
<1> QED
  BY <1>4, <1>8, <1>9, <1>10 DEF Closed

\* A task closes a window of its own.
LEMMA CloseRight ==
  ASSUME NEW s, NEW o \in BOOLEAN, Good(s, o), NEW i \in Slot, s.win[i].used,
         NEW owner \in App
  PROVE  LET t == [WinClose(s, i) EXCEPT !.tidy = @ /\ s.win[i].owner = owner]
             q == o /\ s.win[i].owner = owner
         IN Good(t, q) /\ (t.tidy => s.tidy /\ s.win[i].owner = owner)
<1> DEFINE v == WinClose(s, i)
           q == o /\ s.win[i].owner = owner
           d == v.tidy /\ s.win[i].owner = owner
           t == [v EXCEPT !.tidy = d]
<1>1. s \in Ui /\ owner # Kernel
  BY SlotRight DEF Good
<1>2. Closed(s, v, i)
  BY <1>1, WinCloseRight
<1> HIDE DEF v
<1>3. v \in Ui
  BY <1>2 DEF Closed, ButSlot
<1>4. [v EXCEPT !.tidy = @ /\ s.win[i].owner = owner] = t
  BY <1>3 DEF Ui
<1>5. d \in BOOLEAN /\ q \in BOOLEAN
  BY <1>3, UiFields
<1>6. /\ d => v.tidy /\ s.win[i].owner = owner /\ (o => q)
      /\ q => o /\ s.win[i].owner = owner
  OBVIOUS
<1> HIDE DEF d
<1>7. /\ t \in Ui /\ t.stack = v.stack /\ t.tidy = d /\ t.scr = v.scr
      /\ t.win = v.win /\ t.menu = v.menu /\ t.hover = v.hover
      /\ t.fx = v.fx /\ t.fm = v.fm /\ t.bufs = v.bufs /\ t.cur = v.cur
  BY <1>3, <1>5 DEF Ui
<1> HIDE DEF t
<1>8. /\ t.menu = s.menu /\ t.hover = s.hover /\ t.cur = s.cur /\ t.fm = s.fm
      /\ t.fx = s.fx /\ \A j \in Slot \ {i} : t.win[j] = s.win[j]
  BY <1>2, <1>7 DEF Closed, ButSlot
<1>9. /\ t.win[i] = Free /\ t.bufs = s.bufs - (IF s.win[i].saved # None THEN 1 ELSE 0)
      /\ t.stack = Without(s.stack, i) /\ (t.tidy => s.tidy /\ Uncovered(s, i) /\ (o => q))
  BY <1>2, <1>6, <1>7 DEF Closed
<1>10. s.win[i].saved # None =>
         \A c \in Cell : t.scr[c] = IF c \in DOMAIN s.win[i].saved[1]
                                    THEN s.win[i].saved[1][c] ELSE s.scr[c]
  BY <1>2, <1>7 DEF Closed
<1>11. q => o /\ t.fx = Forgets(s, i)
  BY <1>1, <1>6, <1>8 DEF Good, FxInv, Forgets
<1> HIDE DEF q
<1>12. Good(t, q)
  BY <1>5, <1>7, <1>8, <1>9, <1>10, <1>11, GoodClose
<1>13. t.tidy => s.tidy /\ s.win[i].owner = owner
  BY <1>6, <1>7, <1>9
<1> QED
  BY <1>4, <1>12, <1>13 DEF q, v

\* A task that ends closes its windows.
LEMMA ExitOneRight ==
  ASSUME NEW s, NEW o \in BOOLEAN, Good(s, o), NEW i \in Slot, s.win[i].used,
         o => s.win[i].owner # Kernel
  PROVE  Good(WinClose(s, i), o) /\ Closed(s, WinClose(s, i), i)
<1> DEFINE t == WinClose(s, i)
<1>1. s \in Ui
  BY DEF Good
<1>2. Closed(s, t, i)
  BY <1>1, WinCloseRight
<1> HIDE DEF t
<1>3. /\ t \in Ui /\ t.menu = s.menu /\ t.hover = s.hover /\ t.cur = s.cur /\ t.fm = s.fm
      /\ t.fx = s.fx /\ \A j \in Slot \ {i} : t.win[j] = s.win[j]
  BY <1>2 DEF Closed, ButSlot
<1>4. /\ t.win[i] = Free /\ t.bufs = s.bufs - (IF s.win[i].saved # None THEN 1 ELSE 0)
      /\ t.stack = Without(s.stack, i) /\ (t.tidy => s.tidy /\ Uncovered(s, i))
  BY <1>2 DEF Closed
<1>5. s.win[i].saved # None =>
         \A c \in Cell : t.scr[c] = IF c \in DOMAIN s.win[i].saved[1]
                                    THEN s.win[i].saved[1][c] ELSE s.scr[c]
  BY <1>2 DEF Closed
<1>6. o => o /\ t.fx = Forgets(s, i)
  BY <1>1, <1>3 DEF Good, FxInv, Forgets
<1>7. Good(t, o)
  BY <1>3, <1>4, <1>5, <1>6, GoodClose
<1> QED
  BY <1>2, <1>7 DEF t

\* The cross of a window closes it, and My Computer's number goes with it.
LEMMA CrossRight ==
  ASSUME NEW s, NEW o \in BOOLEAN, Good(s, o), NEW i \in Slot, s.win[i].used
  PROVE  LET t == [WinClose(s, i) EXCEPT !.fx = Forgets(s, i)] IN
         Good(t, o) /\ t.cur = s.cur
<1> DEFINE v == WinClose(s, i)
           n == Forgets(s, i)
           t == [v EXCEPT !.fx = n]
<1>1. s \in Ui /\ n \in Int
  BY UiFields DEF Good, Forgets, NoWindow
<1>2. Closed(s, v, i)
  BY <1>1, WinCloseRight
<1> HIDE DEF v, n
<1>3. v \in Ui
  BY <1>2 DEF Closed, ButSlot
<1>7. /\ t \in Ui /\ t.stack = v.stack /\ t.tidy = v.tidy /\ t.scr = v.scr
      /\ t.win = v.win /\ t.menu = v.menu /\ t.hover = v.hover
      /\ t.fx = n /\ t.fm = v.fm /\ t.bufs = v.bufs /\ t.cur = v.cur
  BY <1>1, <1>3 DEF Ui
<1> HIDE DEF t
<1>8. /\ t.menu = s.menu /\ t.hover = s.hover /\ t.cur = s.cur /\ t.fm = s.fm
      /\ \A j \in Slot \ {i} : t.win[j] = s.win[j]
  BY <1>2, <1>7 DEF Closed, ButSlot
<1>9. /\ t.win[i] = Free /\ t.bufs = s.bufs - (IF s.win[i].saved # None THEN 1 ELSE 0)
      /\ t.stack = Without(s.stack, i) /\ (t.tidy => s.tidy /\ Uncovered(s, i))
  BY <1>2, <1>7 DEF Closed
<1>10. s.win[i].saved # None =>
         \A c \in Cell : t.scr[c] = IF c \in DOMAIN s.win[i].saved[1]
                                    THEN s.win[i].saved[1][c] ELSE s.scr[c]
  BY <1>2, <1>7 DEF Closed
<1>11. o => o /\ t.fx = Forgets(s, i)
  BY <1>7 DEF n
<1>12. Good(t, o)
  BY <1>7, <1>8, <1>9, <1>10, <1>11, GoodClose
<1> QED
  BY <1>8, <1>12 DEF v, n, t

\* A window is moved, and drawn where it has come to.
LEMMA MoveRight ==
  ASSUME NEW s, NEW o \in BOOLEAN, Good(s, o), NEW i \in Slot, s.win[i].used,
         NEW x \in Int, NEW got \in BOOLEAN
  PROVE  LET t == WinMove(s, i, x, got) IN
         Good(t, o) /\ Steady(s, t) /\ t.cur = s.cur
<1> DEFINE u == Off(s, i)
           r == RestoreBg(u, i)
           w == [r.win[i] EXCEPT !.x = x]
           a == [r EXCEPT !.win[i] = w]
           b == SaveBg(a, i, got)
           d == Draw(b, i, i = s.fx)
           t == On(d, i)
           C == Spread(x, s.win[i].w)
           has == a.win[i].saved # None \/ got
           v == IF has THEN <<Under(a, C)>> ELSE None
<1>1. s \in Ui /\ BufInv(s) /\ s.bufs \in Int
  BY UiFields DEF Good
<1>2. /\ u \in Ui /\ u.stack = Without(s.stack, i)
      /\ u.tidy = (s.tidy /\ Uncovered(s, i))
      /\ u.scr = s.scr /\ u.win = s.win /\ u.menu = s.menu /\ u.hover = s.hover
      /\ u.fx = s.fx /\ u.fm = s.fm /\ u.cur = s.cur /\ u.bufs = s.bufs
  BY <1>1, OffRight
<1> HIDE DEF u
<1>3. /\ ButScreen(u, r)
      /\ u.win[i].saved # None =>
           \A c \in Cell : r.scr[c] = IF c \in DOMAIN u.win[i].saved[1]
                                      THEN u.win[i].saved[1][c] ELSE u.scr[c]
  BY <1>2, RestoreBgRight
<1> HIDE DEF r
<1>4. r \in Ui /\ r.win[i] \in Win
  BY <1>3, WinFields DEF ButScreen
<1>5. [r EXCEPT !.win[i].x = x] = a
  BY <1>4 DEF Ui
<1>6. w \in Win /\ w.x = x /\ w.w = r.win[i].w /\ w.used = r.win[i].used /\ w.owner = r.win[i].owner
      /\ w.saved = r.win[i].saved
  BY <1>4 DEF Win
<1>7. WinMove(s, i, x, got) = t
  BY <1>5 DEF WinMove, Moved, u, r
<1> HIDE DEF w
<1>8. /\ a \in Ui /\ a.stack = r.stack /\ a.tidy = r.tidy /\ a.scr = r.scr
      /\ a.menu = r.menu /\ a.hover = r.hover /\ a.fx = r.fx /\ a.fm = r.fm
      /\ a.cur = r.cur /\ a.bufs = r.bufs
      /\ a.win[i] = w /\ \A j \in Slot \ {i} : a.win[j] = r.win[j]
  BY <1>4, <1>6, SlotSet
<1> HIDE DEF a
<1>9. /\ ButSlot(a, b, i) /\ b.stack = a.stack /\ b.scr = a.scr
      /\ b.win[i] = [w EXCEPT !.saved = v]
      /\ b.tidy => a.tidy /\ has
      /\ b.bufs = a.bufs + (IF b.win[i].saved # None THEN 1 ELSE 0)
                         - (IF a.win[i].saved # None THEN 1 ELSE 0)
  <2>1. Backed(a, b, i, got)
    <3>1. a \in Ui
      BY <1>8
    <3> HIDE DEF has, v
    <3> QED
      BY <3>1, SaveBgRight
  <2> HIDE DEF b
  <2>2. Area(a.win[i]) = C
    <3>1. a.win[i].x = x /\ a.win[i].w = s.win[i].w
      BY <1>2, <1>3, <1>6, <1>8 DEF ButScreen
    <3> QED
      BY <3>1, AreaRight
  <2> QED
    BY <1>8, <2>1, <2>2 DEF Backed
<1>10. /\ a.scr = r.scr /\ a.win[i].saved = s.win[i].saved
  BY <1>2, <1>3, <1>6, <1>8 DEF ButScreen
<1>11. /\ has => v = <<Under(r, C)>>
       /\ ~has => v = None
  BY <1>10 DEF Under
<1> HIDE DEF b, v, has
<1>12. b \in Ui /\ b.win[i].saved = v /\ b.win[i].used = w.used /\ b.win[i].owner = w.owner
      /\ b.win[i].x = x /\ b.win[i].w = w.w
  BY <1>6, <1>9 DEF ButSlot, Win
<1>13. /\ ButScreen(b, d)
       /\ \A c \in Cell : d.scr[c] = IF c \in C THEN Face(b.fm, i = s.fx)
                                     ELSE b.scr[c]
  <2>1. (i = s.fx) \in BOOLEAN /\ b \in Ui
    BY <1>12
  <2>2. b.win[i].x = x /\ b.win[i].w = s.win[i].w
    BY <1>2, <1>3, <1>6, <1>12 DEF ButScreen
  <2>3. Area(b.win[i]) = C
    BY <2>2, AreaRight
  <2>4. /\ ButScreen(b, d)
        /\ \A c \in Cell : d.scr[c] = IF c \in Area(b.win[i]) THEN Face(b.fm, i = s.fx)
                                      ELSE b.scr[c]
    BY <2>1, DrawRight
  <2> HIDE DEF d
  <2> QED
    BY <2>3, <2>4
<1> HIDE DEF d
<1>14. /\ t \in Ui /\ t.stack = Append(d.stack, i) /\ t.tidy = d.tidy
       /\ t.scr = d.scr /\ t.win = d.win /\ t.menu = d.menu /\ t.hover = d.hover
       /\ t.fx = d.fx /\ t.fm = d.fm /\ t.cur = d.cur /\ t.bufs = d.bufs
  BY <1>13, OnRight, SlotRight DEF ButScreen
<1> HIDE DEF t
<1>15. /\ t \in Ui /\ t.menu = s.menu /\ t.hover = s.hover /\ t.cur = s.cur /\ t.fm = s.fm
       /\ t.fx = s.fx /\ \A j \in Slot \ {i} : t.win[j] = s.win[j]
  BY <1>2, <1>3, <1>8, <1>9, <1>13, <1>14 DEF ButSlot, ButScreen
<1>16. /\ t.win[i].used /\ t.win[i].owner = s.win[i].owner /\ t.win[i].x = x
       /\ t.win[i].w = s.win[i].w
       /\ t.win[i].saved = v
  <2>1. t.win[i] = b.win[i] /\ r.win[i] = s.win[i]
    BY <1>2, <1>3, <1>13, <1>14 DEF ButScreen
  <2>2. b.win[i].used = s.win[i].used
    BY <1>6, <1>12, <2>1
  <2> QED
    BY <1>6, <1>12, <2>1, <2>2
<1>17. t.tidy => s.tidy /\ Uncovered(s, i) /\ has
  BY <1>2, <1>3, <1>8, <1>9, <1>13, <1>14 DEF ButScreen
<1>18. BufInv(t)
  <2>1. t.win = b.win /\ t.bufs = b.bufs /\ a.bufs = s.bufs
    BY <1>2, <1>3, <1>8, <1>13, <1>14 DEF ButScreen
  <2>2. t.bufs = s.bufs + (IF t.win[i].saved # None THEN 1 ELSE 0)
                        - (IF s.win[i].saved # None THEN 1 ELSE 0)
    BY <1>9, <1>10, <2>1
  <2> QED
    BY <1>1, <1>15, <1>16, <2>2, BufOne
<1>19. o => FxInv(t)
  <2>1. \A j \in Slot : t.win[j].used = s.win[j].used /\ t.win[j].owner = s.win[j].owner
    <3>1. s.win[i].used \in BOOLEAN /\ t.win[i].used \in BOOLEAN
      BY <1>1, <1>15, WinFields
    <3> QED
      BY <1>15, <1>16, <3>1
  <2> QED
    BY <1>15, <2>1, FxSame DEF Good
<1>20. ASSUME t.tidy PROVE o /\ Sound(t, Laid(t))
  <2> DEFINE J == Laid(s) \ {i}
  <2>1. s.tidy /\ Uncovered(s, i) /\ has /\ o /\ Sound(s, Laid(s)) /\ FxInv(s)
    BY <1>17, <1>20 DEF Good
  <2>2. i \in Laid(s) /\ J \in SUBSET Item
    BY LaidRight
  <2>3. Laid(t) = J \cup {i}
    <3>1. {j \in Slot : t.win[j].used} = {j \in Slot : s.win[j].used} \cup {i}
      BY <1>15, <1>16
    <3>2. Laid(t) = Laid(s) \cup {i}
      BY <1>15, <3>1 DEF Laid
    <3> QED
      BY <2>2, <3>2
  <2>4. /\ r.stack = Without(s.stack, i) /\ r.win = s.win /\ r.menu = s.menu
        /\ r.hover = s.hover /\ r.fm = s.fm /\ r.cur = s.cur
    BY <1>2, <1>3 DEF ButScreen
  <2>5. SavedOf(s, i) = s.win[i].saved
    BY SlotRight DEF SavedOf
  <2>6. s.win[i].saved # None /\ DOMAIN s.win[i].saved[1] = Cells(s, i)
    BY <2>1, <2>2, <2>5 DEF Sound
  <2>7. \A c \in Cell : r.scr[c] = IF c \in Cells(s, i) THEN SavedOf(s, i)[1][c] ELSE s.scr[c]
    BY <1>2, <1>3, <2>5, <2>6
  <2> HIDE DEF J
  <2>8. Alike(s, r, J)
    BY <2>2, <2>4, AlikeRight
  <2>9. Sound(r, J)
    BY <1>1, <2>1, <2>2, <2>4, <2>7, <2>8, SoundPop DEF J
  <2>10. i \in Item \ J
    BY SlotRight DEF J
  <2>11. Alike(r, t, J)
    BY <1>15, <2>2, <2>4, <2>10, AlikeRight
  <2>12. t.stack = Append(r.stack, i) /\ t.hover = r.hover
    BY <1>8, <1>9, <1>13, <1>14, <1>15, <2>4 DEF ButScreen
  <2>18. Area(t.win[i]) = C
    BY <1>16, AreaRight
  <2>13. SavedOf(t, i) = <<Under(r, C)>> /\ Cells(t, i) = C
         /\ Look(t, i) = Face(s.fm, s.win[i].owner = Kernel)
    BY <1>11, <1>15, <1>16, <2>1, <2>18, SlotRight DEF SavedOf, Cells, Look
  <2>14. /\ SavedOf(t, i) # None /\ DOMAIN SavedOf(t, i)[1] = Cells(t, i)
         /\ \A c \in Cells(t, i) : SavedOf(t, i)[1][c] = r.scr[c]
    <3>1. C \in SUBSET Cell
      BY DEF Spread
    <3> QED
      BY <1>4, <2>13, <3>1, UnderRight
  <2>15. Face(b.fm, i = s.fx) = Look(t, i)
    <3>1. (i = s.fx) <=> (s.win[i].owner = Kernel)
      BY <2>1 DEF FxInv
    <3>2. b.fm = s.fm
      BY <1>2, <1>3, <1>8, <1>9 DEF ButSlot, ButScreen
    <3> QED
      BY <2>13, <3>1, <3>2 DEF Face
  <2>16. \A c \in Cell : t.scr[c] = IF c \in Cells(t, i) THEN Look(t, i) ELSE r.scr[c]
    <3>1. t.scr = d.scr /\ b.scr = r.scr
      BY <1>8, <1>9, <1>14
    <3> QED
      BY <1>12, <1>13, <2>13, <2>15, <3>1
  <2>17. Sound(t, J \cup {i})
    BY <1>4, <2>9, <2>10, <2>11, <2>12, <2>14, <2>16, SoundPush
  <2> QED
    BY <2>1, <2>3, <2>17
<1>21. Good(t, o)
  BY <1>15, <1>18, <1>19, <1>20 DEF Good
<1> QED
  BY <1>7, <1>15, <1>21 DEF Steady

\* A window is dragged, or let go.
LEMMA DragRight ==
  ASSUME NEW s, NEW o \in BOOLEAN, Good(s, o), NEW i \in Slot, NEW e \in Int
  PROVE  LET t == [s EXCEPT !.win[i].drag = e] IN
         /\ Good(t, o) /\ Steady(s, t) /\ t.cur = s.cur
         /\ t.win[i].used = s.win[i].used /\ t.win[i].x = s.win[i].x
         /\ t.win[i].drag = e
<1> DEFINE w == [s.win[i] EXCEPT !.drag = e]
           t == [s EXCEPT !.win[i] = w]
<1>1. s \in Ui /\ BufInv(s) /\ s.win[i] \in Win
  BY WinFields DEF Good
<1>2. w \in Win /\ w.used = s.win[i].used /\ w.owner = s.win[i].owner
      /\ w.x = s.win[i].x /\ w.w = s.win[i].w /\ w.saved = s.win[i].saved /\ w.drag = e
  BY <1>1 DEF Win
<1>3. [s EXCEPT !.win[i].drag = e] = t
  BY <1>1 DEF Ui
<1> HIDE DEF w
<1>4. /\ t \in Ui /\ t.stack = s.stack /\ t.tidy = s.tidy /\ t.scr = s.scr
      /\ t.menu = s.menu /\ t.hover = s.hover /\ t.fx = s.fx /\ t.fm = s.fm
      /\ t.cur = s.cur /\ t.bufs = s.bufs
      /\ t.win[i] = w /\ \A j \in Slot \ {i} : t.win[j] = s.win[j]
  BY <1>1, <1>2, SlotSet
<1> HIDE DEF t
<1>5. \A j \in Slot : /\ t.win[j].used = s.win[j].used /\ t.win[j].owner = s.win[j].owner
                      /\ t.win[j].x = s.win[j].x /\ t.win[j].w = s.win[j].w
                      /\ t.win[j].saved = s.win[j].saved
  BY <1>2, <1>4
<1>6. BufInv(t) /\ (o => FxInv(t))
  BY <1>1, <1>4, <1>5, BufSame, FxSame DEF Good
<1>7. ASSUME t.tidy PROVE o /\ Sound(t, Laid(t))
  <2>1. o /\ Sound(s, Laid(s)) /\ Laid(s) \in SUBSET Item
    BY <1>4, <1>7, LaidRight DEF Good
  <2>2. Laid(t) = Laid(s)
    <3>1. {j \in Slot : t.win[j].used} = {j \in Slot : s.win[j].used}
      BY <1>5
    <3> QED
      BY <1>4, <3>1 DEF Laid
  <2>3. Alike(s, t, Laid(s))
    BY <1>4, <1>5, <2>1, AlikeRight
  <2>4. Sound(t, Laid(s))
    BY <1>1, <1>4, <2>1, <2>3, SoundSame
  <2> QED
    BY <2>1, <2>2, <2>4
<1>8. Good(t, o)
  BY <1>4, <1>6, <1>7 DEF Good
<1> QED
  BY <1>2, <1>3, <1>4, <1>8 DEF Steady

LEMMA OpenedRight ==
  ASSUME NEW fm \in Fm, NEW kind, NEW files \in Seq(Kind)
  PROVE  Opened(fm, kind, files) \in Fm
<1>1. fm.dir \in Int /\ fm.list \in Seq(Kind) /\ -1 \in Int
  BY DEF Fm
<1>2. Dir(files) \in Seq(Kind) /\ Drives \in Seq(Kind)
  <2>1. "up" \in Kind /\ "drive" \in Kind
    BY DEF Kind
  <2>2. <<"up">> \in Seq(Kind) /\ <<"drive">> \in Seq(Kind)
    BY <2>1
  <2>3. <<"up">> \o files \in Seq(Kind)
    BY <2>2
  <2> QED
    BY <2>2, <2>3 DEF Dir, Drives
<1>3. \A e \in Int, l \in Seq(Kind) : [dir |-> e, list |-> l] \in Fm
  BY DEF Fm
<1>4. [dir |-> 0, list |-> Dir(files)] \in Fm /\ [dir |-> DrivesView, list |-> Drives] \in Fm
      /\ [dir |-> fm.dir - 1, list |-> Dir(files)] \in Fm
      /\ [dir |-> fm.dir + 1, list |-> Dir(files)] \in Fm
  <2>1. 0 \in Int /\ DrivesView \in Int /\ fm.dir - 1 \in Int /\ fm.dir + 1 \in Int
    BY <1>1 DEF DrivesView
  <2> QED
    BY <1>2, <1>3, <2>1
<1> QED
  BY <1>4 DEF Opened

\* A click into My Computer opens what lies there.
LEMMA FmClickRight ==
  ASSUME NEW s, NEW o \in BOOLEAN, Good(s, o), NEW i \in Slot, s.win[i].used, i = s.fx,
         NEW p, NEW files \in Seq(Kind)
  PROVE  LET t == FmClick(s, i, p, files) IN
         Good(t, o) /\ Steady(s, t) /\ t.cur = s.cur /\ t.win = s.win
<1> DEFINE k == p[1] - s.win[i].x + 1
           kind == IF k \in DOMAIN s.fm.list THEN s.fm.list[k] ELSE "none"
           f == Opened(s.fm, kind, files)
           u == [s EXCEPT !.fm = f]
           v == Draw(u, i, TRUE)
           t == Touch(v, i)
<1>1. s \in Ui /\ BufInv(s) /\ s.fm \in Fm
  BY UiFields DEF Good
<1>2. CASE kind \in {"none", "file"} \/ (kind = "dir" /\ s.fm.dir = MaxDepth)
  BY <1>2 DEF FmClick, Steady
<1>3. CASE ~(kind \in {"none", "file"} \/ (kind = "dir" /\ s.fm.dir = MaxDepth))
  <2>1. FmClick(s, i, p, files) = t
    BY <1>3 DEF FmClick
  <2>2. f \in Fm
    BY <1>1, OpenedRight
  <2> HIDE DEF f
  <2>3. /\ u \in Ui /\ u.stack = s.stack /\ u.tidy = s.tidy /\ u.scr = s.scr
        /\ u.win = s.win /\ u.menu = s.menu /\ u.hover = s.hover
        /\ u.fx = s.fx /\ u.fm = f /\ u.bufs = s.bufs /\ u.cur = s.cur
    BY <1>1, <2>2 DEF Ui
  <2> HIDE DEF u
  <2>4. /\ ButScreen(u, v)
        /\ \A c \in Cell : v.scr[c] = IF c \in Area(u.win[i]) THEN Face(u.fm, TRUE)
                                      ELSE u.scr[c]
    BY <2>3, DrawRight
  <2> HIDE DEF v
  <2>5. /\ t \in Ui /\ t.stack = v.stack /\ t.tidy = (v.tidy /\ Uncovered(v, i))
        /\ t.scr = v.scr /\ t.win = v.win /\ t.menu = v.menu /\ t.hover = v.hover
        /\ t.fx = v.fx /\ t.fm = v.fm /\ t.cur = v.cur /\ t.bufs = v.bufs
    BY <2>4, TouchRight DEF ButScreen
  <2> HIDE DEF t
  <2>6. BufInv(t) /\ (o => FxInv(t))
    BY <1>1, <2>3, <2>4, <2>5, BufSame, FxSame DEF Good, ButScreen
  <2>7. /\ t.stack = s.stack /\ t.win = s.win /\ t.fm = f /\ t.cur = s.cur
        /\ t.menu = s.menu /\ t.hover = s.hover /\ t.fx = s.fx
    BY <2>3, <2>4, <2>5 DEF ButScreen
  <2>8. ASSUME t.tidy PROVE o /\ Sound(t, Laid(t))
    <3>1. s.tidy /\ Uncovered(s, i)
      BY <2>3, <2>4, <2>5, <2>8, UncoveredSame DEF ButScreen
    <3>2. o /\ Sound(s, Laid(s)) /\ FxInv(s)
      BY <2>8, <3>1 DEF Good
    <3>3. i \in Laid(s) /\ Laid(t) = Laid(s)
      BY <2>7, LaidRight DEF Laid
    <3>4. Alike(s, t, Laid(s) \ {i})
      <4>1. Laid(s) \ {i} \in SUBSET Item
        BY LaidRight
      <4>2. \A j \in (Laid(s) \ {i}) \cap Slot : s.win[j].owner # Kernel
        BY <3>2, LaidRight DEF FxInv
      <4> QED
        BY <2>7, <4>1, <4>2, AlikeRight
    <3>5. SavedOf(t, i) = SavedOf(s, i) /\ Cells(t, i) = Cells(s, i)
          /\ Cells(s, i) = Area(s.win[i])
      BY <2>7, SlotRight DEF SavedOf, Cells
    <3>6. Look(t, i) = Face(f, TRUE)
      <4>1. s.win[i].owner = Kernel
        BY <3>2 DEF FxInv
      <4> QED
        BY <2>7, <4>1, SlotRight DEF Look
    <3>7. \A c \in Cell : t.scr[c] = IF c \in Cells(s, i) THEN Look(t, i) ELSE s.scr[c]
      <4>1. t.scr = v.scr /\ u.win = s.win /\ u.scr = s.scr /\ u.fm = f
        BY <2>3, <2>5
      <4> QED
        BY <2>4, <3>5, <3>6, <4>1
    <3>8. Sound(t, Laid(s))
      BY <1>1, <2>7, <3>1, <3>2, <3>3, <3>4, <3>5, <3>7, SoundRepaint
    <3> QED
      BY <3>2, <3>3, <3>8
  <2>9. Good(t, o)
    BY <2>5, <2>6, <2>7, <2>8 DEF Good
  <2> QED
    BY <2>1, <2>7, <2>9 DEF Steady
<1> QED
  BY <1>2, <1>3

LEMMA PointerRight ==
  ASSUME NEW p \in Pointer
  PROVE  p[1] \in Int /\ p[2] \in Int
  BY SlotRight DEF Pointer, Cell, Button

\* One window of the loop.
LEMMA WindowStepRight ==
  ASSUME NEW s, NEW o \in BOOLEAN, Good(s, o), NEW i \in Slot, NEW p \in Pointer,
         NEW click \in BOOLEAN, NEW left \in BOOLEAN, NEW files \in Seq(Kind),
         NEW got \in BOOLEAN
  PROVE  LET t == WindowStep(s, i, p, click, left, files, got) IN
         Good(t, o) /\ t.cur = s.cur /\ (~click => Steady(s, t))
<1> DEFINE w == s.win[i]
           body == click /\ i = s.fx /\ p \in Area(w) /\ p[2] = 1
           a == IF body THEN FmClick(s, i, p, files) ELSE s
           e == p[1] - w.x
           b == IF click /\ p \in Area(w) /\ p[2] = 0
                THEN [a EXCEPT !.win[i].drag = e] ELSE a
           c == IF left THEN b ELSE [b EXCEPT !.win[i].drag = -1]
           x == Within(p[1] - c.win[i].drag, w.w)
<1>1. s \in Ui /\ w.x \in Int /\ w.w \in Int /\ e \in Int
  BY WinFields, PointerRight DEF Good
<1>2. CASE ~w.used
  BY <1>2 DEF WindowStep, Steady
<1>3. CASE w.used /\ click /\ p = <<w.x + w.w - 1, 0>>
  <2> DEFINE t == [WinClose(s, i) EXCEPT !.fx = Forgets(s, i)]
  <2>1. WindowStep(s, i, p, click, left, files, got) = t
    BY <1>3 DEF WindowStep
  <2>2. Good(t, o) /\ t.cur = s.cur
    BY <1>3, CrossRight
  <2> HIDE DEF t
  <2> QED
    BY <1>3, <2>1, <2>2
<1>4. CASE w.used /\ ~(click /\ p = <<w.x + w.w - 1, 0>>)
  <2>1. WindowStep(s, i, p, click, left, files, got)
          = IF c.win[i].drag # -1 /\ x # w.x THEN WinMove(c, i, x, got) ELSE c
    BY <1>4 DEF WindowStep
  <2>2. /\ Good(a, o) /\ Steady(s, a) /\ a.cur = s.cur /\ a.win = s.win
    <3>1. CASE body
      <4>1. i = s.fx /\ a = FmClick(s, i, p, files)
        BY <3>1
      <4>2. LET q == FmClick(s, i, p, files) IN
            Good(q, o) /\ Steady(s, q) /\ q.cur = s.cur /\ q.win = s.win
        <5>1. s.win[i].used /\ i = s.fx
          BY <1>4, <4>1
        <5> HIDE DEF w, a, body
        <5> QED
          BY <5>1, FmClickRight, SMTT(40)
      <4> HIDE DEF a
      <4> QED
        BY <4>1, <4>2
    <3>2. CASE ~body
      BY <3>2 DEF Steady
    <3> QED
      BY <3>1, <3>2
  <2> HIDE DEF a, e
  <2>3. /\ Good(b, o) /\ Steady(a, b) /\ b.cur = a.cur
        /\ b.win[i].used = a.win[i].used /\ b.win[i].x = a.win[i].x
    <3> DEFINE g == [a EXCEPT !.win[i].drag = e]
    <3>1. /\ Good(g, o) /\ Steady(a, g) /\ g.cur = a.cur
          /\ g.win[i].used = a.win[i].used /\ g.win[i].x = a.win[i].x
      <4>1. Good(a, o) /\ e \in Int
        BY <1>1, <2>2
      <4> HIDE DEF w
      <4> QED
        BY <4>1, DragRight
    <3> HIDE DEF g
    <3>2. b = g \/ b = a
      BY DEF g
    <3> HIDE DEF b
    <3> QED
      BY <2>2, <3>1, <3>2 DEF Steady
  <2> HIDE DEF b
  <2>4. /\ Good(c, o) /\ Steady(b, c) /\ c.cur = b.cur
        /\ c.win[i].used = b.win[i].used /\ c.win[i].x = b.win[i].x
    <3> DEFINE m == -1
               g == [b EXCEPT !.win[i].drag = m]
    <3>1. /\ Good(g, o) /\ Steady(b, g) /\ g.cur = b.cur
          /\ g.win[i].used = b.win[i].used /\ g.win[i].x = b.win[i].x
      <4>1. m \in Int
        OBVIOUS
      <4> HIDE DEF m
      <4> QED
        BY <2>3, <4>1, DragRight
    <3> HIDE DEF g
    <3>2. c = g \/ c = b
      BY DEF g
    <3> HIDE DEF c
    <3> QED
      BY <2>3, <3>1, <3>2 DEF Steady
  <2> HIDE DEF c
  <2>5. c.win[i].used
    BY <1>4, <2>2, <2>3, <2>4
  <2>6. x \in Int
    <3>1. c.win[i].drag \in Int
      BY <2>4, WinFields DEF Good
    <3>2. p[1] - c.win[i].drag \in Int /\ w.w \in Int /\ Cols \in Int
      BY <1>1, <3>1, SlotRight, PointerRight
    <3> DEFINE y == p[1] - c.win[i].drag
               z == w.w
    <3> HIDE DEF y, z
    <3>3. Within(y, z) \in Int
      BY <3>2 DEF Within, y, z
    <3> QED
      BY <3>3 DEF y, z
  <2> HIDE DEF x
  <2>7. LET t == WinMove(c, i, x, got) IN Good(t, o) /\ Steady(c, t) /\ t.cur = c.cur
    BY <2>4, <2>5, <2>6, MoveRight
  <2> QED
    BY <2>1, <2>2, <2>3, <2>4, <2>7 DEF Steady
<1> QED
  BY <1>2, <1>3, <1>4

LEMMA IconStepRight ==
  ASSUME NEW s, NEW o \in BOOLEAN, Good(s, o), NEW p, NEW click \in BOOLEAN,
         NEW x \in Int, NEW got \in BOOLEAN
  PROVE  LET t == IconStep(s, p, click, x, got) IN
         Good(t, o) /\ t.cur = s.cur /\ (~click => Steady(s, t))
<1> DEFINE over == p = IconCell
           b == IconHover(s, over)
           a == IF over = s.hover THEN s ELSE b
<1>1. IconStep(s, p, click, x, got) = IF click /\ over THEN IconClick(a, x, got) ELSE a
  BY DEF IconStep, IconHover
<1>2. over \in BOOLEAN
  OBVIOUS
<1>3. Good(b, o) /\ Steady(s, b) /\ b.cur = s.cur
  <2> HIDE DEF over
  <2> QED
    BY <1>2, IconHoverRight
<1> HIDE DEF b
<1>4. Good(a, o) /\ Steady(s, a) /\ a.cur = s.cur
  BY <1>3 DEF Steady
<1> HIDE DEF a
<1>5. Good(IconClick(a, x, got), o) /\ IconClick(a, x, got).cur = a.cur
  BY <1>4, IconClickRight
<1> QED
  BY <1>1, <1>4, <1>5

\* What is true of 0, and of k when it is true of k - 1, is true up to N.
LEMMA UpTo ==
  ASSUME NEW N \in Nat, NEW T, 0 \in T,
         \A k \in 1 .. N : k - 1 \in T => k \in T
  PROVE  \A k \in 0 .. N : k \in T
<1> DEFINE Missing == {k \in 0 .. N : k \notin T}
<1>1. SUFFICES ASSUME Missing # {} PROVE FALSE
  OBVIOUS
<1>2. PICK k \in Missing : \A l \in Missing : k <= l
  <2>1. Missing \in SUBSET Nat
    OBVIOUS
  <2> HIDE DEF Missing
  <2> QED
    BY <1>1, <2>1, LeastNat
<1>3. k \in 1 .. N /\ k - 1 \in 0 .. N /\ ~(k <= k - 1)
  OBVIOUS
<1>4. k - 1 \in T
  BY <1>2, <1>3
<1> QED
  BY <1>3, <1>4

Steps(N, S) == [1 .. N -> [S -> S]]
IsRun(f, N, S, a, g) ==
  f \in [0 .. N -> S] /\ f[0] = a /\ \A k \in 1 .. N : f[k] = g[k][f[k - 1]]

\* A loop over the slots has a value after each slot.
LEMMA Iterated ==
  ASSUME NEW N \in Nat, NEW S, NEW a \in S, NEW g \in Steps(N, S)
  PROVE  \E f : IsRun(f, N, S, a, g)
<1> DEFINE Runs(f, n) == f[0] = a /\ \A k \in 1 .. n : f[k] = g[k][f[k - 1]]
           T == {n \in 0 .. N : \E f \in [0 .. n -> S] : Runs(f, n)}
<1> USE DEF Steps
<1>1. 0 \in T
  <2>1. [k \in 0 .. 0 |-> a] \in [0 .. 0 -> S] /\ Runs([k \in 0 .. 0 |-> a], 0)
    OBVIOUS
  <2>2. 0 \in 0 .. N
    OBVIOUS
  <2> QED
    BY <2>1, <2>2
<1>2. ASSUME NEW n \in 1 .. N, n - 1 \in T
      PROVE  n \in T
  <2>1. PICK f \in [0 .. n - 1 -> S] : Runs(f, n - 1)
    BY <1>2
  <2>2. n - 1 \in 0 .. n - 1 /\ g[n][f[n - 1]] \in S
    OBVIOUS
  <2> DEFINE h == [k \in 0 .. n |-> IF k = n THEN g[n][f[n - 1]] ELSE f[k]]
  <2>3. h \in [0 .. n -> S]
    BY <2>2
  <2>4. \A k \in 0 .. n - 1 : h[k] = f[k]
    OBVIOUS
  <2>5. h[n] = g[n][h[n - 1]]
    <3>1. n \in 0 .. n /\ h[n - 1] = f[n - 1]
      BY <2>2, <2>4
    <3>2. h[n] = g[n][f[n - 1]]
      BY <3>1
    <3> HIDE DEF h
    <3> QED
      BY <3>1, <3>2
  <2> HIDE DEF h
  <2>6. h[0] = a
    BY <2>1, <2>4
  <2>7. ASSUME NEW k \in 1 .. n
        PROVE  h[k] = g[k][h[k - 1]]
    <3>1. CASE k = n
      BY <2>5, <3>1
    <3>2. CASE k # n
      <4>1. k \in 1 .. n - 1 /\ k \in 0 .. n - 1 /\ k - 1 \in 0 .. n - 1
        BY <3>2
      <4> QED
        BY <2>1, <2>4, <4>1
    <3> QED
      BY <3>1, <3>2
  <2> QED
    BY <2>3, <2>6, <2>7
<1>3. N \in T
  <2> HIDE DEF T
  <2>1. \A k \in 0 .. N : k \in T
    BY <1>1, <1>2, UpTo
  <2> QED
    BY <2>1
<1>4. PICK f \in [0 .. N -> S] : Runs(f, N)
  <2> HIDE DEF Runs
  <2> QED
    BY <1>3
<1> QED
  BY <1>4 DEF IsRun

\* The loop over all windows.
LEMMA WindowStepsRight ==
  ASSUME NEW s, NEW o \in BOOLEAN, Good(s, o), NEW p \in Pointer,
         NEW click \in BOOLEAN, NEW left \in BOOLEAN, NEW files \in Seq(Kind),
         NEW got \in BOOLEAN
  PROVE  LET t == WindowSteps(s, p, click, left, files, got) IN
         Good(t, o) /\ t.cur = s.cur /\ (~click => Steady(s, t))
<1> DEFINE N == Cardinality(Slot)
           step(u, i) == WindowStep(u, i, p, click, left, files, got)
           S == {u \in Ui : Good(u, o) /\ u.cur = s.cur /\ (~click => Steady(s, u))}
           g == [k \in 1 .. N |-> [u \in S |-> step(u, k)]]
           IsLoop(f) == f = [n \in 0 .. N |-> IF n = 0 THEN s ELSE step(f[n - 1], n)]
           loop == CHOOSE f : IsLoop(f)
<1>1. N \in Nat /\ Slot = 1 .. N
  BY SlotRight
<1>2. WindowSteps(s, p, click, left, files, got) = loop[N]
  BY DEF WindowSteps
<1> HIDE DEF N
<1>3. s \in S
  BY DEF Good, Steady
<1>4. ASSUME NEW u \in S, NEW k \in 1 .. N
      PROVE  step(u, k) \in S
  <2> DEFINE t == step(u, k)
  <2>1. Good(u, o) /\ u.cur = s.cur /\ (~click => Steady(s, u)) /\ k \in Slot
    BY <1>1
  <2>2. Good(t, o) /\ t.cur = u.cur /\ (~click => Steady(u, t))
    BY <2>1, WindowStepRight
  <2> HIDE DEF t
  <2>3. t \in S
    BY <2>1, <2>2 DEF Good, Steady
  <2> QED
    BY <2>3 DEF t
<1> HIDE DEF S, step
<1>5. \E f : IsLoop(f)
  <2>1. g \in Steps(N, S)
    BY <1>4 DEF Steps
  <2>2. PICK f : IsRun(f, N, S, s, g)
    <3> HIDE DEF g
    <3> QED
      BY <1>1, <1>3, <2>1, Iterated
  <2>3. f \in [0 .. N -> S] /\ f[0] = s
    BY <2>2 DEF IsRun
  <2>4. ASSUME NEW k \in 1 .. N PROVE f[k] = step(f[k - 1], k)
    <3>1. f[k] = g[k][f[k - 1]]
      <4> HIDE DEF g
      <4> QED
        BY <2>2 DEF IsRun
    <3>2. f[k - 1] \in S
      <4>1. k - 1 \in 0 .. N
        BY <1>1
      <4> QED
        BY <2>3, <4>1
    <3> QED
      BY <3>1, <3>2
  <2>5. \A k \in 0 .. N : f[k] = IF k = 0 THEN s ELSE step(f[k - 1], k)
    <3> SUFFICES ASSUME NEW k \in 0 .. N
                 PROVE  f[k] = IF k = 0 THEN s ELSE step(f[k - 1], k)
      OBVIOUS
    <3>1. k = 0 \/ k \in 1 .. N
      BY <1>1
    <3> QED
      BY <2>3, <2>4, <3>1
  <2>6. IsLoop(f)
    BY <2>3, <2>5
  <2> QED
    BY <2>6
<1>6. IsLoop(loop)
  <2> HIDE DEF IsLoop
  <2> QED
    BY <1>5
<1> HIDE DEF loop
<1>7. \A n \in 0 .. N : loop[n] = IF n = 0 THEN s ELSE step(loop[n - 1], n)
  BY <1>6
<1> DEFINE T == {n \in 0 .. N : loop[n] \in S}
<1>8. 0 \in T
  BY <1>1, <1>3, <1>7
<1>9. \A k \in 1 .. N : k - 1 \in T => k \in T
  <2> SUFFICES ASSUME NEW k \in 1 .. N, k - 1 \in T PROVE k \in T
    OBVIOUS
  <2>1. loop[k - 1] \in S /\ k \in 0 .. N /\ k # 0
    BY <1>1
  <2>2. loop[k] = step(loop[k - 1], k)
    BY <1>7, <2>1
  <2> QED
    BY <1>4, <2>1, <2>2
<1> HIDE DEF T
<1>10. N \in T
  <2>1. \A k \in 0 .. N : k \in T
    BY <1>1, <1>8, <1>9, UpTo
  <2> QED
    BY <1>1, <2>1
<1>11. loop[N] \in S
  BY <1>10 DEF T
<1> QED
  BY <1>2, <1>11 DEF S

\* A task that ends closes its windows, one after the other.
ExitLoop(s, owner) ==
  LET mine == {i \in Slot : s.win[i].used /\ s.win[i].owner = owner}
      loop[n \in 0 .. Cardinality(Slot)] ==
        IF n = 0 THEN s
        ELSE IF n \in mine THEN WinClose(loop[n - 1], n) ELSE loop[n - 1]
  IN loop[Cardinality(Slot)]

LEMMA ExitLoopRight ==
  ASSUME NEW s, NEW o \in BOOLEAN, Good(s, o), NEW owner \in App
  PROVE  LET t == ExitLoop(s, owner) IN
         Good(t, o) /\ Steady(s, t) /\ (t.tidy => s.tidy)
<1> DEFINE N == Cardinality(Slot)
           mine == {i \in Slot : s.win[i].used /\ s.win[i].owner = owner}
           step(u, i) == IF i \in mine THEN WinClose(u, i) ELSE u
           g == [k \in 1 .. N |-> [u \in Ui |-> step(u, k)]]
           IsLoop(f) == f = [n \in 0 .. N |-> IF n = 0 THEN s
                               ELSE IF n \in mine THEN WinClose(f[n - 1], n) ELSE f[n - 1]]
           loop == CHOOSE f : IsLoop(f)
<1>1. N \in Nat /\ Slot = 1 .. N /\ s \in Ui
  BY SlotRight DEF Good
<1>2. ExitLoop(s, owner) = loop[N]
  BY DEF ExitLoop
<1> HIDE DEF N, mine
<1>4. ASSUME NEW u \in Ui, NEW k \in 1 .. N
      PROVE  step(u, k) \in Ui
  <2>1. WinClose(u, k) \in Ui
    BY <1>1, WinCloseRight DEF Closed, ButSlot
  <2> QED
    BY <2>1
<1>5. \E f : IsLoop(f)
  <2>1. g \in Steps(N, Ui)
    <3> HIDE DEF step
    <3> QED
      BY <1>4 DEF Steps
  <2>2. PICK f : IsRun(f, N, Ui, s, g)
    <3> HIDE DEF g
    <3> QED
      BY <1>1, <2>1, Iterated
  <2>3. f \in [0 .. N -> Ui] /\ f[0] = s
    BY <2>2 DEF IsRun
  <2>4. ASSUME NEW k \in 1 .. N PROVE f[k] = step(f[k - 1], k)
    <3>1. f[k] = g[k][f[k - 1]]
      <4> HIDE DEF g
      <4> QED
        BY <2>2 DEF IsRun
    <3>2. f[k - 1] \in Ui
      <4>1. k - 1 \in 0 .. N
        BY <1>1
      <4> QED
        BY <2>3, <4>1
    <3> HIDE DEF step
    <3> QED
      BY <3>1, <3>2
  <2>5. \A k \in 0 .. N : f[k] = IF k = 0 THEN s
                               ELSE IF k \in mine THEN WinClose(f[k - 1], k) ELSE f[k - 1]
    <3> SUFFICES ASSUME NEW k \in 0 .. N
                 PROVE  f[k] = IF k = 0 THEN s
                               ELSE IF k \in mine THEN WinClose(f[k - 1], k) ELSE f[k - 1]
      OBVIOUS
    <3>1. k = 0 \/ k \in 1 .. N
      BY <1>1
    <3> QED
      BY <2>3, <2>4, <3>1
  <2>6. IsLoop(f)
    BY <2>3, <2>5
  <2> QED
    BY <2>6
<1>6. IsLoop(loop)
  <2> HIDE DEF IsLoop
  <2> QED
    BY <1>5
<1> HIDE DEF loop
<1>7. \A n \in 0 .. N : loop[n] = IF n = 0 THEN s
                                  ELSE IF n \in mine THEN WinClose(loop[n - 1], n)
                                  ELSE loop[n - 1]
  BY <1>6
<1> DEFINE Right(u, n) == /\ Good(u, o) /\ Steady(s, u) /\ (u.tidy => s.tidy)
                          /\ \A j \in n + 1 .. N : u.win[j] = s.win[j]
           T == {n \in 0 .. N : Right(loop[n], n)}
<1>8. 0 \in T
  <2>1. loop[0] = s /\ 0 \in 0 .. N
    BY <1>1, <1>7
  <2>2. Right(s, 0)
    BY DEF Steady
  <2> QED
    BY <2>1, <2>2
<1>9. \A k \in 1 .. N : k - 1 \in T => k \in T
  <2> SUFFICES ASSUME NEW k \in 1 .. N, k - 1 \in T PROVE k \in T
    OBVIOUS
  <2> DEFINE u == loop[k - 1]
             t == loop[k]
  <2>1. Right(u, k - 1) /\ k \in 0 .. N /\ k # 0 /\ k \in Slot
    BY <1>1
  <2>2. t = IF k \in mine THEN WinClose(u, k) ELSE u
    BY <1>7, <2>1
  <2> HIDE DEF u, t
  <2>3. CASE k \in mine
    <3>1. k \in (k - 1) + 1 .. N
      BY <1>1
    <3>2. u.win[k] = s.win[k]
      BY <2>1, <3>1
    <3>3. u.win[k].used /\ u.win[k].owner # Kernel
      <4>1. owner # Kernel
        BY SlotRight
      <4> QED
        BY <2>3, <3>2, <4>1 DEF mine
    <3>4. Good(t, o) /\ Closed(u, t, k)
      BY <2>1, <2>2, <2>3, <3>3, ExitOneRight
    <3>5. Steady(u, t) /\ (t.tidy => u.tidy) /\ \A j \in Slot \ {k} : t.win[j] = u.win[j]
      BY <3>4 DEF Closed, ButSlot, Steady
    <3>6. ASSUME NEW j \in k + 1 .. N PROVE t.win[j] = s.win[j]
      <4>1. j \in (k - 1) + 1 .. N /\ j \in Slot \ {k}
        BY <1>1
      <4> QED
        BY <2>1, <3>5, <4>1
    <3>7. Right(t, k)
      BY <2>1, <3>4, <3>5, <3>6 DEF Steady
    <3> HIDE DEF Right
    <3> QED
      BY <2>1, <3>7 DEF t
  <2>4. CASE k \notin mine
    <3>1. t = u
      BY <2>2, <2>4
    <3>2. \A j \in k + 1 .. N : j \in (k - 1) + 1 .. N
      BY <1>1
    <3>3. Right(t, k)
      BY <2>1, <3>1, <3>2
    <3> HIDE DEF Right
    <3> QED
      BY <2>1, <3>3 DEF t
  <2> QED
    BY <2>3, <2>4
<1> HIDE DEF T
<1>10. N \in T
  <2>1. \A k \in 0 .. N : k \in T
    BY <1>1, <1>8, <1>9, UpTo
  <2> QED
    BY <1>1, <2>1
<1>11. Right(loop[N], N)
  <2> HIDE DEF Right
  <2> QED
    BY <1>10 DEF T
<1> QED
  BY <1>2, <1>11

-----------------------------------------------------------------------------
(* The invariant of the system                                             *)

LEMMA SettledRight ==
  ASSUME NEW s, NEW o \in BOOLEAN, Good(s, o)
  PROVE  LET t == Settled(s) IN
         Good(t, o) /\ Steady(s, t) /\ t.tidy = s.tidy
<1>1. s \in Ui /\ BufInv(s) /\ s.menu \in Menu /\ s.win \in [Slot -> Win]
  BY UiFields DEF Good
<1>2. CASE s.tidy
  BY <1>2 DEF Settled, Steady
<1>3. CASE ~s.tidy
  <2> DEFINE r == Wallpaper(FALSE)
             m == [s.menu EXCEPT !.saved = <<None>>]
             c == [at |-> Button, saved |-> None]
             W == [i \in Slot |-> Unknown(s.win[i])]
             t == [s EXCEPT !.scr = r, !.stack = <<>>, !.menu = m, !.clean = TRUE,
                            !.hover = FALSE, !.cur = c, !.win = W]
  <2>1. Settled(s) = t
    <3>1. Settled(s) = [s EXCEPT !.scr = r, !.stack = <<>>, !.menu.saved = <<None>>,
                                 !.clean = TRUE, !.hover = FALSE, !.cur = c, !.win = W]
      BY <1>3 DEF Settled
    <3> HIDE DEF r, c, W
    <3> QED
      BY <1>1, <3>1 DEF Ui
  <2>2. r \in [Cell -> Val] /\ <<None>> \in Sav /\ <<None>> # None /\ None \in Sav
    BY ValRight, SavRight
  <2>3. m \in Menu /\ m.open = s.menu.open /\ m.saved # None
    BY <1>1, <2>2 DEF Menu
  <2>4. c \in Cur
    BY <2>2 DEF Cur, Pointer
  <2>5. /\ W \in [Slot -> Win]
        /\ \A i \in Slot : /\ W[i].used = s.win[i].used /\ W[i].owner = s.win[i].owner
                           /\ W[i].saved = None <=> s.win[i].saved = None
    <3> SUFFICES ASSUME NEW i \in Slot
                 PROVE  /\ W[i] \in Win
                        /\ W[i].used = s.win[i].used /\ W[i].owner = s.win[i].owner
                        /\ W[i].saved = None <=> s.win[i].saved = None
      OBVIOUS
    <3> DEFINE v == IF s.win[i].saved = None THEN None ELSE <<None>>
    <3>1. s.win[i] \in Win
      BY <1>1
    <3>2. W[i] = [s.win[i] EXCEPT !.saved = v]
      BY DEF Unknown
    <3>3. v \in Sav /\ (v = None <=> s.win[i].saved = None)
      BY <2>2
    <3> HIDE DEF v, W
    <3> QED
      BY <3>1, <3>2, <3>3 DEF Win
  <2> HIDE DEF r, m, c, W
  <2>6. <<>> \in Seq(Item)
    OBVIOUS
  <2>7. /\ t \in Ui /\ t.tidy = s.tidy /\ t.menu = m /\ t.fx = s.fx /\ t.bufs = s.bufs
        /\ t.win = W
    BY <1>1, <2>2, <2>3, <2>4, <2>5, <2>6 DEF Ui
  <2> HIDE DEF t
  <2>8. BufInv(t)
    <3>1. Buffers(t) = Buffers(s)
      BY <2>5, <2>7 DEF Buffers
    <3> QED
      BY <1>1, <2>5, <2>7, <3>1 DEF BufInv
  <2>9. o => FxInv(t)
    BY <2>5, <2>7, FxSame DEF Good
  <2>10. Good(t, o)
    BY <1>3, <2>3, <2>7, <2>8, <2>9 DEF Good
  <2> QED
    BY <2>1, <2>3, <2>7, <2>10 DEF Steady
<1> QED
  BY <1>2, <1>3

IInv ==
  /\ own \in BOOLEAN /\ prev \in BOOLEAN /\ held = prev
  /\ Good(ui, own)

\* What a step does to the Menu, My Computer's number and the power while the
\* button is held.
Once ==
  held => ui'.menu.open = ui.menu.open /\ ui'.fx = ui.fx /\ power' = power

LEMMA InitRight == Init => IInv
<1> SUFFICES ASSUME Init PROVE IInv
  OBVIOUS
<1> DEFINE W == [i \in Slot |-> Free]
           m == [open |-> FALSE, hover |-> -1, saved |-> None]
           f == [dir |-> DrivesView, list |-> <<>>]
           c == [at |-> Button, saved |-> None]
<1>1. /\ W \in [Slot -> Win] /\ m \in Menu /\ f \in Fm /\ c \in Cur
  <2>1. -1 \in Int /\ None \in Sav /\ <<>> \in Seq(Kind)
    BY SavRight
  <2>2. W \in [Slot -> Win]
    BY FreeRight
  <2>3. m \in Menu
    BY <2>1 DEF Menu
  <2>4. f \in Fm
    BY <2>1 DEF Fm, DrivesView
  <2>5. c \in Cur
    BY <2>1 DEF Cur, Pointer
  <2> QED
    BY <2>2, <2>3, <2>4, <2>5
<1>2. PICK clean \in BOOLEAN :
      ui = [scr |-> Wallpaper(FALSE), win |-> W, menu |-> m, hover |-> FALSE,
            clean |-> clean, fx |-> NoWindow, fm |-> f, cur |-> c, bufs |-> 0,
            stack |-> <<>>, tidy |-> TRUE]
  BY DEF Init
<1> HIDE DEF m, f, c, W
<1>3. ui \in Ui
  <2>1. <<>> \in Seq(Item) /\ NoWindow \in Int /\ 0 \in Int
        /\ Wallpaper(FALSE) \in [Cell -> Val]
    <3>1. <<>> \in Seq(Item) /\ NoWindow \in Int /\ 0 \in Int
      BY DEF NoWindow
    <3>2. FALSE \in BOOLEAN
      OBVIOUS
    <3>3. Wallpaper(FALSE) \in [Cell -> Val]
      BY ValRight, <3>2
    <3> QED
      BY <3>1, <3>3
  <2> QED
    BY <1>1, <1>2, <2>1 DEF Ui
<1>4. \A i \in Slot : ~ui.win[i].used /\ ui.win[i].saved = None
  BY <1>2 DEF W, Free
<1>5. BufInv(ui)
  <2>1. Buffers(ui) = {}
    BY <1>4 DEF Buffers
  <2> QED
    BY <1>2, <1>4, <2>1, FS_EmptySet DEF BufInv
<1>6. FxInv(ui)
  BY <1>2, <1>4, SlotRight DEF FxInv
<1>7. Sound(ui, Laid(ui))
  <2>1. Laid(ui) = {}
    BY <1>2, <1>4 DEF Laid, m, c
  <2>2. ui.stack = <<>> /\ Len(ui.stack) = 0 /\ ui.scr = Wallpaper(ui.hover)
    BY <1>2
  <2>3. Layered(ui.stack, CellsOf(ui), Looks(ui), Wallpaper(ui.hover), Behind(ui), ui.scr)
    BY <2>2 DEF Layered, Sees, Clear
  <2> QED
    BY <2>1, <2>2, <2>3 DEF Sound
<1>8. ~ui.menu.open /\ ui.tidy
  BY <1>2 DEF m
<1>9. own = TRUE /\ prev = FALSE /\ held = FALSE
  BY DEF Init
<1> QED
  BY <1>3, <1>5, <1>6, <1>7, <1>8, <1>9 DEF IInv, Good

LEMMA ChoicesRight ==
  ASSUME NEW p \in Pointer, NEW left \in BOOLEAN
  PROVE  /\ Items(p) \subseteq Int /\ Where(p, left) \subseteq Int
         /\ Got(p, left) \subseteq BOOLEAN /\ Files(p, left) \subseteq Seq(Kind)
<1>1. Items(p) \subseteq Int
  BY DEF Items
<1>2. Where(p, left) \subseteq Int
  BY SlotRight DEF Where
<1>3. Got(p, left) \subseteq BOOLEAN
  BY DEF Got
<1>4. <<"dir">> \in Seq(Kind) /\ <<>> \in Seq(Kind)
  <2>1. "dir" \in Kind
    BY DEF Kind
  <2> QED
    BY <2>1
<1> QED
  BY <1>1, <1>2, <1>3, <1>4 DEF Files

LEMMA TickRight ==
  ASSUME IInv, NEW p \in Pointer, NEW left \in BOOLEAN, NEW h \in Int, NEW x \in Int,
         NEW files \in Seq(Kind), NEW got \in BOOLEAN, Tick(p, left, h, x, files, got)
  PROVE  IInv' /\ Once
<1> DEFINE click == left /\ ~prev
           a == CursorOff(ui)
           m == MenuStep(a, p, h, click)
           i == IconStep(m, p, click, x, got)
           w == WindowSteps(i, p, click, left, files, got)
           s == IF click /\ p = Button THEN MenuToggle(a, got) ELSE w
           t == CursorOn(s, p)
           off == ui.menu.open /\ click /\ h # -1
<1>1. /\ own' = own /\ held' = left /\ prev' = left
      /\ \/ off /\ ui' = m
         \/ ~off /\ ui' = Settled(t) /\ power' = power
  BY DEF Tick, Remembers
<1>2. click \in BOOLEAN /\ own \in BOOLEAN /\ (held => ~click)
  BY DEF IInv
<1>3. off => click
  OBVIOUS
<1> HIDE DEF click, off
<1>4. Good(a, own) /\ Steady(ui, a) /\ a.cur.saved = None
  BY <1>2, CursorOffRight DEF IInv
<1> HIDE DEF a
<1>5. Good(m, own) /\ m.cur = a.cur /\ (~click => Steady(a, m))
  BY <1>2, <1>4, MenuStepRight DEF Steady
<1> HIDE DEF m
<1>6. Good(i, own) /\ i.cur = m.cur /\ (~click => Steady(m, i))
  BY <1>2, <1>5, IconStepRight
<1> HIDE DEF i
<1>7. Good(w, own) /\ w.cur = i.cur /\ (~click => Steady(i, w))
  BY <1>2, <1>6, WindowStepsRight
<1> HIDE DEF w
<1>8. Good(s, own) /\ s.cur = a.cur /\ (~click => Steady(ui, s))
  <2>1. Good(MenuToggle(a, got), own) /\ MenuToggle(a, got).cur = a.cur
    BY <1>2, <1>4, MenuToggleRight
  <2> QED
    BY <1>4, <1>5, <1>6, <1>7, <2>1 DEF Steady
<1> HIDE DEF s
<1>9. Good(t, own) /\ Steady(s, t)
  BY <1>2, <1>4, <1>8, CursorOnRight
<1> HIDE DEF t
<1>10. Good(Settled(t), own) /\ Steady(t, Settled(t))
  BY <1>2, <1>9, SettledRight
<1>11. Good(ui', own)
  BY <1>1, <1>5, <1>10
<1> QED
  BY <1>1, <1>2, <1>3, <1>8, <1>9, <1>10, <1>11 DEF IInv, Once, Steady

LEMMA CreateStep ==
  ASSUME IInv, NEW owner \in App, NEW x \in Int, NEW wd \in Int, NEW got \in BOOLEAN,
         Create(owner, x, wd, got)
  PROVE  IInv' /\ Once
<1> DEFINE t == WinCreate(ui, owner, x, wd, got)
<1>1. /\ FreeSlots(ui) # {} /\ ui' = Settled(t)
      /\ UNCHANGED <<prev, power, held, own>>
  BY DEF Create
<1>2. Good(t, own) /\ own \in BOOLEAN
  BY <1>1, CreateRight DEF IInv
<1>3. Steady(ui, t)
  <2>1. owner \in Int /\ ui \in Ui /\ BufInv(ui)
    BY SlotRight DEF IInv, Good
  <2>2. Created(ui, t, Lowest(FreeSlots(ui)), owner, x, wd, got)
    BY <1>1, <2>1, WinCreateRight
  <2> QED
    BY <2>2 DEF Created, ButSlot, Steady
<1> HIDE DEF t
<1>4. Good(Settled(t), own) /\ Steady(t, Settled(t))
  BY <1>2, SettledRight
<1> QED
  BY <1>1, <1>3, <1>4 DEF IInv, Once, Steady

LEMMA CloseStep ==
  ASSUME IInv, NEW owner \in App, NEW i \in Slot, Close(owner, i)
  PROVE  IInv' /\ Once
<1> DEFINE v == WinClose(ui, i)
           t == [v EXCEPT !.tidy = @ /\ ui.win[i].owner = owner]
           q == own /\ ui.win[i].owner = owner
<1>1. /\ ui.win[i].used /\ ui' = Settled(t) /\ own' = q
      /\ UNCHANGED <<prev, power, held>>
  BY DEF Close
<1>2. Good(ui, own) /\ own \in BOOLEAN
  BY DEF IInv
<1>3. Good(t, q)
  BY <1>1, <1>2, CloseRight
<1>4. Steady(ui, t)
  <2>1. Closed(ui, v, i)
    BY <1>2, WinCloseRight DEF Good
  <2> HIDE DEF v
  <2>2. v \in Ui /\ v.menu = ui.menu /\ v.fx = ui.fx
    BY <2>1 DEF Closed, ButSlot
  <2> QED
    BY <2>2 DEF Steady, Ui
<1>5. q \in BOOLEAN
  BY <1>2
<1> HIDE DEF t, q
<1>6. Good(Settled(t), q) /\ Steady(t, Settled(t))
  BY <1>3, <1>5, SettledRight
<1> QED
  BY <1>1, <1>4, <1>5, <1>6 DEF IInv, Once, Steady

LEMMA MoveStep ==
  ASSUME IInv, NEW i \in Slot, NEW x \in Int, NEW got \in BOOLEAN, Move(i, x, got)
  PROVE  IInv' /\ Once
<1> DEFINE t == WinMove(ui, i, x, got)
<1>1. /\ ui.win[i].used /\ ui' = Settled(t) /\ UNCHANGED <<prev, power, held, own>>
  BY DEF Move
<1>2. Good(ui, own) /\ own \in BOOLEAN
  BY DEF IInv
<1>3. Good(t, own) /\ Steady(ui, t)
  BY <1>1, <1>2, MoveRight
<1> HIDE DEF t
<1>4. Good(Settled(t), own) /\ Steady(t, Settled(t))
  BY <1>2, <1>3, SettledRight
<1> QED
  BY <1>1, <1>3, <1>4 DEF IInv, Once, Steady

LEMMA ExitStep ==
  ASSUME IInv, NEW owner \in App, Exit(owner)
  PROVE  IInv' /\ Once
<1> DEFINE t == ExitLoop(ui, owner)
<1>1. ui' = Settled(t) /\ UNCHANGED <<prev, power, held, own>>
  BY DEF Exit, ExitLoop, Owned
<1>2. Good(ui, own) /\ own \in BOOLEAN
  BY DEF IInv
<1>3. Good(t, own) /\ Steady(ui, t)
  BY <1>2, ExitLoopRight
<1> HIDE DEF t
<1>4. Good(Settled(t), own) /\ Steady(t, Settled(t))
  BY <1>2, <1>3, SettledRight
<1> QED
  BY <1>1, <1>3, <1>4 DEF IInv, Once, Steady

LEMMA NextRight ==
  ASSUME IInv, [Next]_vars
  PROVE  IInv' /\ (Once \/ UNCHANGED vars)
<1>1. CASE UNCHANGED vars
  BY <1>1 DEF vars, IInv
<1>2. ASSUME NEW p \in Pointer, NEW left \in BOOLEAN, NEW h \in Items(p),
             NEW x \in Where(p, left), NEW got \in Got(p, left),
             NEW files \in Files(p, left), Tick(p, left, h, x, files, got)
      PROVE  IInv' /\ Once
  <2>1. h \in Int /\ x \in Int /\ got \in BOOLEAN /\ files \in Seq(Kind)
    BY ChoicesRight
  <2> QED
    BY <1>2, <2>1, TickRight
<1>3. ASSUME NEW a \in App, NEW w \in Widths, NEW got \in BOOLEAN,
             NEW x \in Places(w), Create(a, x, w, got)
      PROVE  IInv' /\ Once
  <2>1. w \in Int
    BY SlotRight
  <2>2. x \in Int
    BY <2>1, SlotRight DEF Places
  <2> QED
    BY <1>3, <2>1, <2>2, CreateStep
<1>4. ASSUME NEW a \in App, NEW i \in Slot, Close(a, i)
      PROVE  IInv' /\ Once
  BY <1>4, CloseStep
<1>5. ASSUME NEW i \in Slot, NEW x \in -1 .. Cols - WinW, NEW got \in BOOLEAN, Move(i, x, got)
      PROVE  IInv' /\ Once
  <2>1. x \in Int
    OBVIOUS
  <2> QED
    BY <1>5, <2>1, MoveStep
<1>6. ASSUME NEW a \in App, Exit(a)
      PROVE  IInv' /\ Once
  BY <1>6, ExitStep
<1> QED
  BY <1>1, <1>2, <1>3, <1>4, <1>5, <1>6 DEF Next

\* The invariant: whatever is used or saved is counted, the kernel's window is
\* My Computer's, and while the history is tidy the screen and every saved
\* background are what the layers below them look like.
THEOREM Invariance == Spec => []IInv
<1>1. Init => IInv
  BY InitRight
<1>2. IInv /\ [Next]_vars => IInv'
  BY NextRight
<1> QED
  BY <1>1, <1>2, PTL DEF Spec

\* What the layers show is what Shown computes.
LEMMA ShownRight ==
  ASSUME ui \in Ui, NEW J, Sound(ui, J), NEW c \in Cell
  PROVE  ui.scr[c] = Shown(c)
<1> DEFINE st == ui.stack
           n == Len(st)
           C == CellsOf(ui)
           F == Looks(ui)
           T == {k \in DOMAIN st : c \in Cells(ui, st[k])}
           m == CHOOSE k \in T : \A l \in T : l <= k
           i == st[m]
<1>1. /\ st \in Seq(Item) /\ n \in Nat /\ \A k \in 1 .. n : st[k] \in Item
  BY StackItems
<1>2. Sees(st, C, F, Wallpaper(ui.hover), n + 1, c, ui.scr[c])
  BY DEF Sound, Layered
<1>3. \A k \in 1 .. n : C[st[k]] = Cells(ui, st[k]) /\ F[st[k]] = Look(ui, st[k])
  <2> SUFFICES ASSUME NEW k \in 1 .. n
               PROVE  C[st[k]] = Cells(ui, st[k]) /\ F[st[k]] = Look(ui, st[k])
    OBVIOUS
  <2>1. st[k] \in Item
    BY <1>1
  <2> HIDE DEF st
  <2> QED
    BY <2>1, Entries
<1>4. Shown(c) = IF T = {} THEN Wallpaper(ui.hover)[c] ELSE Look(ui, i)
  BY DEF Shown, Look
<1>5. DOMAIN st = 1 .. n
  BY <1>1
<1> HIDE DEF st, n, C, F, m
<1>6. CASE ui.scr[c] = Wallpaper(ui.hover)[c] /\ Clear(st, C, 1, (n + 1) - 1, c)
  <2>1. (n + 1) - 1 = n
    BY <1>1
  <2>2. T = {}
    BY <1>3, <1>5, <1>6, <2>1 DEF Clear
  <2> QED
    BY <1>4, <1>6, <2>2
<1>7. ASSUME NEW k \in 1 .. (n + 1) - 1, c \in C[st[k]], ui.scr[c] = F[st[k]],
             Clear(st, C, k + 1, (n + 1) - 1, c)
      PROVE  ui.scr[c] = Shown(c)
  <2>1. (n + 1) - 1 = n /\ k \in 1 .. n
    BY <1>1
  <2>2. k \in T
    BY <1>3, <1>5, <1>7, <2>1
  <2>3. \A l \in T : l <= k
    <3> SUFFICES ASSUME NEW l \in T, ~(l <= k) PROVE FALSE
      OBVIOUS
    <3>1. l \in 1 .. n /\ l \in k + 1 .. n /\ c \in Cells(ui, st[l])
      BY <1>1, <1>5, <2>1
    <3> QED
      BY <1>3, <1>7, <2>1, <3>1 DEF Clear
  <2>4. m = k
    <3>1. T \in SUBSET Int
      BY <1>1, <1>5
    <3> HIDE DEF T
    <3>2. m \in T /\ \A l \in T : l <= m
      BY <2>2, <2>3 DEF m
    <3> QED
      BY <2>2, <2>3, <3>1, <3>2
  <2> QED
    BY <1>3, <1>4, <1>7, <2>1, <2>2, <2>4
<1> DEFINE v == ui.scr[c]
           W == Wallpaper(ui.hover)
<1>8. \/ v = W[c] /\ Clear(st, C, 1, (n + 1) - 1, c)
      \/ \E k \in 1 .. (n + 1) - 1 :
           c \in C[st[k]] /\ v = F[st[k]] /\ Clear(st, C, k + 1, (n + 1) - 1, c)
  <2> HIDE DEF v, W
  <2>1. Sees(st, C, F, W, n + 1, c, v)
    BY <1>2 DEF v, W
  <2> QED
    BY <2>1 DEF Sees
<1> QED
  BY <1>6, <1>7, <1>8

\* The screen is the composition of the windows, the popup, the icon and the
\* cursor in the order they were painted; until something covered is taken away or
\* painted anew, a task closes a window of somebody else, or something is painted
\* whose background is not saved: a window wider than the screen or beyond its
\* edge, a window, popup or icon without a buffer.
THEOREM ComposedHolds == Spec => []Composed
<1>1. IInv => Composed
  <2> SUFFICES ASSUME IInv, ui.tidy PROVE \A c \in Cell : ui.scr[c] = Shown(c)
    BY DEF Composed
  <2>1. ui \in Ui /\ Sound(ui, Laid(ui))
    BY DEF IInv, Good
  <2> QED
    BY <2>1, ShownRight
<1> QED
  BY <1>1, Invariance, PTL

\* As long as tasks close their own windows, My Computer's number is that of an
\* open window of the kernel or of none; and the buffers below the windows are
\* counted whatever anybody does.
THEOREM OwnNumberHolds == Spec => []OwnNumber
<1>1. IInv => OwnNumber
  BY DEF IInv, Good, FxInv, BufInv, Buffers, OwnNumber
<1> QED
  BY <1>1, Invariance, PTL

\* While the button is held, neither the Menu nor My Computer nor the power
\* changes, whatever the pointer, the tasks and the disk do.
THEOREM PressedOnceHolds == Spec => PressedOnce
<1>1. IInv /\ [Next]_vars =>
        [held => /\ ui'.menu.open = ui.menu.open /\ ui'.fx = ui.fx
                 /\ power' = power]_vars
  BY NextRight DEF Once
<1> QED
  BY <1>1, Invariance, PTL DEF Spec, PressedOnce

=============================================================================
