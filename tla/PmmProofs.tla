------------------------------ MODULE PmmProofs ------------------------------
(***************************************************************************)
(* For every memory map and every request DMA buffers lie where they were  *)
(* asked for, whatever interrupts cut and callers write on the bitmap.     *)
(* As long as neither happens, no frame has two owners, none is lost and   *)
(* free_frames counts them.                                                *)
(***************************************************************************)
EXTENDS Pmm, FiniteSetTheorems, WellFoundedInduction, TLAPS

Block == [base : Nat, n : Nat \ {0}, min : Nat]
Request == [n : Nat \ {0}, align : Nat \ {0}, min : Nat]

Point == {"idle", "scan", "test", "set", "store", "sub", "sub2",
          "clr", "clr2", "inc", "inc2"}

TypeInv ==
  /\ clear \subseteq Nat
  /\ held \in [Context -> SUBSET Block]
  /\ pc \in [Context -> Point]
  /\ req \in [Context -> Request]
  /\ idx \in [Context -> Nat] /\ i \in [Context -> Nat]
  /\ word \in [Context -> SUBSET Frames]
  /\ cuts \in Nat /\ fills \in Nat

-----------------------------------------------------------------------------
(* The naturals are well ordered: a non-empty set of them has a least one.  *)

LEMMA LeastNat ==
  ASSUME NEW S \in SUBSET Nat, S # {}
  PROVE  \E m \in S : \A n \in S : m <= n
<1> DEFINE R == {p \in Nat \X Nat : p[1] < p[2]}
<1>1. IsWellFoundedOn(R, Nat)
  BY NatLessThanWellFounded, Zenon DEF OpToRel
<1>2. PICK m \in S : \A n \in S : <<n, m>> \notin R
  <2> HIDE DEF R
  <2> QED
    BY <1>1, WFMin
<1>3. \A n \in S : m <= n
  <2> SUFFICES ASSUME NEW n \in S, n < m PROVE FALSE
    OBVIOUS
  <2>1. <<n, m>> \in Nat \X Nat /\ <<n, m>>[1] < <<n, m>>[2]
    OBVIOUS
  <2>2. <<n, m>> \in R
    BY <2>1
  <2> QED
    BY <1>2, <2>2
<1> QED
  BY <1>3

\* A non-empty finite sequence of naturals has a greatest element.
LEMMA GreatestOf ==
  ASSUME NEW n \in Nat \ {0}, NEW f, \A k \in 1 .. n : f[k] \in Nat
  PROVE  \E m \in 1 .. n : \A j \in 1 .. n : f[j] <= f[m]
<1> DEFINE Has(k) == \E m \in 1 .. k : \A j \in 1 .. k : f[j] <= f[m]
           Without == {k \in Nat : k \in 1 .. n /\ ~Has(k)}
<1>1. SUFFICES ASSUME Without # {} PROVE FALSE
  <2>1. n \in 1 .. n
    OBVIOUS
  <2> QED
    BY <1>1, <2>1
<1>2. PICK k \in Without : \A l \in Without : k <= l
  BY <1>1, LeastNat
<1>3. k \in 1 .. n /\ ~Has(k)
  OBVIOUS
<1>4. k # 1
  <2>1. Has(1)
    BY <1>3
  <2> QED
    BY <1>3, <2>1
<1>5. k - 1 \in 1 .. n /\ k - 1 \notin Without
  <2>1. k - 1 \in 1 .. n /\ ~(k <= k - 1)
    BY <1>3, <1>4
  <2> HIDE DEF Without
  <2> QED
    BY <1>2, <2>1
<1>6. Has(k - 1)
  BY <1>5
<1>7. PICK m \in 1 .. k - 1 : \A j \in 1 .. k - 1 : f[j] <= f[m]
  BY <1>6
<1> HIDE DEF Has, Without
<1>8. /\ m \in 1 .. n /\ f[m] \in Nat /\ f[k] \in Nat
      /\ \A j \in 1 .. k : j = k \/ j \in 1 .. k - 1
  BY <1>3
<1>9. CASE f[k] <= f[m]
  <2>1. \A j \in 1 .. k : f[j] <= f[m]
    BY <1>7, <1>8, <1>9
  <2> QED
    BY <1>3, <1>7, <2>1 DEF Has
<1>10. CASE f[m] <= f[k]
  <2>1. \A j \in 1 .. k : f[j] <= f[k]
    <3>1. \A j \in 1 .. k - 1 : f[j] \in Nat
      BY <1>3
    <3> QED
      BY <1>7, <1>8, <1>10, <3>1
  <2> QED
    BY <1>3, <2>1 DEF Has
<1> QED
  BY <1>8, <1>9, <1>10

-----------------------------------------------------------------------------
(* The memory map                                                          *)

LEMMA DescTypes ==
  /\ Index = 1 .. Len(Descs) /\ Len(Descs) \in Nat \ {0}
  /\ \A k \in Index : Descs[k].start \in Nat /\ Descs[k].pages \in Nat
  <1>1. Descs \in Seq([start : Nat, pages : Nat, usable : BOOLEAN]) /\ Descs # <<>>
    BY MapAssumption
  <1>2. Len(Descs) \in Nat /\ DOMAIN Descs = 1 .. Len(Descs)
    BY <1>1
  <1>3. Len(Descs) # 0
    BY <1>1, <1>2
  <1> DEFINE R == [start : Nat, pages : Nat, usable : BOOLEAN]
  <1>4. \A k \in 1 .. Len(Descs) : Descs[k] \in R
    <2>1. Descs \in Seq(R)
      BY <1>1
    <2> HIDE DEF R
    <2> QED BY <2>1
  <1> QED BY <1>2, <1>3, <1>4 DEF Index

LEMMA TotalRight == Total \in Nat /\ \A k \in Index : End(Descs[k]) <= Total
  <1> DEFINE f == [k \in Index |-> End(Descs[k])]
             S == {End(Descs[k]) : k \in Index}
  <1>1. \A k \in 1 .. Len(Descs) : f[k] \in Nat
    BY DescTypes DEF End
  <1>2. PICK m \in 1 .. Len(Descs) : \A j \in 1 .. Len(Descs) : f[j] <= f[m]
    <2> HIDE DEF f
    <2> QED BY <1>1, DescTypes, GreatestOf
  <1>3. f[m] \in S /\ \A y \in S : f[m] >= y
    BY <1>1, <1>2, DescTypes
  <1>4. S \subseteq Nat
    BY DescTypes DEF End
  <1> HIDE DEF f, S
  <1>5. Max(S) \in S /\ \A y \in S : Max(S) >= y
    BY <1>3 DEF Max
  <1>6. Total = Max(S)
    BY DEF Total, S
  <1> QED BY <1>4, <1>5, <1>6 DEF S

LEMMA FramesNat == Frames \subseteq Nat
  BY TotalRight DEF Frames

LEMMA MapRight == Usable \subseteq Frames /\ Bitmap \subseteq Usable /\ BitmapPages \in Int
  <1>1. Usable \subseteq Frames
    <2> SUFFICES ASSUME NEW k \in Index, NEW f \in Span(Descs[k]) PROVE f \in Frames
      BY DEF Usable
    <2> QED BY DescTypes, TotalRight DEF Span, End, Frames
  <1>2. BitmapPages \in Int
    BY TotalRight, ParameterAssumption DEF BitmapPages
  <1>3. Bitmap \subseteq Usable
    <2> DEFINE Large == {k \in Index : Descs[k].usable /\ Descs[k].pages >= BitmapPages}
    <2>1. Large # {} /\ Large \in SUBSET Nat
      BY BitmapAssumption, DescTypes
    <2>2. \E k \in Large : \A l \in Large : k <= l
      <3> HIDE DEF Large
      <3> QED BY <2>1, LeastNat
    <2>3. Min(Large) \in Large
      <3> HIDE DEF Large
      <3> QED BY <2>2 DEF Min
    <2>4. BitmapDesc \in Large
      BY <2>3 DEF BitmapDesc
    <2>5. Bitmap \subseteq Span(Descs[BitmapDesc])
      BY <1>2, <2>4, DescTypes DEF Bitmap, BitmapStart, Span, End
    <2> QED BY <2>4, <2>5 DEF Usable
  <1> QED BY <1>1, <1>2, <1>3

-----------------------------------------------------------------------------
(* Types and positions                                                     *)

\* A loop over the frames of a block is at one of them.
PosInv == \A x \in Context :
  /\ pc[x] \in {"test", "set", "store", "clr", "clr2", "inc", "inc2"} => i[x] < req[x].n
  /\ pc[x] = "idle" => i[x] = 0

LEMMA AlignUpRight ==
  ASSUME NEW f \in Nat, NEW a \in Nat \ {0}
  PROVE  AlignUp(f, a) \in Nat /\ f <= AlignUp(f, a)
  <1> DEFINE m == f + a - 1
  <1>1. m \in Nat /\ m \div a \in Nat /\ m % a \in 0 .. a - 1 /\ m = a * (m \div a) + (m % a)
    OBVIOUS
  <1>2. AlignUp(f, a) = a * (m \div a)
    <2>1. (m \div a) * a = a * (m \div a)
      BY <1>1
    <2> QED BY <2>1 DEF AlignUp
  <1>3. a * (m \div a) = m - (m % a)
    BY <1>1
  <1>4. m - (m % a) \in Nat /\ f <= m - (m % a)
    BY <1>1
  <1> QED BY <1>2, <1>3, <1>4

\* The candidate does not lie below where the search is.
LEMMA AlignedRight ==
  ASSUME TypeInv, NEW x \in Context, Found(x)
  PROVE  Aligned(x) \in Nat /\ idx[x] <= Aligned(x)
  <1>1. Candidates(x) \in SUBSET Nat /\ Candidates(x) # {}
    BY DEF TypeInv, Candidates, Found
  <1>2. \E m \in Candidates(x) : \A n \in Candidates(x) : m <= n
    BY <1>1, LeastNat
  <1>3. Min(Candidates(x)) \in Candidates(x)
    BY <1>2 DEF Min
  <1>4. Min(Candidates(x)) \in Nat /\ idx[x] <= Min(Candidates(x))
    BY <1>1, <1>3 DEF Candidates
  <1>5. req[x].align \in Nat \ {0} /\ idx[x] \in Nat
    BY DEF TypeInv, Request
  <1>6. /\ AlignUp(Min(Candidates(x)), req[x].align) \in Nat
        /\ Min(Candidates(x)) <= AlignUp(Min(Candidates(x)), req[x].align)
    BY <1>4, <1>5, AlignUpRight
  <1> QED BY <1>4, <1>5, <1>6 DEF Aligned

LEMMA InitType == Init => TypeInv /\ PosInv
  <1> SUFFICES ASSUME Init PROVE TypeInv /\ PosInv
    OBVIOUS
  <1>1. clear \subseteq Nat
    BY MapRight, FramesNat DEF Init, Released
  <1>2. NoRequest \in Request
    BY DEF NoRequest, Request
  <1> QED BY <1>1, <1>2 DEF Init, TypeInv, PosInv, Point

\* A call enters: when it cuts no other, none is in progress.
LEMMA EnterRight ==
  ASSUME TypeInv, NEW x \in Context, NEW p, Enter(x, p)
  PROVE  /\ pc[x] = "idle" /\ cuts' \in Nat /\ pc' = [pc EXCEPT ![x] = p]
         /\ cuts' = 0 => cuts = 0 /\ \A y \in Context \ {x} : pc[y] = "idle"
  BY DEF Enter, At, Goto, TypeInv

\* What a step does to the locals of the context that takes it; those of the
\* other are left alone.
Others(x) == \A y \in Context \ {x} :
  /\ pc'[y] = pc[y] /\ req'[y] = req[y] /\ idx'[y] = idx[y] /\ i'[y] = i[y]
  /\ word'[y] = word[y]

LocalTypes ==
  /\ pc \in [Context -> Point] /\ req \in [Context -> Request]
  /\ idx \in [Context -> Nat] /\ i \in [Context -> Nat]
  /\ word \in [Context -> SUBSET Frames]

LEMMA ReturnRight ==
  ASSUME TypeInv, NEW x \in Context, Return(x)
  PROVE  LocalTypes' /\ Others(x) /\ pc'[x] = "idle" /\ i'[x] = 0 /\ word'[x] = {}
  <1>1. NoRequest \in Request
    BY DEF NoRequest, Request
  <1> QED BY <1>1 DEF Return, Goto, TypeInv, LocalTypes, Others, Point

LEMMA AllocRight ==
  ASSUME TypeInv, PosInv, NEW x \in Context, NEW r \in Ask[x], Alloc(x, r)
  PROVE  /\ LocalTypes' /\ Others(x) /\ UNCHANGED <<clear, held, fills>>
         /\ pc'[x] = "scan" /\ idx'[x] = req'[x].min /\ word' = word /\ Enter(x, "scan")
  <1>1. r \in Request
    BY ParameterAssumption DEF Request, Context
  <1> QED BY <1>1 DEF Alloc, Enter, Goto, At, TypeInv, LocalTypes, Others, Point, Request

LEMMA ScanRight ==
  ASSUME TypeInv, NEW x \in Context, Scan(x)
  PROVE  /\ LocalTypes' /\ Others(x) /\ UNCHANGED <<clear, held, cuts, fills>>
         /\ pc[x] = "scan"
         /\ \/ pc'[x] = "idle" /\ i'[x] = 0 /\ word'[x] = {}
            \/ /\ pc'[x] = "test" /\ i'[x] = 0 /\ req' = req /\ word' = word
               /\ idx[x] <= idx'[x]
  <1>1. CASE ~Found(x) /\ Return(x)
    BY <1>1, ReturnRight DEF Scan, At
  <1>2. CASE Found(x) /\ Goto(x, "test")
    BY <1>2, AlignedRight DEF Scan, At, Goto, TypeInv, LocalTypes, Others, Point
  <1> QED BY <1>1, <1>2 DEF Scan

LEMMA TestRight ==
  ASSUME TypeInv, PosInv, NEW x \in Context, Test(x)
  PROVE  /\ LocalTypes' /\ Others(x) /\ UNCHANGED <<clear, held, cuts, fills, req, word>>
         /\ pc[x] = "test"
         /\ \/ /\ Frame(x) \in clear /\ i[x] + 1 = req[x].n
               /\ pc'[x] = "set" /\ i'[x] = 0 /\ idx' = idx
            \/ /\ Frame(x) \in clear /\ i[x] + 1 < req[x].n
               /\ pc' = pc /\ i'[x] = i[x] + 1 /\ idx' = idx
            \/ pc'[x] = "scan" /\ idx'[x] = idx[x] + req[x].n
  <1>0. i[x] < req[x].n /\ i[x] \in Nat /\ req[x].n \in Nat /\ idx[x] \in Nat
    BY DEF Test, At, TypeInv, PosInv, Request
  <1>1. CASE Ready(x) /\ Goto(x, "set") /\ i' = [i EXCEPT ![x] = 0] /\ UNCHANGED idx
    BY <1>1 DEF Test, At, Ready, Last, Goto, TypeInv, LocalTypes, Others, Point
  <1>2. CASE /\ ~Ready(x) /\ Frame(x) \in clear
             /\ i' = [i EXCEPT ![x] = @ + 1] /\ UNCHANGED <<pc, idx>>
    BY <1>0, <1>2 DEF Test, At, Ready, Last, TypeInv, LocalTypes, Others, Point
  <1>3. CASE Goto(x, "scan") /\ idx' = [idx EXCEPT ![x] = Restart(x)] /\ UNCHANGED i
    BY <1>0, <1>3 DEF Test, At, Restart, Goto, TypeInv, LocalTypes, Others, Point
  <1> QED BY <1>1, <1>2, <1>3 DEF Test

LEMMA SetLoadRight ==
  ASSUME TypeInv, NEW x \in Context, SetLoad(x)
  PROVE  /\ LocalTypes' /\ Others(x) /\ UNCHANGED <<clear, held, cuts, fills, req, idx, i>>
         /\ pc[x] = "set" /\ pc'[x] = "store" /\ word'[x] = clear \cap WordOf(Frame(x))
  BY DEF SetLoad, At, Goto, TypeInv, LocalTypes, Others, Point, WordOf

LEMMA SetStoreRight ==
  ASSUME TypeInv, PosInv, NEW x \in Context, SetStore(x)
  PROVE  /\ LocalTypes' /\ Others(x) /\ UNCHANGED <<held, cuts, fills, req, idx, word>>
         /\ clear' = (clear \ WordOf(Frame(x))) \cup (word[x] \ {Frame(x)})
         /\ pc[x] = "store"
         /\ \/ i[x] + 1 = req[x].n /\ pc'[x] = "sub" /\ i' = i
            \/ i[x] + 1 < req[x].n /\ pc'[x] = "set" /\ i'[x] = i[x] + 1
  <1>0. i[x] < req[x].n /\ i[x] \in Nat /\ req[x].n \in Nat
    BY DEF SetStore, At, TypeInv, PosInv, Request
  <1> QED BY <1>0 DEF SetStore, At, Last, Goto, TypeInv, LocalTypes, Others, Point

LEMMA SubLoadRight ==
  ASSUME TypeInv, NEW x \in Context, SubLoad(x)
  PROVE  /\ LocalTypes' /\ Others(x)
         /\ UNCHANGED <<clear, held, cuts, fills, req, idx, i, word>>
         /\ pc[x] = "sub" /\ pc'[x] = "sub2"
  BY DEF SubLoad, At, Goto, TypeInv, LocalTypes, Others, Point

Got(x) == [base |-> idx[x], n |-> req[x].n, min |-> req[x].min]

LEMMA SubStoreRight ==
  ASSUME TypeInv, NEW x \in Context, SubStore(x)
  PROVE  /\ LocalTypes' /\ Others(x) /\ UNCHANGED <<clear, cuts, fills>>
         /\ pc[x] = "sub2" /\ pc'[x] = "idle" /\ i'[x] = 0 /\ word'[x] = {}
         /\ held' = [held EXCEPT ![x] = @ \cup {Got(x)}] /\ Got(x) \in Block
  <1>1. Got(x) \in Block
    BY DEF TypeInv, Request, Block, Got
  <1> QED BY <1>1, ReturnRight DEF SubStore, At, Got

LEMMA FreeRight ==
  ASSUME TypeInv, PosInv, NEW x \in Context, NEW b \in held[x], Free(x, b)
  PROVE  /\ LocalTypes' /\ Others(x) /\ UNCHANGED <<clear, fills, i, word>>
         /\ Enter(x, "clr") /\ pc'[x] = "clr" /\ idx'[x] = b.base /\ req'[x].n = b.n
         /\ i[x] = 0 /\ b \in Block /\ held' = [held EXCEPT ![x] = @ \ {b}]
  <1>1. b \in Block /\ req[x] \in Request
    BY DEF TypeInv
  <1>2. [req[x] EXCEPT !.n = b.n] \in Request /\ b.base \in Nat
    BY <1>1 DEF Block, Request
  <1>3. req' = [req EXCEPT ![x] = [req[x] EXCEPT !.n = b.n]]
    BY DEF Free
  <1>4. req' \in [Context -> Request] /\ req'[x] = [req[x] EXCEPT !.n = b.n]
    BY <1>2, <1>3 DEF TypeInv
  <1>5. req'[x].n = b.n
    BY <1>1, <1>4 DEF Request
  <1> QED BY <1>1, <1>2, <1>3, <1>4, <1>5
          DEF Free, Enter, At, Goto, TypeInv, PosInv, LocalTypes, Others, Point

LEMMA NextFrameRight ==
  ASSUME TypeInv, NEW x \in Context, NextFrame(x), i[x] < req[x].n
  PROVE  /\ LocalTypes' /\ Others(x)
         /\ \/ i[x] + 1 = req[x].n /\ pc'[x] = "idle" /\ i'[x] = 0 /\ word'[x] = {}
            \/ /\ i[x] + 1 < req[x].n /\ pc'[x] = "clr" /\ i'[x] = i[x] + 1
               /\ UNCHANGED <<req, idx, word>>
  <1>0. i[x] \in Nat /\ req[x].n \in Nat
    BY DEF TypeInv, Request
  <1>1. CASE Through(x) /\ Return(x)
    BY <1>1, ReturnRight DEF Through, Last
  <1>2. CASE ~Through(x) /\ Goto(x, "clr")
    BY <1>0, <1>2 DEF NextFrame, Through, Last, Goto, TypeInv, LocalTypes, Others, Point
  <1> QED BY <1>1, <1>2 DEF NextFrame

LEMMA ClearLoadRight ==
  ASSUME TypeInv, PosInv, NEW x \in Context, ClearLoad(x)
  PROVE  /\ LocalTypes' /\ Others(x) /\ UNCHANGED <<clear, held, cuts, fills>>
         /\ pc[x] = "clr"
         /\ \/ i[x] + 1 = req[x].n /\ pc'[x] = "idle" /\ i'[x] = 0 /\ word'[x] = {}
            \/ /\ i[x] + 1 < req[x].n /\ pc'[x] = "clr" /\ i'[x] = i[x] + 1
               /\ UNCHANGED <<req, idx, word>>
            \/ /\ pc'[x] = "clr2" /\ UNCHANGED <<req, idx, i>>
               /\ word'[x] = clear \cap WordOf(Frame(x))
  <1>1. CASE NextFrame(x)
    <2>1. i[x] < req[x].n
      BY DEF ClearLoad, At, PosInv
    <2> QED BY <1>1, <2>1, NextFrameRight DEF ClearLoad, At
  <1>2. CASE /\ Goto(x, "clr2") /\ word' = [word EXCEPT ![x] = clear \cap WordOf(Frame(x))]
             /\ UNCHANGED <<req, idx, i, count>>
    BY <1>2 DEF ClearLoad, At, Goto, TypeInv, LocalTypes, Others, Point, WordOf
  <1> QED BY <1>1, <1>2 DEF ClearLoad

LEMMA ClearStoreRight ==
  ASSUME TypeInv, NEW x \in Context, ClearStore(x)
  PROVE  /\ LocalTypes' /\ Others(x) /\ UNCHANGED <<held, cuts, fills, req, idx, i, word>>
         /\ clear' = (clear \ WordOf(Frame(x))) \cup word[x] \cup {Frame(x)}
         /\ pc[x] = "clr2" /\ pc'[x] = "inc"
  BY DEF ClearStore, At, Goto, TypeInv, LocalTypes, Others, Point

LEMMA IncLoadRight ==
  ASSUME TypeInv, NEW x \in Context, IncLoad(x)
  PROVE  /\ LocalTypes' /\ Others(x)
         /\ UNCHANGED <<clear, held, cuts, fills, req, idx, i, word>>
         /\ pc[x] = "inc" /\ pc'[x] = "inc2"
  BY DEF IncLoad, At, Goto, TypeInv, LocalTypes, Others, Point

LEMMA IncStoreRight ==
  ASSUME TypeInv, PosInv, NEW x \in Context, IncStore(x)
  PROVE  /\ LocalTypes' /\ Others(x) /\ UNCHANGED <<clear, held, cuts, fills>>
         /\ pc[x] = "inc2"
         /\ \/ i[x] + 1 = req[x].n /\ pc'[x] = "idle" /\ i'[x] = 0 /\ word'[x] = {}
            \/ /\ i[x] + 1 < req[x].n /\ pc'[x] = "clr" /\ i'[x] = i[x] + 1
               /\ UNCHANGED <<req, idx, word>>
  <1>1. i[x] < req[x].n
    BY DEF IncStore, At, PosInv
  <1> QED BY <1>1, NextFrameRight DEF IncStore, At

\* The steps that leave every local alone.
LEMMA CallerRight ==
  ASSUME TypeInv, NEW x \in Context, NEW b \in held[x], FreeNothing(x, b) \/ Fill(x, b)
  PROVE  /\ LocalTypes' /\ UNCHANGED <<pc, req, idx, i, word, cuts>>
         /\ \/ held' = [held EXCEPT ![x] = @ \ {b}] /\ UNCHANGED <<clear, fills>>
            \/ held' = held /\ fills' = fills + 1 /\ clear' \subseteq Nat
  <1>1. CASE FreeNothing(x, b)
    BY <1>1 DEF FreeNothing, locals, TypeInv, LocalTypes
  <1>2. CASE Fill(x, b)
    <2>1. clear' \subseteq Nat
      BY <1>2, FramesNat DEF Fill, WordOf, TypeInv
    <2> QED BY <1>2, <2>1 DEF Fill, locals, TypeInv, LocalTypes
  <1> QED BY <1>1, <1>2

\* No caller gets a block that way.
LEMMA CallerHeld ==
  ASSUME TypeInv, NEW x \in Context, NEW b \in held[x], FreeNothing(x, b) \/ Fill(x, b)
  PROVE  /\ held' \in [Context -> SUBSET Block] /\ fills' \in Nat /\ clear' \subseteq Nat
         /\ \A y \in Context : held'[y] \subseteq held[y]
  <1>1. held \in [Context -> SUBSET Block] /\ fills \in Nat /\ clear \subseteq Nat
    BY DEF TypeInv
  <1>2. CASE held' = [held EXCEPT ![x] = @ \ {b}] /\ UNCHANGED <<clear, fills>>
    <2>1. held[x] \ {b} \in SUBSET Block
      BY <1>1
    <2> QED BY <1>1, <1>2, <2>1
  <1>3. CASE held' = held /\ fills' = fills + 1 /\ clear' \subseteq Nat
    BY <1>1, <1>3
  <1> QED BY <1>2, <1>3, CallerRight

LEMMA TypeStep == TypeInv /\ PosInv /\ [Next]_vars => TypeInv' /\ PosInv'
  <1> SUFFICES ASSUME TypeInv, PosInv, [Next]_vars PROVE TypeInv' /\ PosInv'
    OBVIOUS
  <1>0. Frames \subseteq Nat
    BY FramesNat
  <1>1. CASE UNCHANGED vars
    BY <1>1 DEF vars, TypeInv, PosInv
  <1>2. ASSUME NEW x \in Context, NEW r \in Ask[x], Alloc(x, r)
        PROVE  TypeInv' /\ PosInv'
    <2>1. /\ LocalTypes' /\ Others(x) /\ UNCHANGED <<clear, held, fills>>
          /\ pc'[x] = "scan" /\ cuts' \in Nat
      BY <1>2, AllocRight, EnterRight
    <2> QED BY <2>1 DEF TypeInv, LocalTypes, PosInv, Others
  <1>3. ASSUME NEW x \in Context, NEW b \in held[x], Free(x, b)
        PROVE  TypeInv' /\ PosInv'
    <2>1. /\ LocalTypes' /\ Others(x) /\ UNCHANGED <<clear, fills>> /\ i'[x] = 0
          /\ pc'[x] = "clr" /\ cuts' \in Nat /\ b \in Block /\ req'[x].n = b.n
          /\ held' = [held EXCEPT ![x] = @ \ {b}]
      BY <1>3, FreeRight, EnterRight
    <2>2. b.n > 0
      BY <2>1 DEF Block
    <2> QED BY <2>1, <2>2 DEF TypeInv, LocalTypes, PosInv, Others
  <1>4. ASSUME NEW x \in Context, NEW b \in held[x], FreeNothing(x, b) \/ Fill(x, b)
        PROVE  TypeInv' /\ PosInv'
    <2>1. LocalTypes' /\ UNCHANGED <<pc, req, i, cuts>>
      BY <1>4, CallerRight
    <2>2. /\ clear' \subseteq Nat /\ fills' \in Nat
          /\ held' \in [Context -> SUBSET Block]
      BY <1>4, CallerHeld
    <2> QED BY <2>1, <2>2 DEF TypeInv, LocalTypes, PosInv
  <1>5. ASSUME NEW x \in Context, Step(x)
        PROVE  TypeInv' /\ PosInv'
    <2> DEFINE At0 == pc'[x] = "idle" /\ i'[x] = 0
               Off == pc'[x] \in {"scan", "sub", "sub2"}
               On == i'[x] < req'[x].n /\ pc'[x] # "idle"
    <2>a. i[x] \in Nat /\ req[x].n \in Nat \ {0}
      BY DEF TypeInv, Request
    <2>b. SUFFICES /\ LocalTypes' /\ Others(x) /\ clear' \subseteq Nat
                   /\ held' \in [Context -> SUBSET Block] /\ UNCHANGED <<cuts, fills>>
                   /\ At0 \/ Off \/ On
      BY DEF TypeInv, LocalTypes, PosInv, Others
    <2>1. CASE Scan(x)
      BY <2>1, <2>a, ScanRight DEF TypeInv
    <2>2. CASE Test(x)
      <3>1. /\ LocalTypes' /\ Others(x) /\ UNCHANGED <<clear, held, cuts, fills, req>>
            /\ \/ pc'[x] = "set" /\ i'[x] = 0
               \/ pc'[x] = "test" /\ i'[x] = i[x] + 1 /\ i[x] + 1 < req[x].n
               \/ pc'[x] = "scan"
        BY <2>2, TestRight
      <3>2. Off \/ On
        BY <2>a, <3>1
      <3> QED BY <3>1, <3>2 DEF TypeInv
    <2>3. CASE SetLoad(x)
      BY <2>3, SetLoadRight DEF TypeInv, PosInv
    <2>4. CASE SetStore(x)
      <3>1. clear' \subseteq Nat
        BY <1>0, <2>4, SetStoreRight DEF TypeInv
      <3> QED BY <2>4, <3>1, SetStoreRight DEF TypeInv
    <2>5. CASE SubLoad(x)
      BY <2>5, SubLoadRight DEF TypeInv
    <2>6. CASE SubStore(x)
      <3>1. held' \in [Context -> SUBSET Block]
        BY <2>6, SubStoreRight DEF TypeInv
      <3> QED BY <2>6, <3>1, SubStoreRight DEF TypeInv
    <2>7. CASE ClearLoad(x)
      BY <2>7, ClearLoadRight DEF TypeInv, PosInv
    <2>8. CASE ClearStore(x)
      <3>1. Frame(x) \in Nat
        BY DEF Frame, TypeInv
      <3>2. clear' \subseteq Nat
        BY <1>0, <2>8, <3>1, ClearStoreRight DEF TypeInv
      <3> QED BY <2>8, <3>2, ClearStoreRight DEF TypeInv, PosInv
    <2>9. CASE IncLoad(x)
      BY <2>9, IncLoadRight DEF TypeInv, PosInv
    <2>10. CASE IncStore(x)
      BY <2>10, IncStoreRight DEF TypeInv
    <2> QED BY <1>5, <2>1, <2>2, <2>3, <2>4, <2>5, <2>6, <2>7, <2>8, <2>9, <2>10 DEF Step
  <1> QED BY <1>1, <1>2, <1>3, <1>4, <1>5 DEF Next

-----------------------------------------------------------------------------
(* Reserved memory                                                         *)

Setting == {"set", "store", "sub", "sub2"}
Clearing == {"clr", "clr2", "inc", "inc2"}

\* The frames a call has found free so far, has taken, or is giving back.
Mine(x) ==
  IF pc[x] = "test" THEN idx[x] .. Frame(x) - 1
  ELSE IF pc[x] \in Setting \cup Clearing THEN idx[x] .. idx[x] + req[x].n - 1
  ELSE {}

\* Until a caller writes on the bitmap, no word loaded from it, as old as it
\* may be, and no block has a reserved frame.
ReservedInv == fills = 0 =>
  /\ clear \subseteq Usable
  /\ \A x \in Context :
       /\ word[x] \subseteq Usable /\ Mine(x) \subseteq Usable
       /\ \A b \in held[x] : BlockFrames(b) \subseteq Usable

LEMMA MineStays ==
  ASSUME NEW x \in Context, Others(x), NEW y \in Context \ {x}
  PROVE  Mine(y)' = Mine(y) /\ word'[y] = word[y]
  BY DEF Others, Mine, Frame

\* How the frames of a call change from one of its points to the next.
LEMMA MineTested ==
  ASSUME TypeInv, NEW x \in Context, pc[x] = "test", pc'[x] \in {"test", "set"},
         UNCHANGED <<idx, req>>,
         \/ pc'[x] = "test" /\ i'[x] = i[x] + 1
         \/ pc'[x] = "set" /\ i[x] + 1 = req[x].n
  PROVE  Mine(x)' = Mine(x) \cup {Frame(x)} /\ Frame(x) \notin Mine(x)
  <1>1. idx[x] \in Nat /\ i[x] \in Nat /\ req[x].n \in Nat
    BY DEF TypeInv, Request
  <1>2. Mine(x) = idx[x] .. (idx[x] + i[x]) - 1 /\ Frame(x) = idx[x] + i[x]
    BY DEF Mine, Frame
  <1>3. Mine(x)' = idx[x] .. idx[x] + i[x]
    <2>1. CASE pc'[x] = "test" /\ i'[x] = i[x] + 1
      <3>1. (idx[x] + (i[x] + 1)) - 1 = idx[x] + i[x]
        BY <1>1
      <3> QED BY <2>1, <3>1 DEF Mine, Frame
    <2>2. CASE pc'[x] = "set" /\ i[x] + 1 = req[x].n
      <3>1. idx[x] + req[x].n - 1 = idx[x] + i[x]
        BY <1>1, <2>2
      <3> QED BY <2>2, <3>1 DEF Mine, Setting, Clearing
    <2> QED BY <2>1, <2>2
  <1> QED BY <1>1, <1>2, <1>3

LEMMA MineKept ==
  ASSUME NEW x \in Context, pc[x] \in Setting \cup Clearing,
         pc'[x] \in Setting \cup Clearing, UNCHANGED <<idx, req>>
  PROVE  Mine(x)' = Mine(x)
  BY DEF Mine, Setting, Clearing

LEMMA MineNone ==
  ASSUME NEW x \in Context, pc'[x] \in {"idle", "scan"}
  PROVE  Mine(x)' = {}
  BY DEF Mine, Setting, Clearing

\* The frame a loop is at is one of the call's.
LEMMA FrameMine ==
  ASSUME TypeInv, PosInv, NEW x \in Context, pc[x] \in {"set", "store", "clr", "clr2", "inc", "inc2"}
  PROVE  Frame(x) \in Mine(x) /\ Frame(x) \in Nat
  <1>1. idx[x] \in Nat /\ i[x] \in Nat /\ req[x].n \in Nat /\ i[x] < req[x].n
    BY DEF TypeInv, PosInv, Request
  <1>2. Mine(x) = idx[x] .. idx[x] + req[x].n - 1
    BY DEF Mine, Setting, Clearing
  <1> QED BY <1>1, <1>2 DEF Frame

LEMMA ReservedInit == Init => ReservedInv
  <1> SUFFICES ASSUME Init PROVE ReservedInv
    OBVIOUS
  <1>1. clear \subseteq Usable
    BY MapRight DEF Init, Released
  <1>2. \A x \in Context : word[x] = {} /\ held[x] = {} /\ Mine(x) = {}
    BY DEF Init, Mine, Setting, Clearing
  <1> QED BY <1>1, <1>2 DEF ReservedInv

LEMMA ReservedStep == TypeInv /\ PosInv /\ ReservedInv /\ [Next]_vars => ReservedInv'
  <1> SUFFICES ASSUME TypeInv, PosInv, ReservedInv, [Next]_vars PROVE ReservedInv'
    OBVIOUS
  <1>1. CASE UNCHANGED vars
    BY <1>1 DEF vars, ReservedInv, Mine, Frame
  <1>2. ASSUME NEW x \in Context, NEW r \in Ask[x], Alloc(x, r)
        PROVE  ReservedInv'
    <2>1. /\ Others(x) /\ UNCHANGED <<clear, held, fills, word>> /\ pc'[x] = "scan"
      BY <1>2, AllocRight
    <2>2. Mine(x)' = {} /\ \A y \in Context \ {x} : Mine(y)' = Mine(y)
      BY <2>1, MineNone, MineStays
    <2> QED BY <2>1, <2>2 DEF ReservedInv
  <1>3. ASSUME NEW x \in Context, NEW b \in held[x], Free(x, b)
        PROVE  ReservedInv'
    <2>1. /\ Others(x) /\ UNCHANGED <<clear, fills, word>> /\ pc'[x] = "clr"
          /\ idx'[x] = b.base /\ req'[x].n = b.n /\ held' = [held EXCEPT ![x] = @ \ {b}]
      BY <1>3, FreeRight
    <2>2. Mine(x)' = BlockFrames(b) /\ \A y \in Context \ {x} : Mine(y)' = Mine(y)
      BY <2>1, MineStays DEF Mine, Setting, Clearing, BlockFrames
    <2>3. \A y \in Context : held'[y] \subseteq held[y]
      BY <2>1 DEF TypeInv
    <2> QED BY <2>1, <2>2, <2>3 DEF ReservedInv
  <1>4. ASSUME NEW x \in Context, NEW b \in held[x], FreeNothing(x, b) \/ Fill(x, b)
        PROVE  ReservedInv'
    <2>1. CASE held' = [held EXCEPT ![x] = @ \ {b}] /\ UNCHANGED <<clear, fills>>
      <3>1. \A y \in Context : held'[y] \subseteq held[y]
        BY <2>1 DEF TypeInv
      <3>2. \A y \in Context : Mine(y)' = Mine(y) /\ word'[y] = word[y]
        BY <1>4, CallerRight DEF Mine, Frame
      <3> QED BY <2>1, <3>1, <3>2 DEF ReservedInv
    <2>2. CASE fills' = fills + 1
      BY <2>2 DEF ReservedInv, TypeInv
    <2> QED BY <1>4, <2>1, <2>2, CallerRight
  <1>5. ASSUME NEW x \in Context, Step(x), fills = 0
        PROVE  ReservedInv'
    <2>a. /\ clear \subseteq Usable /\ word[x] \subseteq Usable /\ Mine(x) \subseteq Usable
          /\ \A y \in Context : \A b \in held[y] : BlockFrames(b) \subseteq Usable
      BY <1>5 DEF ReservedInv
    <2>b. SUFFICES /\ Others(x) /\ fills' = fills
                   /\ clear' \subseteq Usable
                   /\ word'[x] \subseteq Usable /\ Mine(x)' \subseteq Usable
                   /\ \A y \in Context : \A b \in held'[y] : BlockFrames(b) \subseteq Usable
      BY <1>5, MineStays DEF ReservedInv
    <2>1. CASE Scan(x)
      <3>1. Mine(x)' = {}
        <4>1. CASE pc'[x] = "idle"
          BY <4>1, MineNone
        <4>2. CASE pc'[x] = "test" /\ i'[x] = 0
          <5>1. idx'[x] \in Nat
            BY <2>1, ScanRight DEF LocalTypes
          <5>2. Mine(x)' = idx'[x] .. (idx'[x] + 0) - 1
            BY <4>2 DEF Mine, Frame
          <5> QED BY <5>1, <5>2
        <4> QED BY <2>1, <4>1, <4>2, ScanRight
      <3> QED BY <2>1, <2>a, <3>1, ScanRight
    <2>2. CASE Test(x)
      <3>1. CASE pc'[x] = "scan"
        BY <2>2, <2>a, <3>1, TestRight, MineNone
      <3>2. CASE /\ Frame(x) \in clear
                 /\ \/ pc'[x] = "test" /\ i'[x] = i[x] + 1
                    \/ pc'[x] = "set" /\ i[x] + 1 = req[x].n
                 /\ idx' = idx
        <4>1. Mine(x)' = Mine(x) \cup {Frame(x)}
          BY <2>2, <3>2, TestRight, MineTested
        <4> QED BY <2>2, <2>a, <3>2, <4>1, TestRight
      <3> QED BY <2>2, <3>1, <3>2, TestRight
    <2>3. CASE SetLoad(x)
      <3>1. Mine(x)' = Mine(x)
        BY <2>3, SetLoadRight, MineKept DEF Setting, Clearing
      <3> QED BY <2>3, <2>a, <3>1, SetLoadRight
    <2>4. CASE SetStore(x)
      <3>1. Mine(x)' = Mine(x)
        BY <2>4, SetStoreRight, MineKept DEF Setting, Clearing
      <3> QED BY <2>4, <2>a, <3>1, SetStoreRight
    <2>5. CASE SubLoad(x)
      <3>1. Mine(x)' = Mine(x)
        BY <2>5, SubLoadRight, MineKept DEF Setting, Clearing
      <3> QED BY <2>5, <2>a, <3>1, SubLoadRight
    <2>6. CASE SubStore(x)
      <3>1. Mine(x)' = {} /\ BlockFrames(Got(x)) = Mine(x)
        BY <2>6, SubStoreRight, MineNone DEF Mine, BlockFrames, Got, Setting, Clearing
      <3>2. \A y \in Context : \A b \in held'[y] : b \in held[y] \/ b = Got(x)
        BY <2>6, SubStoreRight DEF TypeInv
      <3> QED BY <2>6, <2>a, <3>1, <3>2, SubStoreRight
    <2>7. CASE ClearLoad(x)
      <3>1. Mine(x)' = Mine(x) \/ Mine(x)' = {}
        BY <2>7, ClearLoadRight, MineKept, MineNone DEF Setting, Clearing
      <3> QED BY <2>7, <2>a, <3>1, ClearLoadRight
    <2>8. CASE ClearStore(x)
      <3>1. Mine(x)' = Mine(x)
        BY <2>8, ClearStoreRight, MineKept DEF Setting, Clearing
      <3>2. Frame(x) \in Mine(x)
        BY <2>8, ClearStoreRight, FrameMine
      <3> QED BY <2>8, <2>a, <3>1, <3>2, ClearStoreRight
    <2>9. CASE IncLoad(x)
      <3>1. Mine(x)' = Mine(x)
        BY <2>9, IncLoadRight, MineKept DEF Setting, Clearing
      <3> QED BY <2>9, <2>a, <3>1, IncLoadRight
    <2>10. CASE IncStore(x)
      <3>1. Mine(x)' = Mine(x) \/ Mine(x)' = {}
        BY <2>10, IncStoreRight, MineKept, MineNone DEF Setting, Clearing
      <3> QED BY <2>10, <2>a, <3>1, IncStoreRight
    <2> QED BY <1>5, <2>1, <2>2, <2>3, <2>4, <2>5, <2>6, <2>7, <2>8, <2>9, <2>10 DEF Step
  <1>6. ASSUME NEW x \in Context, Step(x), fills # 0
        PROVE  ReservedInv'
    <2>1. fills' = fills
      BY <1>6 DEF Step, Scan, Test, SetLoad, SetStore, SubLoad, SubStore, ClearLoad,
         ClearStore, IncLoad, IncStore
    <2> QED BY <1>6, <2>1 DEF ReservedInv
  <1> QED BY <1>1, <1>2, <1>3, <1>4, <1>5, <1>6 DEF Next

-----------------------------------------------------------------------------
(* Where DMA buffers lie                                                   *)

DmaInv == \A x \in Context :
  /\ pc[x] \in {"scan", "test"} \cup Setting => req[x].min <= idx[x]
  /\ \A b \in held[x] : b.min <= b.base

-----------------------------------------------------------------------------
LEMMA DmaStep == TypeInv /\ PosInv /\ DmaInv /\ [Next]_vars => DmaInv'
  <1> SUFFICES ASSUME TypeInv, PosInv, DmaInv, [Next]_vars PROVE DmaInv'
    OBVIOUS
  <1>0. \A y \in Context : req[y].min \in Nat /\ idx[y] \in Nat /\ req[y].n \in Nat
    BY DEF TypeInv, Request
  <1>1. CASE UNCHANGED vars
    BY <1>1 DEF vars, DmaInv
  <1>2. ASSUME NEW x \in Context, NEW r \in Ask[x], Alloc(x, r)
        PROVE  DmaInv'
    <2>1. /\ Others(x) /\ held' = held /\ idx'[x] = req'[x].min /\ idx'[x] \in Nat
      BY <1>2, AllocRight DEF LocalTypes
    <2> QED BY <2>1 DEF DmaInv, Others
  <1>3. ASSUME NEW x \in Context, NEW b \in held[x], Free(x, b)
        PROVE  DmaInv'
    <2>1. Others(x) /\ pc'[x] = "clr" /\ held' = [held EXCEPT ![x] = @ \ {b}]
      BY <1>3, FreeRight
    <2>2. \A y \in Context : held'[y] \subseteq held[y]
      BY <2>1 DEF TypeInv
    <2> QED BY <2>1, <2>2 DEF DmaInv, Others, Setting
  <1>4. ASSUME NEW x \in Context, NEW b \in held[x], FreeNothing(x, b) \/ Fill(x, b)
        PROVE  DmaInv'
    <2>1. UNCHANGED <<pc, req, idx>>
      BY <1>4, CallerRight
    <2>2. \A y \in Context : held'[y] \subseteq held[y]
      BY <1>4, CallerHeld
    <2> QED BY <2>1, <2>2 DEF DmaInv
  <1>5. ASSUME NEW x \in Context, Step(x)
        PROVE  DmaInv'
    <2>b. SUFFICES /\ Others(x)
                   /\ pc'[x] \in {"scan", "test"} \cup Setting => req'[x].min <= idx'[x]
                   /\ \A y \in Context : \A b \in held'[y] : b.min <= b.base
      BY DEF DmaInv, Others
    <2> USE DEF DmaInv, Setting
    <2>1. CASE Scan(x)
      <3>1. CASE pc'[x] = "idle"
        BY <2>1, <3>1, ScanRight
      <3>2. CASE req' = req /\ idx[x] <= idx'[x]
        <4>1. idx'[x] \in Nat
          BY <2>1, ScanRight DEF LocalTypes
        <4>2. req[x].min <= idx[x]
          BY <2>1, ScanRight
        <4> QED BY <1>0, <2>1, <3>2, <4>1, <4>2, ScanRight
      <3> QED BY <2>1, <3>1, <3>2, ScanRight
    <2>2. CASE Test(x)
      <3>1. req' = req /\ req[x].min <= idx[x] /\ idx'[x] \in {idx[x], idx[x] + req[x].n}
        BY <2>2, TestRight
      <3>2. req[x].min <= idx[x] + req[x].n
        BY <1>0, <3>1
      <3> QED BY <2>2, <3>1, <3>2, TestRight
    <2>3. CASE SetLoad(x)
      BY <2>3, SetLoadRight
    <2>4. CASE SetStore(x)
      BY <2>4, SetStoreRight
    <2>5. CASE SubLoad(x)
      BY <2>5, SubLoadRight
    <2>6. CASE SubStore(x)
      <3>1. \A y \in Context : \A b \in held'[y] : b \in held[y] \/ b = Got(x)
        BY <2>6, SubStoreRight DEF TypeInv
      <3>2. Got(x).min <= Got(x).base
        BY <2>6, SubStoreRight DEF Got
      <3> QED BY <2>6, <3>1, <3>2, SubStoreRight
    <2>7. CASE ClearLoad(x)
      BY <2>7, ClearLoadRight
    <2>8. CASE ClearStore(x)
      BY <2>8, ClearStoreRight
    <2>9. CASE IncLoad(x)
      BY <2>9, IncLoadRight
    <2>10. CASE IncStore(x)
      BY <2>10, IncStoreRight
    <2> QED BY <1>5, <2>1, <2>2, <2>3, <2>4, <2>5, <2>6, <2>7, <2>8, <2>9, <2>10 DEF Step
  <1> QED BY <1>1, <1>2, <1>3, <1>4, <1>5 DEF Next

-----------------------------------------------------------------------------
(* One owner                                                               *)

Alone == \A x, y \in Context : x # y => pc[x] = "idle" \/ pc[y] = "idle"

HeldApart ==
  /\ \A x \in Context : \A b \in held[x] : BlockFrames(b) \cap clear = {}
  /\ \A x, y \in Context : \A b \in held[x], c \in held[y] :
       x # y \/ b # c => BlockFrames(b) \cap BlockFrames(c) = {}

\* What a call that is not cut knows at each point: the frames it has tested
\* are free, of those it takes the ones before the loop are taken, no one holds
\* what it takes or gives back, and the word it has loaded is up to date.
CallApart(x) ==
  /\ pc[x] = "test" => Mine(x) \subseteq clear
  /\ pc[x] \in Setting \cup Clearing =>
       \A y \in Context : \A b \in held[y] : Mine(x) \cap BlockFrames(b) = {}
  /\ pc[x] \in {"set", "store"} => \A f \in Mine(x) : f \in clear <=> Frame(x) <= f
  /\ pc[x] \in {"sub", "sub2"} => Mine(x) \cap clear = {}
  /\ pc[x] \in {"store", "clr2"} => word[x] = clear \cap WordOf(Frame(x))

ApartInv == fills = 0 /\ cuts = 0 => Alone /\ HeldApart /\ \A x \in Context : CallApart(x)

LEMMA ApartInit == Init => ApartInv
  BY DEF Init, ApartInv, Alone, HeldApart, CallApart, Setting, Clearing

\* While x is in a call the other context is idle, and nothing is asked of it.
LEMMA IdleApart ==
  ASSUME NEW x \in Context, Others(x), \A y \in Context \ {x} : pc[y] = "idle",
         HeldApart', CallApart(x)'
  PROVE  ApartInv'
  <1>1. \A y \in Context \ {x} : pc'[y] = "idle"
    BY DEF Others
  <1>2. Alone'
    BY <1>1 DEF Alone
  <1>3. \A y \in Context \ {x} : CallApart(y)'
    BY <1>1 DEF CallApart, Setting, Clearing
  <1> QED BY <1>2, <1>3 DEF ApartInv

\* What the store of a word does to the bitmap when no call was cut.
LEMMA SetStoreClear ==
  ASSUME TypeInv, PosInv, NEW x \in Context, SetStore(x), CallApart(x), clear \subseteq Frames
  PROVE  /\ Frame(x) \in Mine(x) /\ Frame(x) \in Nat /\ Frame(x) \in clear
         /\ clear' = clear \ {Frame(x)}
  <1>1. Frame(x) \in Mine(x) /\ Frame(x) \in Nat /\ Frame(x) \in clear
    BY SetStoreRight, FrameMine DEF CallApart
  <1>2. Frame(x) \in WordOf(Frame(x))
    BY <1>1 DEF WordOf
  <1>3. clear' = clear \ {Frame(x)}
    BY <1>2, SetStoreRight DEF CallApart
  <1> QED BY <1>1, <1>3

LEMMA ClearStoreClear ==
  ASSUME TypeInv, NEW x \in Context, ClearStore(x), CallApart(x)
  PROVE  clear' = clear \cup {Frame(x)}
  BY ClearStoreRight DEF CallApart

LEMMA ApartStep ==
  TypeInv /\ PosInv /\ ReservedInv /\ ApartInv /\ [Next]_vars => ApartInv'
  <1> SUFFICES ASSUME TypeInv, PosInv, ReservedInv, ApartInv, [Next]_vars,
                      fills' = 0, cuts' = 0
               PROVE  ApartInv'
    BY DEF ApartInv
  <1>1. CASE UNCHANGED vars
    BY <1>1 DEF vars, ApartInv, Alone, HeldApart, CallApart, Mine, Frame
  <1>2. ASSUME NEW x \in Context, NEW r \in Ask[x], Alloc(x, r)
        PROVE  ApartInv'
    <2>1. /\ Others(x) /\ UNCHANGED <<clear, held, fills, word>> /\ pc'[x] = "scan"
          /\ cuts = 0 /\ \A y \in Context \ {x} : pc[y] = "idle"
      BY <1>2, AllocRight, EnterRight
    <2>2. HeldApart' /\ CallApart(x)'
      BY <2>1 DEF ApartInv, HeldApart, CallApart, Setting, Clearing
    <2> QED BY <2>1, <2>2, IdleApart
  <1>3. ASSUME NEW x \in Context, NEW b \in held[x], Free(x, b)
        PROVE  ApartInv'
    <2>1. /\ Others(x) /\ UNCHANGED <<clear, fills, word>> /\ pc'[x] = "clr"
          /\ idx'[x] = b.base /\ req'[x].n = b.n /\ held' = [held EXCEPT ![x] = @ \ {b}]
          /\ cuts = 0 /\ \A y \in Context \ {x} : pc[y] = "idle"
      BY <1>3, FreeRight, EnterRight
    <2>2. /\ \A y \in Context \ {x} : held'[y] = held[y]
          /\ held'[x] = held[x] \ {b}
      BY <2>1 DEF TypeInv
    <2>3. HeldApart
      BY <2>1 DEF ApartInv
    <2>4. HeldApart'
      <3>1. \A y \in Context : held'[y] \subseteq held[y]
        BY <2>2
      <3> QED BY <2>1, <2>3, <3>1 DEF HeldApart
    <2>5. Mine(x)' = BlockFrames(b)
      BY <2>1 DEF Mine, Setting, Clearing, BlockFrames
    <2>6. \A y \in Context : \A c \in held'[y] : BlockFrames(b) \cap BlockFrames(c) = {}
      BY <2>2, <2>3 DEF HeldApart
    <2>7. CallApart(x)'
      BY <2>1, <2>5, <2>6 DEF CallApart, Setting
    <2> QED BY <2>1, <2>4, <2>7, IdleApart
  <1>4. ASSUME NEW x \in Context, NEW b \in held[x], FreeNothing(x, b) \/ Fill(x, b)
        PROVE  ApartInv'
    <2>1. /\ held' = [held EXCEPT ![x] = @ \ {b}]
          /\ UNCHANGED <<clear, fills, pc, req, idx, i, word, cuts>>
      BY <1>4, CallerRight DEF TypeInv
    <2>2. \A y \in Context : held'[y] \subseteq held[y]
      BY <2>1 DEF TypeInv
    <2>3. Alone /\ HeldApart /\ \A y \in Context : CallApart(y)
      BY <2>1 DEF ApartInv
    <2>4. Alone' /\ HeldApart'
      BY <2>1, <2>2, <2>3 DEF Alone, HeldApart
    <2>5. ASSUME NEW y \in Context PROVE CallApart(y)'
      <3>1. Mine(y)' = Mine(y) /\ Frame(y)' = Frame(y)
        BY <2>1 DEF Mine, Frame
      <3> QED BY <2>1, <2>2, <2>3, <3>1 DEF CallApart
    <2> QED BY <2>4, <2>5 DEF ApartInv
  <1>5. ASSUME NEW x \in Context, Step(x)
        PROVE  ApartInv'
    <2>0. Others(x) /\ UNCHANGED <<fills, cuts>> /\ pc[x] # "idle"
      BY <1>5, ScanRight, TestRight, SetLoadRight, SetStoreRight, SubLoadRight,
         SubStoreRight, ClearLoadRight, ClearStoreRight, IncLoadRight, IncStoreRight
         DEF Step
    <2>a. HeldApart /\ CallApart(x) /\ \A y \in Context \ {x} : pc[y] = "idle"
      BY <2>0 DEF ApartInv, Alone
    <2>b. clear \subseteq Frames
      BY <2>0, MapRight DEF ReservedInv
    <2>c. SUFFICES HeldApart' /\ CallApart(x)'
      BY <2>0, <2>a, IdleApart
    <2>d. ASSUME UNCHANGED <<clear, held>> PROVE HeldApart'
      BY <2>a, <2>d DEF HeldApart
    <2>1. CASE Scan(x)
      <3>1. CASE pc'[x] = "idle"
        BY <2>1, <2>d, <3>1, ScanRight DEF CallApart, Setting, Clearing
      <3>2. CASE pc'[x] = "test" /\ i'[x] = 0
        <4>1. idx'[x] \in Nat
          BY <2>1, ScanRight DEF LocalTypes
        <4>2. Mine(x)' = idx'[x] .. (idx'[x] + 0) - 1
          BY <3>2 DEF Mine, Frame
        <4>3. Mine(x)' = {}
          BY <4>1, <4>2
        <4> QED BY <2>1, <2>d, <3>2, <4>3, ScanRight DEF CallApart, Setting, Clearing
      <3> QED BY <2>1, <3>1, <3>2, ScanRight
    <2>2. CASE Test(x)
      <3>1. CASE pc'[x] = "scan"
        BY <2>2, <2>d, <3>1, TestRight DEF CallApart, Setting, Clearing
      <3>2. CASE pc'[x] = "test" /\ Frame(x) \in clear /\ i'[x] = i[x] + 1 /\ idx' = idx
        <4>1. Mine(x)' = Mine(x) \cup {Frame(x)}
          BY <2>2, <3>2, TestRight, MineTested
        <4>2. Mine(x)' \subseteq clear'
          BY <2>2, <2>a, <3>2, <4>1, TestRight DEF CallApart
        <4> QED BY <2>2, <2>d, <3>2, <4>2, TestRight DEF CallApart, Setting, Clearing
      <3>3. CASE /\ pc'[x] = "set" /\ Frame(x) \in clear /\ i[x] + 1 = req[x].n
                 /\ i'[x] = 0 /\ idx' = idx
        <4>1. Mine(x)' = Mine(x) \cup {Frame(x)}
          BY <2>2, <3>3, TestRight, MineTested
        <4>2. Mine(x)' \subseteq clear
          BY <2>2, <2>a, <3>3, <4>1, TestRight DEF CallApart
        <4>3. \A y \in Context : \A b \in held[y] : Mine(x)' \cap BlockFrames(b) = {}
          BY <2>a, <4>2 DEF HeldApart
        <4>4. \A f \in Mine(x)' : Frame(x)' <= f
          <5>1. idx[x] \in Nat /\ req[x].n \in Nat /\ Frame(x)' = idx[x] + 0
            BY <3>3 DEF TypeInv, Request, Frame
          <5>2. Mine(x)' = idx[x] .. idx[x] + req[x].n - 1
            BY <2>2, <3>3, TestRight DEF Mine, Setting, Clearing
          <5> QED BY <5>1, <5>2
        <4> QED BY <2>2, <2>d, <3>3, <4>2, <4>3, <4>4, TestRight DEF CallApart
      <3> QED BY <2>2, <3>1, <3>2, <3>3, TestRight
    <2>3. CASE SetLoad(x)
      <3>1. Mine(x)' = Mine(x) /\ Frame(x)' = Frame(x)
        BY <2>3, SetLoadRight, MineKept DEF Setting, Clearing, Frame
      <3> QED BY <2>3, <2>a, <2>d, <3>1, SetLoadRight DEF CallApart, Setting
    <2>4. CASE SetStore(x)
      <3>1. Mine(x)' = Mine(x)
        BY <2>4, SetStoreRight, MineKept DEF Setting, Clearing
      <3>2. Frame(x) \in Nat /\ Frame(x) \in clear
        BY <2>4, <2>a, <2>b, SetStoreClear
      <3>3. clear' = clear \ {Frame(x)}
        BY <2>4, <2>a, <2>b, SetStoreClear
      <3>4. HeldApart'
        BY <2>4, <2>a, <3>3, SetStoreRight DEF HeldApart
      <3>5. Mine(x) \subseteq Nat /\ \A f \in Mine(x) : f \in clear <=> Frame(x) <= f
        <4>1. idx[x] \in Nat /\ req[x].n \in Nat
          BY DEF TypeInv, Request
        <4>2. Mine(x) = idx[x] .. idx[x] + req[x].n - 1
          BY <2>4, SetStoreRight DEF Mine, Setting, Clearing
        <4> QED BY <2>4, <2>a, <4>1, <4>2, SetStoreRight DEF CallApart
      <3>6. \A f \in Mine(x) : f \in clear' <=> Frame(x) + 1 <= f
        BY <3>2, <3>3, <3>5
      <3>7. CASE pc'[x] = "set" /\ i'[x] = i[x] + 1
        <4>1. Frame(x)' = Frame(x) + 1
          <5>1. idx'[x] = idx[x] /\ idx[x] \in Nat /\ i[x] \in Nat
            BY <2>4, SetStoreRight DEF TypeInv
          <5> QED BY <3>7, <5>1 DEF Frame
        <4> QED BY <2>4, <2>a, <3>1, <3>4, <3>6, <3>7, <4>1, SetStoreRight
                DEF CallApart, Setting
      <3>8. CASE pc'[x] = "sub" /\ i[x] + 1 = req[x].n
        <4>1. \A f \in Mine(x) : ~(Frame(x) + 1 <= f)
          <5>1. idx[x] \in Nat /\ i[x] \in Nat /\ req[x].n \in Nat
            BY DEF TypeInv, Request
          <5>2. Mine(x) = idx[x] .. idx[x] + req[x].n - 1
            BY <2>4, SetStoreRight DEF Mine, Setting, Clearing
          <5> QED BY <3>8, <5>1, <5>2 DEF Frame
        <4> QED BY <2>4, <2>a, <3>1, <3>4, <3>6, <3>8, <4>1, SetStoreRight
                DEF CallApart, Setting
      <3> QED BY <2>4, <3>7, <3>8, SetStoreRight
    <2>5. CASE SubLoad(x)
      <3>1. Mine(x)' = Mine(x)
        BY <2>5, SubLoadRight, MineKept DEF Setting, Clearing
      <3> QED BY <2>5, <2>a, <2>d, <3>1, SubLoadRight DEF CallApart, Setting
    <2>6. CASE SubStore(x)
      <3>1. BlockFrames(Got(x)) = Mine(x)
        BY <2>6, SubStoreRight DEF Mine, BlockFrames, Got, Setting, Clearing
      <3>2. \A y \in Context : \A b \in held'[y] : b \in held[y] \/ (y = x /\ b = Got(x))
        BY <2>6, SubStoreRight DEF TypeInv
      <3>3. /\ Mine(x) \cap clear = {}
            /\ \A y \in Context : \A b \in held[y] : Mine(x) \cap BlockFrames(b) = {}
        BY <2>6, <2>a, SubStoreRight DEF CallApart, Setting
      <3>4. HeldApart'
        <4>1. \A y \in Context : \A b \in held'[y] : BlockFrames(b) \cap clear' = {}
          BY <2>6, <2>a, <3>1, <3>2, <3>3, SubStoreRight DEF HeldApart
        <4>2. ASSUME NEW y \in Context, NEW z \in Context, NEW b \in held'[y],
                     NEW c \in held'[z], y # z \/ b # c
              PROVE  BlockFrames(b) \cap BlockFrames(c) = {}
          <5>1. CASE b \in held[y] /\ c \in held[z]
            BY <2>a, <4>2, <5>1 DEF HeldApart
          <5>2. CASE c \in held[z] /\ b = Got(x)
            BY <3>1, <3>3, <5>2
          <5>3. CASE b \in held[y] /\ c = Got(x)
            BY <3>1, <3>3, <5>3
          <5> QED BY <3>2, <4>2, <5>1, <5>2, <5>3
        <4> QED BY <4>1, <4>2 DEF HeldApart
      <3> QED BY <2>6, <3>4, SubStoreRight DEF CallApart, Setting, Clearing
    <2>7. CASE ClearLoad(x)
      <3>1. CASE pc'[x] = "idle"
        BY <2>7, <2>d, <3>1, ClearLoadRight DEF CallApart, Setting, Clearing
      <3>2. CASE pc'[x] = "clr" /\ UNCHANGED <<req, idx>>
        <4>1. Mine(x)' = Mine(x)
          BY <2>7, <3>2, ClearLoadRight, MineKept DEF Setting, Clearing
        <4> QED BY <2>7, <2>a, <2>d, <3>2, <4>1, ClearLoadRight
                DEF CallApart, Setting, Clearing
      <3>3. CASE /\ pc'[x] = "clr2" /\ UNCHANGED <<req, idx, i>>
                 /\ word'[x] = clear \cap WordOf(Frame(x))
        <4>1. Mine(x)' = Mine(x) /\ Frame(x)' = Frame(x)
          BY <2>7, <3>3, ClearLoadRight, MineKept DEF Setting, Clearing, Frame
        <4> QED BY <2>7, <2>a, <2>d, <3>3, <4>1, ClearLoadRight
                DEF CallApart, Setting, Clearing
      <3> QED BY <2>7, <3>1, <3>2, <3>3, ClearLoadRight
    <2>8. CASE ClearStore(x)
      <3>1. Mine(x)' = Mine(x) /\ Frame(x) \in Mine(x)
        BY <2>8, ClearStoreRight, MineKept, FrameMine DEF Setting, Clearing
      <3>2. clear' = clear \cup {Frame(x)}
        BY <2>8, <2>a, ClearStoreClear
      <3>3. \A y \in Context : \A b \in held[y] : Mine(x) \cap BlockFrames(b) = {}
        BY <2>8, <2>a, ClearStoreRight DEF CallApart, Clearing
      <3>4. HeldApart'
        BY <2>8, <2>a, <3>1, <3>2, <3>3, ClearStoreRight DEF HeldApart
      <3> QED BY <2>8, <3>1, <3>3, <3>4, ClearStoreRight DEF CallApart, Setting, Clearing
    <2>9. CASE IncLoad(x)
      <3>1. Mine(x)' = Mine(x)
        BY <2>9, IncLoadRight, MineKept DEF Setting, Clearing
      <3> QED BY <2>9, <2>a, <2>d, <3>1, IncLoadRight DEF CallApart, Setting, Clearing
    <2>10. CASE IncStore(x)
      <3>1. CASE pc'[x] = "idle"
        BY <2>10, <2>d, <3>1, IncStoreRight DEF CallApart, Setting, Clearing
      <3>2. CASE pc'[x] = "clr" /\ UNCHANGED <<req, idx>>
        <4>1. Mine(x)' = Mine(x)
          BY <2>10, <3>2, IncStoreRight, MineKept DEF Setting, Clearing
        <4> QED BY <2>10, <2>a, <2>d, <3>2, <4>1, IncStoreRight
                DEF CallApart, Setting, Clearing
      <3> QED BY <2>10, <3>1, <3>2, IncStoreRight
    <2> QED BY <1>5, <2>1, <2>2, <2>3, <2>4, <2>5, <2>6, <2>7, <2>8, <2>9, <2>10 DEF Step
  <1> QED BY <1>1, <1>2, <1>3, <1>4, <1>5 DEF Next

-----------------------------------------------------------------------------
(* None is lost                                                            *)

LEMMA ModDivides ==
  ASSUME NEW a \in Int, NEW m \in Nat \ {0}
  PROVE  a = m * (a \div m) + (a % m) /\ a \div m \in Int /\ a % m \in 0 .. m - 1
  <1>1. a = m * (a \div m) + (a % m)
    OBVIOUS
  <1>2. a \div m \in Int
    OBVIOUS
  <1>3. a % m \in 0 .. m - 1
    OBVIOUS
  <1> QED BY <1>1, <1>2, <1>3

LEMMA ModUnique ==
  ASSUME NEW m \in Nat \ {0}, NEW q \in Int, NEW r \in 0 .. m - 1
  PROVE  (m * q + r) % m = r
  OBVIOUS

\* A counter that wraps may be added to before or after it has wrapped.
LEMMA ModAdd ==
  ASSUME NEW a \in Int, NEW b \in Int, NEW m \in Nat \ {0}
  PROVE  ((a % m) + b) % m = (a + b) % m
  <1> DEFINE q == a \div m
             r == a % m
             p == (r + b) \div m
             s == (r + b) % m
  <1>1. a = m * q + r /\ q \in Int /\ r \in 0 .. m - 1
    BY ModDivides
  <1>2. r + b = m * p + s /\ p \in Int /\ s \in 0 .. m - 1
    <2> HIDE DEF r
    <2>1. r + b \in Int
      BY <1>1
    <2> QED BY <2>1, ModDivides
  <1> HIDE DEF q, r, p, s
  <1>3. a + b = m * (q + p) + s
    <2>1. m * (q + p) = m * q + m * p
      BY <1>1, <1>2
    <2>2. m * q \in Int /\ m * p \in Int
      BY <1>1, <1>2
    <2> QED BY <1>1, <1>2, <2>1, <2>2
  <1>4. (a + b) % m = s
    <2>1. q + p \in Int
      BY <1>1, <1>2
    <2> QED BY <1>2, <1>3, <2>1, ModUnique
  <1>5. ((a % m) + b) % m = s
    BY Zenon DEF r, s
  <1> QED BY <1>4, <1>5, Zenon

\* How far free_frames is ahead of the bitmap in the middle of a call.
Owed(x) ==
  IF pc[x] \in {"set", "store"} THEN i[x]
  ELSE IF pc[x] \in {"sub", "sub2"} THEN req[x].n
  ELSE IF pc[x] \in {"inc", "inc2"} THEN -1 ELSE 0

Counted(x) == freeFrames = ((Cardinality(clear) - BitmapPages) + Owed(x)) % 2^Width

\* The frames the call of x has set or has still to clear.
Call(x) == IF pc[x] \in Setting \cup Clearing THEN Mine(x) ELSE {}

AllHeld == UNION {BlockFrames(b) : b \in UNION {held[y] : y \in Context}}

Whole(x) ==
  Released \cup Bitmap \subseteq ((clear \cup dropped) \cup AllHeld) \cup Call(x)

\* A loop that gives frames back has given back those before the one it is at;
\* the counter a call has loaded is up to date.
Loop(x) ==
  /\ pc[x] \in Clearing => \A f \in Mine(x) : f < Frame(x) => f \in clear
  /\ pc[x] = "clr2" => Frame(x) \notin clear
  /\ pc[x] \in {"inc", "inc2"} => Frame(x) \in clear
  /\ pc[x] \in {"sub2", "inc2"} => count[x] = freeFrames

Resting(x) == \A y \in Context \ {x} : pc[y] = "idle"

KeptInv == fills = 0 /\ cuts = 0 =>
  \A x \in Context : Resting(x) => Whole(x) /\ Loop(x) /\ Counted(x)

CountInv == DOMAIN count = Context

LEMMA CountStep == CountInv /\ [Next]_vars => CountInv'
  <1> SUFFICES ASSUME CountInv, [Next]_vars PROVE CountInv'
    OBVIOUS
  <1>1. CASE UNCHANGED vars
    BY <1>1 DEF vars, CountInv
  <1>2. ASSUME NEW x \in Context, NEW r \in Ask[x], Alloc(x, r)
        PROVE  CountInv'
    BY <1>2 DEF Alloc, Enter, CountInv
  <1>3. ASSUME NEW x \in Context, NEW b \in held[x], Free(x, b)
        PROVE  CountInv'
    BY <1>3 DEF Free, Enter, CountInv
  <1>4. ASSUME NEW x \in Context, NEW b \in held[x], FreeNothing(x, b) \/ Fill(x, b)
        PROVE  CountInv'
    BY <1>4 DEF FreeNothing, Fill, locals, CountInv
  <1>5. ASSUME NEW x \in Context, Step(x)
        PROVE  CountInv'
    <2>1. CASE Return(x)
      BY <2>1 DEF Return, CountInv
    <2>2. CASE Scan(x)
      BY <2>1, <2>2 DEF Scan, CountInv
    <2>3. CASE SubStore(x)
      BY <2>1, <2>3 DEF SubStore
    <2>4. CASE ClearLoad(x)
      BY <2>1, <2>4 DEF ClearLoad, NextFrame, CountInv
    <2>5. CASE IncStore(x)
      BY <2>1, <2>5 DEF IncStore, NextFrame, CountInv
    <2> QED BY <1>5, <2>2, <2>3, <2>4, <2>5
            DEF Step, Test, SetLoad, SetStore, SubLoad, ClearStore, IncLoad, CountInv
  <1> QED BY <1>1, <1>2, <1>3, <1>4, <1>5 DEF Next

LEMMA BitmapSize ==
  /\ IsFiniteSet(Frames) /\ BitmapPages \in Nat /\ BitmapStart \in Nat
  /\ IsFiniteSet(Bitmap) /\ Cardinality(Bitmap) = BitmapPages
  <1>1. Total \in Nat /\ PageSize \in Nat \ {0}
    BY TotalRight, ParameterAssumption
  <1>2. BitmapPages \in Nat
    <2> DEFINE a == ((Total + 63) \div 8 + PageSize) - 1
    <2>1. a \in Nat
      BY <1>1
    <2>2. a \div PageSize \in Nat
      <3> HIDE DEF a
      <3> QED BY <1>1, <2>1
    <2>3. BitmapPages = a \div PageSize
      <3>1. ((Total + 63) \div 8 + PageSize - 1) = a
        BY <1>1
      <3> HIDE DEF a
      <3> QED BY <3>1 DEF BitmapPages
    <2> QED BY <2>2, <2>3
  <1>3. BitmapStart \in Nat
    <2> DEFINE Large == {k \in Index : Descs[k].usable /\ Descs[k].pages >= BitmapPages}
    <2>1. Large # {} /\ Large \in SUBSET Nat
      BY BitmapAssumption, DescTypes
    <2>2. \E k \in Large : \A l \in Large : k <= l
      <3> HIDE DEF Large
      <3> QED BY <2>1, LeastNat
    <2>3. Min(Large) \in Large
      <3> HIDE DEF Large
      <3> QED BY <2>2 DEF Min
    <2> QED BY <2>3, DescTypes DEF BitmapDesc, BitmapStart
  <1>4. IsFiniteSet(Bitmap) /\ Cardinality(Bitmap) = BitmapPages
    <2> DEFINE e == (BitmapStart + BitmapPages) - 1
    <2>1. BitmapStart \in Int /\ e \in Int
      BY <1>2, <1>3
    <2>2. Bitmap = BitmapStart .. e
      BY <1>2, <1>3 DEF Bitmap
    <2>3. (IF BitmapStart > e THEN 0 ELSE (e - BitmapStart) + 1) = BitmapPages
      BY <1>2, <1>3
    <2> HIDE DEF e
    <2>4. /\ IsFiniteSet(BitmapStart .. e)
          /\ Cardinality(BitmapStart .. e)
               = IF BitmapStart > e THEN 0 ELSE e - BitmapStart + 1
      BY <2>1, FS_Interval
    <2>5. e - BitmapStart + 1 = (e - BitmapStart) + 1
      BY <2>1
    <2> QED BY <2>2, <2>3, <2>4, <2>5
  <1>5. IsFiniteSet(Frames)
    <2>1. 0 \in Int /\ Total - 1 \in Int
      BY <1>1
    <2> QED BY <2>1, FS_Interval DEF Frames
  <1> QED BY <1>2, <1>3, <1>4, <1>5

LEMMA KeptInit == Init => KeptInv
  <1> SUFFICES ASSUME Init, NEW x \in Context PROVE Whole(x) /\ Loop(x) /\ Counted(x)
    BY DEF KeptInv
  <1>1. pc[x] = "idle" /\ clear = Bitmap \cup Released
    BY DEF Init
  <1>2. Whole(x)
    BY <1>1 DEF Whole
  <1>3. Loop(x)
    BY <1>1 DEF Loop, Clearing
  <1>4. Released \cap Bitmap = {} /\ Released \ Bitmap = Released
    <2>1. \A f \in Bitmap : ~(f >= BitmapStart + BitmapPages)
      BY BitmapSize DEF Bitmap
    <2> QED BY <2>1 DEF Released
  <1>5. IsFiniteSet(Released)
    <2>1. Released \in SUBSET Frames
      BY MapRight DEF Released
    <2> QED BY <2>1, BitmapSize, FS_Subset
  <1>6. Cardinality(clear) = Cardinality(Bitmap) + Cardinality(Released)
    <2>1. Cardinality(Bitmap \cap Released) = 0
      <3>1. Bitmap \cap Released = {}
        BY <1>4
      <3> QED BY <3>1, FS_EmptySet, Zenon
    <2>2. Cardinality(Bitmap \cup Released)
            = Cardinality(Bitmap) + Cardinality(Released) - Cardinality(Bitmap \cap Released)
      BY <1>5, BitmapSize, FS_Union
    <2>3. Cardinality(Bitmap) \in Nat /\ Cardinality(Released) \in Nat
      BY <1>5, BitmapSize, FS_CardinalityType
    <2> QED BY <1>1, <2>1, <2>2, <2>3
  <1>7. (Cardinality(clear) - BitmapPages) + Owed(x) = Cardinality(Released)
    <2>1. Owed(x) = 0
      BY <1>1 DEF Owed
    <2>2. Cardinality(Released) \in Nat
      BY <1>5, FS_CardinalityType
    <2> QED BY <1>6, <2>1, <2>2, BitmapSize
  <1>8. Counted(x)
    BY <1>4, <1>7 DEF Counted, Init
  <1> QED BY <1>2, <1>3, <1>8

LEMMA IdleKept ==
  ASSUME NEW x \in Context, Others(x), Resting(x), Whole(x)', Loop(x)', Counted(x)'
  PROVE  KeptInv'
  <1> SUFFICES ASSUME NEW y \in Context, Resting(y)'
               PROVE  (Whole(y) /\ Loop(y) /\ Counted(y))'
    BY DEF KeptInv
  <1>1. CASE y = x
    BY <1>1
  <1>2. CASE y # x
    <2>1. pc'[y] = "idle" /\ pc'[x] = "idle"
      BY <1>2 DEF Resting, Others
    <2>2. Call(y)' = Call(x)' /\ Owed(y)' = Owed(x)'
      BY <2>1 DEF Call, Owed, Setting, Clearing
    <2>3. Whole(y)'
      BY <2>2 DEF Whole
    <2>4. Loop(y)'
      BY <2>1 DEF Loop, Clearing
    <2>5. Counted(y)'
      BY <2>2 DEF Counted
    <2> QED BY <2>3, <2>4, <2>5
  <1> QED BY <1>1, <1>2

\* A step that touches neither the bitmap nor the counter nor a block.
LEMMA StillKept ==
  ASSUME NEW x \in Context, Others(x), Resting(x), Whole(x), Counted(x),
         UNCHANGED <<clear, freeFrames, held, dropped>>,
         Call(x) \subseteq Call(x)', Owed(x)' = Owed(x), Loop(x)'
  PROVE  KeptInv'
  <1>1. AllHeld' = AllHeld
    BY DEF AllHeld
  <1>2. Whole(x)'
    BY <1>1 DEF Whole
  <1>3. Counted(x)'
    BY DEF Counted
  <1> QED BY <1>2, <1>3, IdleKept

\* What the counter becomes when a call settles what it owes.
LEMMA CountedOn ==
  ASSUME NEW a \in Int, NEW b \in Int, NEW c, c = a % 2^Width
  PROVE  (c + b) % 2^Width = (a + b) % 2^Width
  BY ParameterAssumption, ModAdd

LEMMA KeptStep ==
  TypeInv /\ PosInv /\ ReservedInv /\ ApartInv /\ CountInv /\ KeptInv /\ [Next]_vars => KeptInv'
  <1> SUFFICES ASSUME TypeInv, PosInv, ReservedInv, ApartInv, CountInv, KeptInv, [Next]_vars,
                      fills' = 0, cuts' = 0
               PROVE  KeptInv'
    BY DEF KeptInv
  <1>1. CASE UNCHANGED vars
    BY <1>1 DEF vars, KeptInv, Resting, Whole, AllHeld, Call, Loop, Counted, Owed, Mine, Frame
  <1>2. ASSUME NEW x \in Context, NEW r \in Ask[x], Alloc(x, r)
        PROVE  KeptInv'
    <2>1. /\ Others(x) /\ fills = 0 /\ pc[x] = "idle" /\ pc'[x] = "scan"
          /\ UNCHANGED <<clear, freeFrames, held, dropped>> /\ cuts = 0 /\ Resting(x)
      BY <1>2, AllocRight, EnterRight DEF Alloc, Resting
    <2>2. Whole(x) /\ Counted(x)
      BY <2>1 DEF KeptInv
    <2>3. Call(x) \subseteq Call(x)' /\ Owed(x)' = Owed(x) /\ Loop(x)'
      BY <2>1 DEF Call, Owed, Loop, Setting, Clearing
    <2> QED BY <2>1, <2>2, <2>3, StillKept
  <1>3. ASSUME NEW x \in Context, NEW b \in held[x], Free(x, b)
        PROVE  KeptInv'
    <2>1. /\ Others(x) /\ fills = 0 /\ pc[x] = "idle" /\ pc'[x] = "clr" /\ b \in Block
          /\ idx'[x] = b.base /\ req'[x].n = b.n /\ i'[x] = 0
          /\ held' = [held EXCEPT ![x] = @ \ {b}]
          /\ UNCHANGED <<clear, freeFrames, dropped>> /\ cuts = 0 /\ Resting(x)
      BY <1>3, FreeRight, EnterRight DEF Free, Resting
    <2>2. Whole(x) /\ Counted(x)
      BY <2>1 DEF KeptInv
    <2>3. Call(x)' = BlockFrames(b)
      BY <2>1 DEF Call, Mine, Setting, Clearing, BlockFrames
    <2>4. Call(x) = {} /\ Owed(x) = 0 /\ Owed(x)' = 0
      BY <2>1 DEF Call, Owed, Setting, Clearing
    <2>5. Whole(x)'
      <3>1. \A y \in Context : held[y] \subseteq held'[y] \cup {b}
        BY <2>1 DEF TypeInv
      <3>2. AllHeld \subseteq AllHeld' \cup BlockFrames(b)
        BY <3>1 DEF AllHeld
      <3> QED BY <2>1, <2>2, <2>3, <2>4, <3>2 DEF Whole
    <2>6. Loop(x)'
      <3>1. b.base \in Nat /\ b.n \in Nat
        BY <2>1 DEF Block
      <3>2. Mine(x)' = b.base .. b.base + b.n - 1 /\ Frame(x)' = b.base + 0
        BY <2>1 DEF Mine, Frame, Setting, Clearing
      <3>3. \A f \in Mine(x)' : ~(f < Frame(x)')
        BY <3>1, <3>2
      <3> QED BY <2>1, <3>3 DEF Loop
    <2>7. Counted(x)'
      BY <2>1, <2>2, <2>4 DEF Counted
    <2> QED BY <2>1, <2>5, <2>6, <2>7, IdleKept
  <1>4. ASSUME NEW x \in Context, NEW b \in held[x], FreeNothing(x, b) \/ Fill(x, b)
        PROVE  KeptInv'
    <2>1. /\ fills = 0 /\ held' = [held EXCEPT ![x] = @ \ {b}]
          /\ dropped' = dropped \cup BlockFrames(b)
          /\ UNCHANGED <<clear, freeFrames, pc, req, idx, i, word, count, cuts>>
      BY <1>4 DEF FreeNothing, Fill, locals, TypeInv
    <2>2. \A y \in Context : held[y] \subseteq held'[y] \cup {b}
      BY <2>1 DEF TypeInv
    <2>3. AllHeld \subseteq AllHeld' \cup BlockFrames(b)
      BY <2>2 DEF AllHeld
    <2> SUFFICES ASSUME NEW y \in Context, Resting(y)'
                 PROVE  (Whole(y) /\ Loop(y) /\ Counted(y))'
      BY DEF KeptInv
    <2>4. Whole(y) /\ Loop(y) /\ Counted(y)
      BY <2>1 DEF KeptInv, Resting
    <2>5. Call(y)' = Call(y) /\ Owed(y)' = Owed(y)
      BY <2>1 DEF Call, Mine, Frame, Owed
    <2>6. Whole(y)'
      BY <2>1, <2>3, <2>4, <2>5 DEF Whole
    <2>7. Loop(y)'
      BY <2>1, <2>4 DEF Loop, Mine, Frame
    <2>8. Counted(y)'
      BY <2>1, <2>4, <2>5 DEF Counted
    <2> QED BY <2>6, <2>7, <2>8
  <1>5. ASSUME NEW x \in Context, Step(x)
        PROVE  KeptInv'
    <2>0. Others(x) /\ UNCHANGED <<fills, cuts>> /\ pc[x] # "idle"
      BY <1>5, ScanRight, TestRight, SetLoadRight, SetStoreRight, SubLoadRight,
         SubStoreRight, ClearLoadRight, ClearStoreRight, IncLoadRight, IncStoreRight
         DEF Step
    <2>a. CallApart(x) /\ Resting(x)
      BY <2>0 DEF ApartInv, Alone, Resting
    <2>b. Whole(x) /\ Loop(x) /\ Counted(x)
      BY <2>0, <2>a DEF KeptInv
    <2>c. clear \subseteq Frames /\ IsFiniteSet(clear) /\ Cardinality(clear) \in Nat
      <3>1. clear \in SUBSET Frames
        BY <2>0, MapRight DEF ReservedInv
      <3> QED BY <3>1, BitmapSize, FS_Subset, FS_CardinalityType
    <2>d. /\ idx[x] \in Nat /\ i[x] \in Nat /\ req[x].n \in Nat
          /\ BitmapPages \in Nat
      BY BitmapSize DEF TypeInv, Request
    <2>1. CASE Scan(x)
      <3>1. UNCHANGED <<clear, freeFrames, held, dropped>>
        BY <2>1 DEF Scan
      <3>2. pc[x] = "scan" /\ pc'[x] \in {"idle", "test"}
        BY <2>1, ScanRight
      <3>3. Call(x) \subseteq Call(x)' /\ Owed(x)' = Owed(x) /\ Loop(x)'
        BY <3>2 DEF Call, Owed, Loop, Setting, Clearing
      <3> QED BY <2>0, <2>a, <2>b, <3>1, <3>3, StillKept
    <2>2. CASE Test(x)
      <3>1. UNCHANGED <<clear, freeFrames, held, dropped>>
        BY <2>2 DEF Test
      <3>2. /\ pc[x] = "test"
            /\ pc'[x] \in {"test", "scan"} \/ (pc'[x] = "set" /\ i'[x] = 0)
        BY <2>2, TestRight
      <3>3. Call(x) \subseteq Call(x)' /\ Owed(x)' = Owed(x) /\ Loop(x)'
        BY <3>2 DEF Call, Owed, Loop, Setting, Clearing
      <3> QED BY <2>0, <2>a, <2>b, <3>1, <3>3, StillKept
    <2>3. CASE SetLoad(x)
      <3>1. UNCHANGED <<clear, freeFrames, held, dropped>>
        BY <2>3 DEF SetLoad
      <3>2. pc[x] = "set" /\ pc'[x] = "store" /\ UNCHANGED <<req, idx, i>>
        BY <2>3, SetLoadRight
      <3>3. Call(x) \subseteq Call(x)' /\ Owed(x)' = Owed(x) /\ Loop(x)'
        BY <3>2, MineKept DEF Call, Owed, Loop, Setting, Clearing
      <3> QED BY <2>0, <2>a, <2>b, <3>1, <3>3, StillKept
    <2>4. CASE SetStore(x)
      <3>1. UNCHANGED <<freeFrames, held, dropped>>
        BY <2>4 DEF SetStore
      <3>2. /\ pc[x] = "store" /\ UNCHANGED <<req, idx>>
            /\ \/ i[x] + 1 = req[x].n /\ pc'[x] = "sub"
               \/ pc'[x] = "set" /\ i'[x] = i[x] + 1
        BY <2>4, SetStoreRight
      <3>3. Frame(x) \in Mine(x) /\ Frame(x) \in clear /\ clear' = clear \ {Frame(x)}
        BY <2>4, <2>a, <2>c, SetStoreClear
      <3>4. Call(x) = Mine(x) /\ Call(x)' = Mine(x)
        BY <3>2, MineKept DEF Call, Setting, Clearing
      <3>5. Whole(x)'
        <4>1. AllHeld' = AllHeld
          BY <3>1 DEF AllHeld
        <4> QED BY <2>b, <3>1, <3>3, <3>4, <4>1 DEF Whole
      <3>6. Loop(x)'
        BY <3>2 DEF Loop, Clearing
      <3>7. Counted(x)'
        <4>1. Cardinality(clear') = Cardinality(clear) - 1
          BY <2>c, <3>3, FS_RemoveElement
        <4>2. Owed(x) = i[x] /\ Owed(x)' = i[x] + 1
          BY <3>2 DEF Owed
        <4>3. (Cardinality(clear') - BitmapPages) + Owed(x)'
                = (Cardinality(clear) - BitmapPages) + Owed(x)
          BY <2>c, <2>d, <4>1, <4>2
        <4> QED BY <2>b, <3>1, <4>3 DEF Counted
      <3> QED BY <2>0, <2>a, <3>5, <3>6, <3>7, IdleKept
    <2>5. CASE SubLoad(x)
      <3>1. UNCHANGED <<clear, freeFrames, held, dropped>>
        BY <2>5 DEF SubLoad
      <3>2. pc[x] = "sub" /\ pc'[x] = "sub2" /\ UNCHANGED <<req, idx, i>>
        BY <2>5, SubLoadRight
      <3>3. count'[x] = freeFrames
        BY <2>5 DEF SubLoad, CountInv
      <3>4. Call(x) \subseteq Call(x)' /\ Owed(x)' = Owed(x) /\ Loop(x)'
        BY <3>1, <3>2, <3>3, MineKept DEF Call, Owed, Loop, Setting, Clearing
      <3> QED BY <2>0, <2>a, <2>b, <3>1, <3>4, StillKept
    <2>6. CASE SubStore(x)
      <3>1. UNCHANGED <<clear, dropped>> /\ freeFrames' = (count[x] - req[x].n) % 2^Width
        BY <2>6 DEF SubStore, Taken
      <3>2. /\ pc[x] = "sub2" /\ pc'[x] = "idle"
            /\ held' = [held EXCEPT ![x] = @ \cup {Got(x)}]
        BY <2>6, SubStoreRight
      <3>3. BlockFrames(Got(x)) = Call(x)
        BY <3>2 DEF Call, Mine, BlockFrames, Got, Setting, Clearing
      <3>4. Whole(x)'
        <4>1. held'[x] = held[x] \cup {Got(x)} /\ \A y \in Context \ {x} : held'[y] = held[y]
          BY <3>2 DEF TypeInv
        <4>2. AllHeld \cup BlockFrames(Got(x)) \subseteq AllHeld'
          BY <4>1 DEF AllHeld
        <4> QED BY <2>b, <3>1, <3>3, <4>2 DEF Whole
      <3>5. Loop(x)'
        BY <3>2 DEF Loop, Clearing
      <3>6. Counted(x)'
        <4> DEFINE a == (Cardinality(clear) - BitmapPages) + req[x].n
        <4>1. count[x] = a % 2^Width
          BY <2>b, <3>2 DEF Loop, Counted, Owed
        <4>2. a \in Int /\ 0 - req[x].n \in Int
          BY <2>c, <2>d
        <4>3. a + (0 - req[x].n) = (Cardinality(clear) - BitmapPages) + 0
          BY <2>c, <2>d
        <4> HIDE DEF a
        <4>4. (count[x] + (0 - req[x].n)) % 2^Width = (a + (0 - req[x].n)) % 2^Width
          BY <4>1, <4>2, CountedOn
        <4>5. count[x] + (0 - req[x].n) = count[x] - req[x].n
          <5>1. count[x] \in Int
            BY <4>1, <4>2, ParameterAssumption, ModDivides
          <5> QED BY <2>d, <5>1
        <4>6. Owed(x)' = 0
          BY <3>2 DEF Owed
        <4> QED BY <3>1, <4>3, <4>4, <4>5, <4>6 DEF Counted
      <3> QED BY <2>0, <2>a, <3>4, <3>5, <3>6, IdleKept
    <2>7. CASE ClearLoad(x)
      <3>1. /\ UNCHANGED <<clear, freeFrames, held, dropped>> /\ pc[x] = "clr"
            /\ Frame(x) \in clear \/ (Frame(x) \notin clear /\ pc'[x] = "clr2")
        BY <2>7 DEF ClearLoad, At, Goto, TypeInv
      <3>2. Owed(x) = 0 /\ Call(x) = Mine(x)
        BY <3>1 DEF Owed, Call, Clearing, Setting
      <3>3. CASE i[x] + 1 = req[x].n /\ pc'[x] = "idle"
        <4>1. Mine(x) \subseteq clear
          BY <2>b, <2>d, <3>1, <3>3 DEF Loop, Mine, Frame, Setting, Clearing
        <4>2. Whole(x)'
          <5>1. AllHeld' = AllHeld
            BY <3>1 DEF AllHeld
          <5> QED BY <2>b, <3>1, <3>2, <4>1, <5>1 DEF Whole
        <4>3. Owed(x)' = 0 /\ Loop(x)'
          BY <3>3 DEF Owed, Loop, Clearing
        <4>4. Counted(x)'
          BY <2>b, <3>1, <3>2, <4>3 DEF Counted
        <4> QED BY <2>0, <2>a, <4>2, <4>3, <4>4, IdleKept
      <3>4. CASE pc'[x] = "clr" /\ i'[x] = i[x] + 1 /\ UNCHANGED <<req, idx>>
        <4>1. Mine(x)' = Mine(x) /\ Call(x)' = Mine(x)
          BY <3>1, <3>4, MineKept DEF Call, Setting, Clearing
        <4>2. Owed(x)' = 0
          BY <3>4 DEF Owed
        <4>3. Loop(x)'
          <5>1. Frame(x)' = Frame(x) + 1 /\ Frame(x) \in Nat
            BY <2>d, <3>4 DEF Frame
          <5>2. Mine(x) \subseteq Nat
            BY <2>d, <3>1 DEF Mine, Setting, Clearing
          <5>3. \A f \in Mine(x) : f < Frame(x) => f \in clear
            BY <2>b, <3>1 DEF Loop, Clearing
          <5>4. Frame(x) \in clear
            BY <3>1, <3>4
          <5>5. \A f \in Mine(x)' : f < Frame(x)' => f \in clear'
            BY <3>1, <4>1, <5>1, <5>2, <5>3, <5>4
          <5> QED BY <3>4, <5>5 DEF Loop
        <4> QED BY <2>0, <2>a, <2>b, <3>1, <3>2, <4>1, <4>2, <4>3, StillKept
      <3>5. CASE pc'[x] = "clr2" /\ UNCHANGED <<req, idx, i>>
        <4>1. Mine(x)' = Mine(x) /\ Call(x)' = Mine(x) /\ Frame(x)' = Frame(x)
          BY <3>1, <3>5, MineKept DEF Call, Setting, Clearing, Frame
        <4>2. Owed(x)' = 0
          BY <3>5 DEF Owed
        <4>3. Frame(x) \notin clear
          BY <2>7, <3>1, <3>5 DEF ClearLoad, NextFrame, Return, Goto, TypeInv
        <4>4. Loop(x)'
          BY <2>b, <3>1, <3>5, <4>1, <4>3 DEF Loop, Clearing
        <4> QED BY <2>0, <2>a, <2>b, <3>1, <3>2, <4>1, <4>2, <4>4, StillKept
      <3> QED BY <2>7, <3>3, <3>4, <3>5, ClearLoadRight
    <2>8. CASE ClearStore(x)
      <3>1. UNCHANGED <<freeFrames, held, dropped>>
        BY <2>8 DEF ClearStore
      <3>2. pc[x] = "clr2" /\ pc'[x] = "inc" /\ UNCHANGED <<req, idx, i>>
        BY <2>8, ClearStoreRight
      <3>3. clear' = clear \cup {Frame(x)} /\ Frame(x) \notin clear
        BY <2>8, <2>a, <2>b, <3>2, ClearStoreClear DEF Loop
      <3>4. Mine(x)' = Mine(x) /\ Call(x) = Mine(x) /\ Call(x)' = Mine(x) /\ Frame(x)' = Frame(x)
        BY <3>2, MineKept DEF Call, Setting, Clearing, Frame
      <3>5. Whole(x)'
        <4>1. AllHeld' = AllHeld
          BY <3>1 DEF AllHeld
        <4> QED BY <2>b, <3>1, <3>3, <3>4, <4>1 DEF Whole
      <3>6. Loop(x)'
        BY <2>b, <3>2, <3>3, <3>4 DEF Loop, Clearing
      <3>7. Counted(x)'
        <4>1. Cardinality(clear') = Cardinality(clear) + 1
          BY <2>c, <3>3, FS_AddElement
        <4>2. Owed(x) = 0 /\ Owed(x)' = -1
          BY <3>2 DEF Owed
        <4>3. (Cardinality(clear') - BitmapPages) + Owed(x)'
                = (Cardinality(clear) - BitmapPages) + Owed(x)
          BY <2>c, <2>d, <4>1, <4>2
        <4> QED BY <2>b, <3>1, <4>3 DEF Counted
      <3> QED BY <2>0, <2>a, <3>5, <3>6, <3>7, IdleKept
    <2>9. CASE IncLoad(x)
      <3>1. UNCHANGED <<clear, freeFrames, held, dropped>>
        BY <2>9 DEF IncLoad
      <3>2. pc[x] = "inc" /\ pc'[x] = "inc2" /\ UNCHANGED <<req, idx, i>>
        BY <2>9, IncLoadRight
      <3>3. count'[x] = freeFrames
        BY <2>9 DEF IncLoad, CountInv
      <3>4. Mine(x)' = Mine(x) /\ Frame(x)' = Frame(x)
        BY <3>2, MineKept DEF Setting, Clearing, Frame
      <3>5. Call(x) \subseteq Call(x)' /\ Owed(x)' = Owed(x)
        BY <3>2, <3>4 DEF Call, Owed, Setting, Clearing
      <3>6. Loop(x)'
        BY <2>b, <3>1, <3>2, <3>3, <3>4 DEF Loop, Clearing
      <3> QED BY <2>0, <2>a, <2>b, <3>1, <3>5, <3>6, StillKept
    <2>10. CASE IncStore(x)
      <3>1. /\ UNCHANGED <<clear, held, dropped>> /\ freeFrames' = (count[x] + 1) % 2^Width
            /\ pc[x] = "inc2"
        BY <2>10 DEF IncStore, At
      <3>2. Owed(x) = -1 /\ Call(x) = Mine(x) /\ Frame(x) \in clear
        BY <2>b, <3>1 DEF Owed, Call, Loop, Clearing, Setting
      <3>3. pc'[x] \in {"idle", "clr"} /\ Owed(x)' = 0
        BY <2>10, IncStoreRight DEF Owed
      <3>4. Counted(x)'
        <4> DEFINE a == (Cardinality(clear) - BitmapPages) + (-1)
        <4>1. count[x] = a % 2^Width
          BY <2>b, <3>1, <3>2 DEF Loop, Counted
        <4>2. a \in Int /\ a + 1 = (Cardinality(clear) - BitmapPages) + 0
          BY <2>c, <2>d
        <4> HIDE DEF a
        <4>3. (count[x] + 1) % 2^Width = (a + 1) % 2^Width
          BY <4>1, <4>2, CountedOn
        <4> QED BY <3>1, <3>3, <4>2, <4>3 DEF Counted
      <3>5. \A f \in Mine(x) : f < Frame(x) => f \in clear
        BY <2>b, <3>1 DEF Loop, Clearing
      <3>6. AllHeld' = AllHeld
        BY <3>1 DEF AllHeld
      <3>7. CASE i[x] + 1 = req[x].n /\ pc'[x] = "idle"
        <4>1. Mine(x) \subseteq clear
          <5>1. Mine(x) = idx[x] .. idx[x] + req[x].n - 1
            BY <3>1 DEF Mine, Setting, Clearing
          <5>2. \A f \in Mine(x) : f < Frame(x) \/ f = Frame(x)
            BY <2>d, <3>7, <5>1 DEF Frame
          <5> QED BY <3>2, <3>5, <5>2
        <4>2. Whole(x)'
          BY <2>b, <3>1, <3>2, <3>6, <4>1 DEF Whole
        <4>3. Loop(x)'
          BY <3>7 DEF Loop, Clearing
        <4> QED BY <2>0, <2>a, <3>4, <4>2, <4>3, IdleKept
      <3>8. CASE pc'[x] = "clr" /\ i'[x] = i[x] + 1 /\ UNCHANGED <<req, idx>>
        <4>1. Mine(x)' = Mine(x) /\ Call(x)' = Mine(x)
          BY <3>1, <3>8, MineKept DEF Call, Setting, Clearing
        <4>2. Whole(x)'
          BY <2>b, <3>1, <3>2, <3>6, <4>1 DEF Whole
        <4>3. Loop(x)'
          <5>1. Frame(x)' = Frame(x) + 1 /\ Frame(x) \in Nat
            BY <2>d, <3>8 DEF Frame
          <5>2. Mine(x) \subseteq Nat
            BY <2>d, <3>1 DEF Mine, Setting, Clearing
          <5>3. \A f \in Mine(x)' : f < Frame(x)' => f \in clear'
            BY <3>1, <3>2, <3>5, <4>1, <5>1, <5>2
          <5> QED BY <3>8, <5>3 DEF Loop
        <4> QED BY <2>0, <2>a, <3>4, <4>2, <4>3, IdleKept
      <3> QED BY <2>10, <3>7, <3>8, IncStoreRight
    <2> QED BY <1>5, <2>1, <2>2, <2>3, <2>4, <2>5, <2>6, <2>7, <2>8, <2>9, <2>10 DEF Step
  <1> QED BY <1>1, <1>2, <1>3, <1>4, <1>5 DEF Next

-----------------------------------------------------------------------------
(* Theorems                                                                *)

IInv == TypeInv /\ PosInv /\ ReservedInv /\ DmaInv /\ ApartInv /\ CountInv /\ KeptInv

LEMMA SpecInv == Spec => []IInv
  <1>1. Init => IInv
    <2>1. Init => DmaInv
      BY DEF Init, DmaInv, Setting
    <2>2. Init => CountInv
      BY DEF Init, CountInv
    <2> QED BY <2>1, <2>2, InitType, ReservedInit, ApartInit, KeptInit DEF IInv
  <1>2. IInv /\ [Next]_vars => IInv'
    BY TypeStep, ReservedStep, DmaStep, ApartStep, CountStep, KeptStep DEF IInv
  <1> QED BY <1>1, <1>2, PTL DEF Spec

\* pmm_alloc_frames_above keeps its promise, whatever else goes wrong.
THEOREM DmaIsAbove == Spec => []DmaAbove
  <1>1. TypeInv /\ DmaInv => DmaAbove
    <2> SUFFICES ASSUME TypeInv, DmaInv, NEW p \in Held PROVE p[2].base >= p[2].min
      BY DEF DmaAbove
    <2>1. p[1] \in Context /\ p[2] \in held[p[1]]
      BY DEF Held, Blocks
    <2>2. p[2] \in Block /\ p[2].min <= p[2].base
      BY <2>1 DEF TypeInv, DmaInv
    <2> QED BY <2>2 DEF Block
  <1> QED BY SpecInv, <1>1, PTL DEF IInv

\* Calls that do not cut each other give every frame one owner at most, and its
\* bit is set.
THEOREM FramesHaveOneOwner == Spec => []FramesApart
  <1>1. ApartInv => FramesApart
    <2> SUFFICES ASSUME ApartInv, fills = 0, cuts = 0
                 PROVE  OneOwner
      BY DEF FramesApart
    <2>1. HeldApart
      BY DEF ApartInv
    <2>2. \A p \in Held : p[1] \in Context /\ p[2] \in held[p[1]] /\ p = <<p[1], p[2]>>
      BY DEF Held, Blocks
    <2>3. HeldFrames \cap clear = {}
      BY <2>1, <2>2 DEF HeldFrames, HeldApart
    <2>4. ASSUME NEW p \in Held, NEW q \in Held, p # q
          PROVE  BlockFrames(p[2]) \cap BlockFrames(q[2]) = {}
      <3>1. p[1] # q[1] \/ p[2] # q[2]
        BY <2>2, <2>4
      <3> QED BY <2>1, <2>2, <3>1 DEF HeldApart
    <2> QED BY <2>3, <2>4 DEF OneOwner
  <1> QED BY SpecInv, <1>1, PTL DEF IInv

\* Calls that do not cut each other lose no frame, and between calls free_frames
\* is the number of free bits short of the bitmap's own frames, however often it
\* has wrapped.
THEOREM NoFrameIsLost == Spec => []NoneLeaked
  <1>1. ReservedInv /\ ApartInv /\ KeptInv => NoneLeaked
    <2> SUFFICES ASSUME ReservedInv, ApartInv, KeptInv, fills = 0, cuts = 0
                 PROVE  /\ Released \cup Bitmap
                             \subseteq clear \cup HeldFrames \cup InFlight \cup dropped
                        /\ Quiet => freeFrames = (Cardinality(clear) - BitmapPages) % 2^Width
      BY DEF NoneLeaked
    <2>1. PICK x \in Context : Resting(x)
      <3>1. "thread" \in Context /\ Alone
        BY DEF ApartInv, Context
      <3>2. CASE pc["irq"] = "idle"
        BY <3>1, <3>2 DEF Resting, Context
      <3>3. CASE pc["irq"] # "idle"
        BY <3>1, <3>3 DEF Resting, Context, Alone
      <3> QED BY <3>2, <3>3
    <2>2. Whole(x) /\ Counted(x)
      BY <2>1 DEF KeptInv
    <2>3. AllHeld \subseteq HeldFrames
      <3> SUFFICES ASSUME NEW y \in Context, NEW b \in held[y]
                   PROVE  BlockFrames(b) \subseteq HeldFrames
        BY DEF AllHeld
      <3>1. <<y, b>> \in Held
        BY DEF Held, Blocks
      <3>2. <<y, b>>[2] = b
        OBVIOUS
      <3> QED BY <3>1, <3>2 DEF HeldFrames
    <2>4. Call(x) \subseteq InFlight
      BY DEF Call, Mine, InFlight, Setting, Clearing
    <2>5. ASSUME Quiet
          PROVE  freeFrames = (Cardinality(clear) - BitmapPages) % 2^Width
      <3>1. Owed(x) = 0
        BY <2>5 DEF Quiet, Owed
      <3>2. Cardinality(clear) - BitmapPages \in Int
        <4>1. clear \in SUBSET Frames
          BY MapRight DEF ReservedInv
        <4> QED BY <4>1, BitmapSize, FS_Subset, FS_CardinalityType
      <3>3. (Cardinality(clear) - BitmapPages) + Owed(x) = Cardinality(clear) - BitmapPages
        BY <3>1, <3>2
      <3> QED BY <2>2, <3>3 DEF Counted
    <2> QED BY <2>2, <2>3, <2>4, <2>5 DEF Whole
  <1> QED BY SpecInv, <1>1, PTL DEF IInv
=============================================================================
