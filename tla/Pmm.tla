-------------------------------- MODULE Pmm --------------------------------
(***************************************************************************)
(* The physical frame allocator of MemoryControl.c: a bitmap with a clear  *)
(* bit for every free frame, and the counter free_frames.                  *)
(*                                                                         *)
(* Its spinlock is empty.  Two contexts call it: a kernel thread, and what *)
(* the timer interrupt runs (the file manager and the disk drivers), which *)
(* may arrive between any two memory accesses of the thread and then runs  *)
(* to its end.  The build is -O0, so words[w] |= bit and free_frames -= n  *)
(* are a load and a store each.                                            *)
(*                                                                         *)
(* The frames the bitmap itself occupies are handed out like any other.    *)
(* The first caller, vmm_init, makes the frame it gets its page table:     *)
(* Fill is one of its stores.  The allocator goes on, with whatever bits   *)
(* the owner has put there; only DmaAbove survives that, and the other     *)
(* properties speak of the time before it.                                 *)
(***************************************************************************)
EXTENDS Integers, Sequences, FiniteSets, FiniteSetsExt

Context == {"thread", "irq"}

CONSTANTS
  Descs,     \* the EFI memory map: records [start, pages, usable], in frames
  PageSize,  \* PAGE_SIZE, in bytes
  WordBits,  \* bits of a word of the bitmap
  Width,     \* bits of free_frames
  MaxCuts,   \* bound on the interrupts that call in the middle of a call
  MaxFills,  \* bound on the stores of a caller into the bitmap
  Ask        \* what each context asks for: records [n, align, min], in frames

ASSUME MapAssumption ==
  /\ Descs \in Seq([start : Nat, pages : Nat, usable : BOOLEAN])
  /\ Descs # <<>>

ASSUME ParameterAssumption ==
  /\ PageSize \in Nat \ {0} /\ WordBits \in Nat \ {0} /\ Width \in Nat
  /\ 2^Width \in Nat \ {0}  \* as for every natural; the provers do not know it
  /\ MaxCuts \in Nat /\ MaxFills \in Nat
  /\ Ask \in [Context -> SUBSET [n : Nat \ {0}, align : Nat \ {0}, min : Nat]]

VARIABLES
  clear,      \* the frames whose bit in g_pmm.words is 0
  freeFrames, \* g_pmm.free_frames
  held,       \* the blocks each context was given and has not given back
  pc,         \* where each context is
  req,        \* what it asked for: count, align and the least frame
  idx,        \* its local idx, then aligned
  i,          \* its loop counter
  word, count,\* the word of the bitmap, or free_frames, it has loaded
  cuts,       \* history: interrupts that have called in the middle of a call
  dropped,    \* history: the frames of a block given back at address 0
  fills       \* history: stores of callers into the bitmap

locals == <<pc, req, idx, i, word, count>>
vars == <<clear, freeFrames, held, pc, req, idx, i, word, count, cuts, dropped, fills>>

-----------------------------------------------------------------------------
(* pmm_init_from_efi                                                       *)

End(d)  == d.start + d.pages
Span(d) == d.start .. End(d) - 1
Index   == DOMAIN Descs

Total  == Max({End(Descs[k]) : k \in Index})
Frames == 0 .. Total - 1
Usable == UNION {Span(Descs[k]) : k \in {j \in Index : Descs[j].usable}}

BitmapPages == ((Total + 63) \div 8 + PageSize - 1) \div PageSize

\* Without room for the bitmap pmm_init_from_efi fails and nothing is allocated.
ASSUME BitmapAssumption ==
  \E k \in Index : Descs[k].usable /\ Descs[k].pages >= BitmapPages

\* efi_find_bitmap_region: the first descriptor that is large enough.
BitmapDesc == Min({k \in Index : Descs[k].usable /\ Descs[k].pages >= BitmapPages})
BitmapStart == Descs[BitmapDesc].start
Bitmap == BitmapStart .. BitmapStart + BitmapPages - 1

\* The frames the last loop frees: those below the bitmap never are.
Released == {f \in Usable : f >= BitmapStart + BitmapPages}

NoRequest == [n |-> 1, align |-> 1, min |-> 0]

Init ==
  /\ clear = Bitmap \cup Released
  /\ freeFrames = Cardinality(Released \ Bitmap) % 2^Width
  /\ held = [x \in Context |-> {}]
  /\ pc = [x \in Context |-> "idle"]
  /\ req = [x \in Context |-> NoRequest]
  /\ idx = [x \in Context |-> 0] /\ i = [x \in Context |-> 0]
  /\ word = [x \in Context |-> {}] /\ count = [x \in Context |-> 0]
  /\ cuts = 0 /\ dropped = {} /\ fills = 0

-----------------------------------------------------------------------------
(* pmm_alloc_frames and pmm_alloc_frames_above, which differ in the least  *)
(* frame only                                                              *)

AlignUp(f, a) == ((f + a - 1) \div a) * a
WordOf(f) == {g \in Frames : g \div WordBits = f \div WordBits}

\* An interrupt handler runs to its end before the thread goes on.
Turn(x) == x = "irq" \/ pc["irq"] = "idle"
At(x, p) == pc[x] = p /\ Turn(x)
Goto(x, p) == pc' = [pc EXCEPT ![x] = p]
Enter(x, p) ==
  /\ At(x, "idle") /\ Goto(x, p)
  /\ IF \E y \in Context \ {x} : pc[y] # "idle"
       THEN cuts < MaxCuts /\ cuts' = cuts + 1
       ELSE UNCHANGED cuts

\* The call returns: its locals are dead.
Return(x) ==
  /\ Goto(x, "idle")
  /\ req' = [req EXCEPT ![x] = NoRequest]
  /\ idx' = [idx EXCEPT ![x] = 0] /\ i' = [i EXCEPT ![x] = 0]
  /\ word' = [word EXCEPT ![x] = {}] /\ count' = [count EXCEPT ![x] = 0]

Frame(x) == idx[x] + i[x]

Last(x) == i[x] + 1 = req[x].n

Alloc(x, r) ==
  /\ Enter(x, "scan")
  /\ req' = [req EXCEPT ![x] = r]
  /\ idx' = [idx EXCEPT ![x] = r.min]
  /\ UNCHANGED <<clear, freeFrames, held, i, word, count, dropped, fills>>

\* The aligned candidate pmm_find_next_zero leads to, if any.
Candidates(x) == {f \in clear : f >= idx[x]}
Aligned(x) == AlignUp(Min(Candidates(x)), req[x].align)
Found(x) ==
  /\ idx[x] + req[x].n <= Total
  /\ Candidates(x) # {}
  /\ Aligned(x) + req[x].n <= Total

\* The call fails, or a candidate is found.
Scan(x) ==
  /\ At(x, "scan")
  /\ \/ ~Found(x) /\ Return(x)
     \/ /\ Found(x) /\ Goto(x, "test")
        /\ idx' = [idx EXCEPT ![x] = Aligned(x)]
        /\ i' = [i EXCEPT ![x] = 0]
        /\ UNCHANGED <<req, word, count>>
  /\ UNCHANGED <<clear, freeFrames, held, cuts, dropped, fills>>

\* Mutants of Ready and Restart: only the first frame is tested; the search
\* starts again from frame 0.
ReadyFirst(x) == Frame(x) \in clear
RestartLow(x) == 0

\* Whether the last test of the candidate has succeeded; where the search
\* goes on after a busy frame.
Ready(x)   == Frame(x) \in clear /\ Last(x)
Restart(x) == idx[x] + req[x].n

Test(x) ==
  /\ At(x, "test")
  /\ \/ /\ Ready(x)
        /\ Goto(x, "set") /\ i' = [i EXCEPT ![x] = 0] /\ UNCHANGED idx
     \/ /\ ~Ready(x) /\ Frame(x) \in clear
        /\ i' = [i EXCEPT ![x] = @ + 1] /\ UNCHANGED <<pc, idx>>
     \/ /\ Frame(x) \notin clear
        /\ Goto(x, "scan") /\ idx' = [idx EXCEPT ![x] = Restart(x)]
        /\ UNCHANGED i
  /\ UNCHANGED <<clear, freeFrames, held, req, word, count, cuts, dropped, fills>>

\* pmm_set is a load and a store of the word.
SetLoad(x) ==
  /\ At(x, "set") /\ Goto(x, "store")
  /\ word' = [word EXCEPT ![x] = clear \cap WordOf(Frame(x))]
  /\ UNCHANGED <<clear, freeFrames, held, req, idx, i, count, cuts, dropped, fills>>

SetStore(x) ==
  /\ At(x, "store")
  /\ clear' = (clear \ WordOf(Frame(x))) \cup (word[x] \ {Frame(x)})
  /\ IF Last(x) THEN Goto(x, "sub") /\ UNCHANGED i
                ELSE Goto(x, "set") /\ i' = [i EXCEPT ![x] = @ + 1]
  /\ UNCHANGED <<freeFrames, held, req, idx, word, count, cuts, dropped, fills>>

SubLoad(x) ==
  /\ At(x, "sub") /\ Goto(x, "sub2")
  /\ count' = [count EXCEPT ![x] = freeFrames]
  /\ UNCHANGED <<clear, freeFrames, held, req, idx, i, word, cuts, dropped, fills>>

Taken(x) == req[x].n

SubStore(x) ==
  /\ At(x, "sub2") /\ Return(x)
  /\ freeFrames' = (count[x] - Taken(x)) % 2^Width
  /\ held' = [held EXCEPT ![x] =
                @ \cup {[base |-> idx[x], n |-> req[x].n, min |-> req[x].min]}]
  /\ UNCHANGED <<clear, cuts, dropped, fills>>

-----------------------------------------------------------------------------
(* pmm_free_frames                                                         *)

BlockFrames(b) == b.base .. b.base + b.n - 1

\* A context gives back a block it holds.
Free(x, b) ==
  /\ b.base # 0 /\ Enter(x, "clr")
  /\ held' = [held EXCEPT ![x] = @ \ {b}]
  /\ req' = [req EXCEPT ![x].n = b.n]
  /\ idx' = [idx EXCEPT ![x] = b.base]
  /\ UNCHANGED <<clear, freeFrames, i, word, count, dropped, fills>>

\* Address 0 is taken for a failed allocation: nothing is freed.
FreeNothing(x, b) ==
  /\ b.base = 0 /\ At(x, "idle")
  /\ held' = [held EXCEPT ![x] = @ \ {b}]
  /\ dropped' = dropped \cup BlockFrames(b)
  /\ UNCHANGED <<clear, freeFrames, locals, cuts, fills>>

\* Mutant of Through: the last frame of a block is never freed.
ThroughShort(x) == i[x] + 2 >= req[x].n

Through(x) == Last(x)

NextFrame(x) ==
  \/ Through(x) /\ Return(x)
  \/ /\ ~Through(x) /\ Goto(x, "clr")
     /\ i' = [i EXCEPT ![x] = @ + 1]
     /\ UNCHANGED <<req, idx, word, count>>

\* The bit is tested and its word loaded; a frame that is free is skipped.
ClearLoad(x) ==
  /\ At(x, "clr")
  /\ \/ Frame(x) \in clear /\ NextFrame(x)
     \/ /\ Frame(x) \notin clear /\ Goto(x, "clr2")
        /\ word' = [word EXCEPT ![x] = clear \cap WordOf(Frame(x))]
        /\ UNCHANGED <<req, idx, i, count>>
  /\ UNCHANGED <<clear, freeFrames, held, cuts, dropped, fills>>

ClearStore(x) ==
  /\ At(x, "clr2") /\ Goto(x, "inc")
  /\ clear' = (clear \ WordOf(Frame(x))) \cup word[x] \cup {Frame(x)}
  /\ UNCHANGED <<freeFrames, held, req, idx, i, word, count, cuts, dropped, fills>>

IncLoad(x) ==
  /\ At(x, "inc") /\ Goto(x, "inc2")
  /\ count' = [count EXCEPT ![x] = freeFrames]
  /\ UNCHANGED <<clear, freeFrames, held, req, idx, i, word, cuts, dropped, fills>>

IncStore(x) ==
  /\ At(x, "inc2") /\ NextFrame(x)
  /\ freeFrames' = (count[x] + 1) % 2^Width
  /\ UNCHANGED <<clear, held, cuts, dropped, fills>>

-----------------------------------------------------------------------------
(* A caller writes on a block that holds a part of the bitmap              *)

\* A store of the owner's own, of any value, into a word of the bitmap.
Fill(x, b) ==
  /\ fills < MaxFills /\ At(x, "idle")
  /\ \E f \in Frames :
       /\ BitmapStart + f \div (8 * PageSize) \in BlockFrames(b)
       /\ \E S \in SUBSET WordOf(f) : clear' = (clear \ WordOf(f)) \cup S
  /\ fills' = fills + 1
  /\ UNCHANGED <<freeFrames, held, locals, cuts, dropped>>

Step(x) ==
  \/ Scan(x) \/ Test(x) \/ SetLoad(x) \/ SetStore(x) \/ SubLoad(x)
  \/ SubStore(x) \/ ClearLoad(x) \/ ClearStore(x) \/ IncLoad(x) \/ IncStore(x)

Next ==
  \E x \in Context :
    \/ Step(x)
    \/ \E r \in Ask[x] : Alloc(x, r)
    \/ \E b \in held[x] : Free(x, b) \/ FreeNothing(x, b) \/ Fill(x, b)

Spec == Init /\ [][Next]_vars

-----------------------------------------------------------------------------
(* Properties                                                              *)

Blocks == {<<x, b>> : x \in Context, b \in UNION {held[y] : y \in Context}}
Held == {p \in Blocks : p[2] \in held[p[1]]}
HeldFrames == UNION {BlockFrames(p[2]) : p \in Held}
Quiet == \A x \in Context : pc[x] = "idle"

\* The frames a call in progress has set, or has still to clear.
InFlight ==
  UNION {IF pc[x] \in {"set", "store", "sub", "sub2", "clr", "clr2", "inc", "inc2"}
           THEN idx[x] .. idx[x] + req[x].n - 1 ELSE {} : x \in Context}

\* Every frame has one owner, and its bit is set.
OneOwner ==
  /\ HeldFrames \cap clear = {}
  /\ \A p, q \in Held : p # q => BlockFrames(p[2]) \cap BlockFrames(q[2]) = {}

\* A frame has one owner and its bit is set, unless an interrupt has called
\* in the middle of a call or a caller has written on the bitmap, which vmm_init
\* does with the first frame it is given.
FramesApart == fills = 0 /\ cuts = 0 => OneOwner

\* The empty spinlock's comment says that interrupts are off in the kernel.
\* They are not: a handler that calls in the middle of a call, as the file
\* manager and the drivers do from the timer tick, is given the frames the
\* thread has found and not yet set.
LockedByCli == fills = 0 => OneOwner

\* A frame that was free after boot is free, or held, or on its way: none is
\* lost but a block at address 0, which pmm_free_frames takes for no block.
\* free_frames counts the clear bits, short of the bitmap's own frames, which
\* nobody counted: it falls below 0, and wraps, when they are handed out.  Both
\* for calls that are not cut, and until a caller writes on the bitmap.
NoneLeaked == fills = 0 /\ cuts = 0 =>
  /\ Released \cup Bitmap \subseteq clear \cup HeldFrames \cup InFlight \cup dropped
  /\ Quiet => freeFrames = (Cardinality(clear) - BitmapPages) % 2^Width

\* pmm_alloc_frames_above promises frames "all of which are >= min_phys":
\* a DMA buffer never lies in the first megabyte, whatever interrupts cut and
\* whatever its owner has made of the bitmap.
DmaAbove == \A p \in Held : p[2].base >= p[2].min

=============================================================================
