------------------------------- MODULE UserMem -------------------------------
(***************************************************************************)
(* What user programs take of memory: brk, mmap and munmap, the regions of *)
(* shared memory (Syscall.c), and the loader of ELF programs (ELF64.c),    *)
(* over the page tables and the frames of MemoryControl.c.                 *)
(*                                                                         *)
(* There is one address space, one heap and one mmap area for all.  System *)
(* calls run with interrupts masked, and the loader runs inside execve or  *)
(* at boot, so a call is one step; the loader, which may fail at many      *)
(* places, is cut into stages nothing comes between.                       *)
(*                                                                         *)
(* An address is the number of its page, but the argument of brk is in     *)
(* bytes.  What pages hold and their permissions are left out.             *)
(***************************************************************************)
EXTENDS Integers, Sequences, FiniteSetsExt

CONSTANTS
  Frames,    \* page frames, 1 .. Frames
  Space,     \* pages of the whole address space: 2^w
  Limit,     \* USER_VIRT_LIMIT: the last page of user space
  Spans,     \* how many pages a table of each level covers, the top one first
  PageSize, HeapBase, HeapMax,  \* the heap's pages are HeapBase .. HeapMax - 1
  MmapBase, MmapLimit,          \* those mmap hands out: MmapBase .. MmapLimit - 1
  StackTop, StackPages, PieBase, MaxSegs,
  Programs,  \* the files: records [dyn, segs], see Segment
  Lengths,   \* how many pages are asked for; 0 is a length that wraps
  Fixed,     \* pages a caller may name
  Proc, Name, Regions,  \* processes, names and slots of shared memory
  MaxCalls   \* bound: how many calls take memory

Frame == 1 .. Frames
Page  == 0 .. Space - 1
Region == 1 .. Regions

\* A program header: where its pages lie, how many they are (none when p_memsz
\* is 0), and whether its sizes are refused.
Segment == [p : Page, n : Nat, bad : BOOLEAN]

ASSUME UserMemAssumption ==
  /\ {Frames, Space, MmapBase, MmapLimit, StackTop, StackPages, PieBase, MaxSegs,
      HeapBase, HeapMax, Regions} \subseteq Nat
  /\ Limit \in Page /\ HeapBase < HeapMax /\ HeapMax <= MmapBase /\ MmapLimit < Space
  /\ PageSize \in Nat \ {0} /\ Spans \in Seq(Nat \ {0})
  /\ Lengths \subseteq Nat /\ Fixed \subseteq Nat /\ IsFiniteSet(Proc)
  /\ Programs \subseteq [dyn : BOOLEAN, segs : Seq(Segment)]

VARIABLES
  mem,   \* the free frames, the tables, the entries, and whether the last
         \* walk found or made its tables
  brk, mapped,  \* g_brk_current, in bytes, and g_brk_mapped, in pages
  next,  \* g_mmap_next
  shm,   \* g_shm
  hold,  \* history: what each process has got of shared memory
  stolen, \* history: regions detached by one that had not attached them there
  stage, \* where the loader stands
  prog,  \* the file it loads
  img,   \* the image: [segs |-> blocks of frames, at |-> the next header]
  held,  \* what it has open: the file, the headers, the argument
  waiting, \* arguments of threads that have not begun to run
  heap, areas, live, \* history: frames granted to brk, to mmap, to programs
  calls  \* how many calls have taken memory

loader == <<stage, prog, img, held, waiting, live>>
vars == <<mem, brk, mapped, next, shm, hold, stolen, loader, heap, areas, calls>>

NoFrame == 0
NoRegion == [valid |-> FALSE, name |-> "", f |-> NoFrame, n |-> 0, ref |-> 0]
Nothing == [r |-> 0, va |-> -1]
NoImage == [segs |-> <<>>, at |-> 1]
NoProgram == [dyn |-> FALSE, segs |-> <<>>]

Init ==
  /\ mem = [free |-> Frame, tab |-> <<>>, pte |-> [p \in Page |-> NoFrame], ok |-> TRUE]
  /\ brk = HeapBase * PageSize /\ mapped = HeapBase /\ next = MmapBase
  /\ shm = [r \in Region |-> NoRegion]
  /\ hold = [x \in Proc |-> Nothing] /\ stolen = {}
  /\ stage = "idle" /\ prog = NoProgram /\ img = NoImage
  /\ held = {} /\ waiting = 0
  /\ heap = {} /\ areas = {} /\ live = {} /\ calls = 0

-----------------------------------------------------------------------------
(* Frames and page tables (MemoryControl.c)                                *)

Block(f, n) == f .. f + n - 1

\* pmm_alloc_frames: a taken frame in a candidate block skips the whole block.
FirstFit(free, n) ==
  LET scan[i \in 1 .. Frames + n + 1] ==
        LET above == {f \in free : f >= i}
            f == Min(above)
        IN IF above = {} \/ f + n - 1 > Frames THEN NoFrame
           ELSE IF Block(f, n) \subseteq free THEN f ELSE scan[f + n]
  IN IF n = 0 THEN NoFrame ELSE scan[1]

Taken(m, f, n) == [m EXCEPT !.free = @ \ Block(f, n)]
GivenBack(m, f, n) == [m EXCEPT !.free = @ \cup Block(f, n)]

\* One level of vmm_walk_table: the table that covers page p, made if missing.
Level(m, p, k) ==
  LET node == <<k, p \div Spans[k]>>
      f == FirstFit(m.free, 1)
  IN IF ~m.ok \/ node \in DOMAIN m.tab THEN m
     ELSE IF f = NoFrame THEN [m EXCEPT !.ok = FALSE]
     ELSE [Taken(m, f, 1) EXCEPT
             !.tab = [x \in DOMAIN @ \cup {node} |-> IF x = node THEN f ELSE @[x]]]

\* vmm_walk_table: the missing tables are made from the top; those made stay
\* when there is no frame for the next.
Walked(m, p) ==
  LET walk[k \in 0 .. Len(Spans)] ==
        IF k = 0 THEN [m EXCEPT !.ok = TRUE] ELSE Level(walk[k - 1], p, k)
  IN walk[Len(Spans)]

\* vmm_map_user, vmm_map
MapUser(m, p, f) ==
  IF p > Limit THEN [m EXCEPT !.ok = FALSE]
  ELSE LET w == Walked(m, p) IN IF w.ok THEN [w EXCEPT !.pte[p] = f] ELSE w

\* The loop around it stops at the first page that fails.
MapRange(m, p, f, n) ==
  LET map[k \in 0 .. n] ==
        IF k = 0 THEN [m EXCEPT !.ok = TRUE]
        ELSE IF ~map[k - 1].ok THEN map[k - 1]
        ELSE MapUser(map[k - 1], p + k - 1, f + k - 1)
  IN map[n]

\* vmm_unmap
Unmapped(m, p, n) == [m EXCEPT !.pte = [q \in Page |-> IF q \in Block(p, n) THEN NoFrame ELSE @[q]]]

\* The frames of a range that could not be mapped are given back; the entries
\* written so far stay.
Failed(m, f, n) == GivenBack(m, f, n)

\* Frames are taken and mapped: brk and mmap.  f is NoFrame when this fails.
Backed(p, n) ==
  LET f == FirstFit(mem.free, n)
      m == MapRange(Taken(mem, f, n), p, f, n)
  IN IF f = NoFrame THEN [m |-> mem, f |-> NoFrame]
     ELSE IF m.ok THEN [m |-> m, f |-> f]
     ELSE [m |-> [Failed(m, f, n) EXCEPT !.ok = TRUE], f |-> NoFrame]

-----------------------------------------------------------------------------
(* brk, mmap and munmap                                                    *)

Call == stage = "idle" /\ calls < MaxCalls /\ calls' = calls + 1

PageUp(b) == (b + PageSize - 1) \div PageSize

\* Mutant of Grows: new pages begin at the break, not behind the mapped ones.
GrowsFromBreak(b) ==
  [p |-> PageUp(brk), n |-> IF PageUp(b) > mapped THEN PageUp(b) - PageUp(brk) ELSE 0]

\* The pages brk has to map; it never unmaps any.
Grows(b) == [p |-> mapped, n |-> IF PageUp(b) > mapped THEN PageUp(b) - mapped ELSE 0]

Brk(b) ==
  LET g == Grows(b)
      got == Backed(g.p, g.n)
  IN /\ Call
     /\ HeapBase * PageSize <= b /\ b <= HeapMax * PageSize
     /\ IF g.n = 0
          THEN brk' = b /\ UNCHANGED <<mem, mapped, heap>>
          ELSE /\ mem' = got.m
               /\ IF got.f = NoFrame THEN UNCHANGED <<brk, mapped, heap>>
                  ELSE /\ brk' = b /\ mapped' = PageUp(b)
                       /\ heap' = heap \cup Block(got.f, g.n)
     /\ UNCHANGED <<next, shm, hold, stolen, loader, areas>>

\* mmap_bump_alloc: the sum wraps.
BumpEnd(n) == (next + n) % Space
NoArea(n) == BumpEnd(n) > MmapLimit

\* The address of an area: the one the caller insists on, or the next one.
Area(at, n) == IF at = 0 THEN next ELSE at
Bump(at, n) == next' = IF at = 0 THEN BumpEnd(n) ELSE next

\* An address is refused when it is beyond user space or nothing is left; an
\* area handed out is not taken back when the rest fails.
Refused(at, n) == IF at = 0 THEN NoArea(n) ELSE at > Limit

Mmap(at, n) ==
  LET got == Backed(Area(at, n), n)
  IN /\ Call /\ ~Refused(at, n) /\ Bump(at, n)
     /\ mem' = got.m
     /\ areas' = IF got.f = NoFrame THEN areas ELSE areas \cup Block(got.f, n)
     /\ UNCHANGED <<brk, mapped, shm, hold, stolen, loader, heap>>

\* With a file, the frames are taken before it is read; when seek or read
\* fails they are given back.  With a bad descriptor none are taken.
MmapUnread(at, n) ==
  LET f == FirstFit(mem.free, n)
  IN /\ Call /\ ~Refused(at, n) /\ Bump(at, n)
     /\ mem' = IF f = NoFrame THEN mem ELSE Failed(Taken(mem, f, n), f, n)
     /\ UNCHANGED <<brk, mapped, shm, hold, stolen, loader, heap, areas>>

\* Only the entries go; the frames stay taken for ever.  Bound: a caller stays
\* in user space.
Munmap(p, n) ==
  /\ stage = "idle" /\ p <= Limit /\ p + n <= Limit + 1
  /\ mem' = Unmapped(mem, p, n)
  /\ UNCHANGED <<brk, mapped, next, shm, hold, stolen, loader, heap, areas, calls>>

-----------------------------------------------------------------------------
(* Shared memory.  Bound: a process gets one region until it detaches it,  *)
(* and attaches it once.                                                   *)

\* Mutant of Referenced: finding a region does not count.
ReferencedOnce(r) == shm

\* Another holder of the region.
Referenced(r) == [shm EXCEPT ![r].ref = @ + 1]

ShmGet(x, name, n, create) ==
  LET named == {r \in Region : shm[r].valid /\ shm[r].name = name}
      unused == {r \in Region : ~shm[r].valid}
      f == FirstFit(mem.free, n)
  IN /\ Call /\ hold[x] = Nothing /\ n > 0
     /\ IF named # {}
          THEN /\ shm' = Referenced(Min(named))
               /\ hold' = [hold EXCEPT ![x].r = Min(named)]
               /\ UNCHANGED mem
          ELSE /\ create /\ unused # {} /\ f # NoFrame
               /\ shm' = [shm EXCEPT ![Min(unused)] =
                            [valid |-> TRUE, name |-> name, f |-> f, n |-> n, ref |-> 1]]
               /\ hold' = [hold EXCEPT ![x].r = Min(unused)]
               /\ mem' = Taken(mem, f, n)
     /\ UNCHANGED <<brk, mapped, next, stolen, loader, heap, areas>>

\* When a page cannot be mapped, those mapped before it stay.
ShmAt(x, at) ==
  LET s == shm[hold[x].r]
      hint == IF at <= Limit THEN at ELSE 0
      m == MapRange(mem, Area(hint, s.n), s.f, s.n)
  IN /\ stage = "idle" /\ hold[x].r # 0 /\ s.valid /\ hold[x].va = -1
     /\ ~Refused(hint, s.n) /\ Bump(hint, s.n)
     /\ mem' = [m EXCEPT !.ok = TRUE]
     /\ hold' = IF m.ok THEN [hold EXCEPT ![x].va = Area(hint, s.n)] ELSE hold
     /\ UNCHANGED <<brk, mapped, shm, stolen, loader, heap, areas, calls>>

\* Mutant of Emptied: the slot of a region that is freed is not cleared.
EmptiedNot(s) == s

\* What is left of a region without holders.
Emptied(s) == NoRegion

\* The code asks nobody whether he has attached the region, or where.
ShmDetach(x, r, va) ==
  LET s == [shm[r] EXCEPT !.ref = @ - 1]
      m == Unmapped(mem, va, s.n)
      own == hold[x] = [r |-> r, va |-> va]
  IN /\ stage = "idle" /\ shm[r].valid
     /\ hold' = IF own THEN [hold EXCEPT ![x] = Nothing] ELSE hold
     /\ stolen' = IF own THEN stolen ELSE stolen \cup {r}
     /\ IF s.ref = 0
          THEN mem' = GivenBack(m, s.f, s.n) /\ shm' = [shm EXCEPT ![r] = Emptied(s)]
          ELSE mem' = m /\ shm' = [shm EXCEPT ![r] = s]
     /\ UNCHANGED <<brk, mapped, next, loader, heap, areas, calls>>

-----------------------------------------------------------------------------
(* elf64_spawn and elf64_load                                              *)

Others == UNCHANGED <<brk, mapped, next, shm, hold, stolen, heap, areas>>

ImageFrames(i) == UNION {Block(i.segs[k].f, i.segs[k].n) : k \in DOMAIN i.segs}

\* Mutant of Freed: the number of segments is not yet in the image.
FreedNone(m, i) == m

\* elf64_free: the frames go back, the entries that lead to them stay.
Freed(m, i) == [m EXCEPT !.free = @ \cup ImageFrames(i)]

\* The load fails: what the error path at hand gives up, then elf64_spawn the
\* argument.
Abandon(m, paths) ==
  /\ stage' = "idle" /\ prog' = NoProgram /\ img' = NoImage
  /\ mem' = [Freed(m, img) EXCEPT !.ok = TRUE]
  /\ held' = held \ (paths \cup {"arg"})
  /\ UNCHANGED <<waiting, live>>

Goto(s, taken) == stage' = s /\ held' = held \cup taken

\* The argument is allocated (elf64_spawn) and the file opened.
Spawn(p) ==
  /\ Call /\ Goto("header", {"arg", "file"})
  /\ prog' = p
  /\ UNCHANGED <<mem, img, waiting, live>> /\ Others

\* The header is read; it may be short or refused, or there may be no room for
\* the program headers.
Header ==
  /\ stage = "header"
  /\ \/ Abandon(mem, {"file"})
     \/ Goto("headers", {"headers"}) /\ UNCHANGED <<mem, prog, img, waiting, live>>
  /\ Others /\ UNCHANGED calls

\* The program headers are read, unless that fails or they ask for a dynamic
\* linker.
Headers ==
  /\ stage = "headers"
  /\ \/ Abandon(mem, {"file", "headers"})
     \/ Goto("segments", {}) /\ UNCHANGED <<mem, prog, img, waiting, live>>
  /\ Others /\ UNCHANGED calls

Base == IF prog.dyn THEN PieBase ELSE 0
BadSegment(s) == Len(img.segs) >= MaxSegs \/ (s.n > 0 /\ s.bad)

\* A segment gets frames, its data are read into them, and they are mapped.
SegmentStep ==
  LET s == prog.segs[img.at]
      p == s.p + Base
      f == FirstFit(mem.free, s.n)
      t == Taken(mem, f, s.n)
      m == MapRange(t, p, f, s.n)
  IN /\ stage = "segments" /\ img.at <= Len(prog.segs)
     /\ \/ /\ BadSegment(s) \/ (s.n > 0 /\ f = NoFrame)
           /\ Abandon(mem, {"file", "headers"})
        \/ /\ ~BadSegment(s) /\ s.n = 0
           /\ img' = [img EXCEPT !.at = @ + 1]
           /\ UNCHANGED <<mem, stage, prog, held, waiting, live>>
        \/ /\ ~BadSegment(s) /\ f # NoFrame
           /\ \/ Abandon(GivenBack(t, f, s.n), {"file", "headers"})
              \/ ~m.ok /\ Abandon(GivenBack(m, f, s.n), {"file", "headers"})
              \/ /\ m.ok /\ mem' = m
                 /\ img' = [segs |-> Append(img.segs, [f |-> f, n |-> s.n]), at |-> img.at + 1]
                 /\ UNCHANGED <<stage, prog, held, waiting, live>>
     /\ Others /\ UNCHANGED calls

\* After the last segment file and headers are given up, then the stack is made.
Stack ==
  LET f == FirstFit(mem.free, StackPages)
      m == MapRange(Taken(mem, f, StackPages), StackTop - StackPages, f, StackPages)
  IN /\ stage = "segments" /\ img.at > Len(prog.segs)
     /\ \/ img.segs = <<>> /\ Abandon(mem, {"file", "headers"})
        \/ /\ img.segs # <<>> /\ f = NoFrame
           /\ Abandon(mem, {"file", "headers"})
        \/ /\ img.segs # <<>> /\ f # NoFrame /\ ~m.ok
           /\ Abandon(GivenBack(m, f, StackPages), {"file", "headers"})
        \/ /\ img.segs # <<>> /\ f # NoFrame /\ m.ok /\ mem' = m
           /\ img' = [img EXCEPT !.segs = Append(@, [f |-> f, n |-> StackPages])]
           /\ stage' = "thread" /\ held' = held \ {"file", "headers"}
           /\ UNCHANGED <<prog, waiting, live>>
     /\ Others /\ UNCHANGED calls

\* A thread for the program, or none is left.
Thread ==
  /\ stage = "thread"
  /\ \/ Abandon(mem, {})
     \/ /\ stage' = "idle" /\ prog' = NoProgram /\ img' = NoImage
        /\ held' = held \ {"arg"} /\ waiting' = waiting + 1 /\ live' = live \cup ImageFrames(img)
        /\ UNCHANGED mem
  /\ Others /\ UNCHANGED calls

\* user_entry_trampoline: the thread frees its argument, and nobody knows the
\* frames of the image any more.
Enter ==
  /\ stage = "idle" /\ waiting > 0
  /\ waiting' = waiting - 1
  /\ UNCHANGED <<mem, stage, prog, img, held, live, calls>> /\ Others

-----------------------------------------------------------------------------
Memory ==
  \/ \E b \in HeapBase * PageSize .. HeapMax * PageSize : Brk(b)
  \/ \E n \in Lengths, at \in Fixed : Mmap(at, n) \/ MmapUnread(at, n)
  \/ \E p \in Fixed, n \in Lengths : Munmap(p, n)

Shared ==
  \E x \in Proc :
    \/ \E name \in Name, n \in Lengths, create \in BOOLEAN : ShmGet(x, name, n, create)
    \/ \E at \in Fixed : ShmAt(x, at)
    \/ \E r \in Region, va \in Fixed \cup ({hold[x].va} \ {-1}) : ShmDetach(x, r, va)

Loader ==
  \/ \E p \in Programs : Spawn(p)
  \/ Header \/ Headers \/ SegmentStep \/ Stack \/ Thread \/ Enter

Next == Memory \/ Shared \/ Loader

Spec == Init /\ [][Next]_vars

-----------------------------------------------------------------------------
(* Properties                                                              *)

Tables == {mem.tab[t] : t \in DOMAIN mem.tab}
Shm(r) == IF shm[r].valid THEN Block(shm[r].f, shm[r].n) ELSE {}
Owners == <<mem.free, Tables, heap, areas, live, ImageFrames(img),
            UNION {Shm(r) : r \in Region}>>

\* A frame has one owner: it is free, or a page table, or was granted to brk,
\* to one mmap, to a region of shared memory or to one program.  No error path
\* gives a frame back that it does not have, and none is given back twice.
OwnedOnce ==
  \A j, k \in DOMAIN Owners : j # k => Owners[j] \cap Owners[k] = {}

\* When no program is being loaded, no frame is without an owner and neither
\* file nor headers nor argument are left over: a brk, mmap or load that fails
\* at any place, with pages mapped or not, gives back what it took.
NoneLost ==
  stage = "idle" => Frame = UNION {Owners[k] : k \in DOMAIN Owners} /\ held = {}

\* The heap takes one frame for each page below g_brk_mapped, however often the
\* break moves down and up again and growing fails, and the break stays within.
HeapPaid ==
  /\ Cardinality(heap) = mapped - HeapBase
  /\ brk <= mapped * PageSize

\* Shared memory a process has got is the same region until it detaches: it is
\* valid and its frames are not free, whatever the other holders do.  The slots
\* that somebody has taken a reference from that was not his are excepted:
\* sc_shm_detach does not ask, and frees the region under its holders.
AttachedKept ==
  \A x \in Proc : hold[x] # Nothing /\ hold[x].r \notin stolen =>
    /\ shm[hold[x].r].valid
    /\ Shm(hold[x].r) \cap mem.free = {}
    /\ shm[hold[x].r].ref = Cardinality({y \in Proc : hold[y].r = hold[x].r})
=============================================================================
