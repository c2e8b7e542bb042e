-------------------------------- MODULE Files --------------------------------
(***************************************************************************)
(* Descriptors: the table of Syscall.c (g_files), the table of VFS.c       *)
(* (g_fds) its entries point into, the nodes those hold, and the pipes     *)
(* (g_pipes).  There is one table of each for all programs; one file       *)
(* system is mounted, at "/".                                              *)
(*                                                                         *)
(* A system call runs with IF=0, so it is one step.  What a file holds and *)
(* where its offset stands are left out, so a call on an open file changes *)
(* nothing here: May... say when it is let through.  Names are those of the  *)
(* root directory; what FAT32.c does with a path further down is the same. *)
(***************************************************************************)
EXTENDS Integers, Sequences, FiniteSets, FiniteSetsExt, Functions

CONSTANTS
  Name,      \* names in the root directory
  ROOT,      \* the root directory itself
  Reserved,  \* how many descriptors stdin, stdout and stderr take (3)
  FdMax,     \* the last descriptor, SC_FD_MAX - 1
  SlotMax,   \* how many descriptors VFS.c gives out, VFS_MAX_FD - 3
  PipeMax,   \* PIPE_MAX
  PipeSize,  \* PIPE_BUF_SIZE
  Mode,      \* bound: the access modes asked for, of {"r", "w", "rw"}
  MaxSame,   \* bound: entries of one name in the directory
  MaxLost    \* bound: opens that find no slot

ASSUME TableAssumption ==
  /\ Reserved \in Nat /\ FdMax \in Nat /\ Reserved <= FdMax
  /\ SlotMax \in Nat /\ PipeMax \in Nat /\ PipeSize \in Nat
  /\ ROOT \notin Name /\ "free" \notin Name \cup {ROOT} /\ Mode \subseteq {"r", "w", "rw"}

VARIABLES
  tree,    \* the entries of each name, in the order of the directory
  files,   \* g_files
  slots,   \* g_fds: the node each holds
  pipes,   \* g_pipes
  refs,    \* references to the nodes of each name (refcount of ROOT)
  stuck,   \* a writer spins in sched_yield with IF=0
  opened,  \* history: the node and mode each descriptor was opened with
  cut,     \* history: a slot was closed under another descriptor
  lost     \* history: references of opens that found no slot

filesVars == <<tree, files, slots, pipes, refs, stuck, opened, cut, lost>>

Node == Name \cup {ROOT}
Fd == 0 .. FdMax
Slot == 1 .. SlotMax
NoSlot == 0
Free == "free"
Nobody == <<Free, "r">>

\* A descriptor: its slot, its access mode, whether another flag is set, and
\* the pipe it is an end of.
Closed == [open |-> FALSE, slot |-> NoSlot, mode |-> "r", more |-> FALSE,
           end |-> "none", pipe |-> 0]
File(s, mode, more) ==
  [open |-> TRUE, slot |-> s, mode |-> mode, more |-> more, end |-> "none", pipe |-> 0]
End(end, p) ==
  [open |-> TRUE, slot |-> NoSlot, mode |-> IF end = "read" THEN "r" ELSE "w",
   more |-> FALSE, end |-> end, pipe |-> p]
NoPipe == [valid |-> FALSE, write_closed |-> FALSE, read_closed |-> FALSE,
           count |-> 0]

FilesInit ==
  /\ tree \in [Name -> {<<>>, <<"file">>}]
  /\ files = [fd \in Fd |-> IF fd < Reserved
                            THEN File(NoSlot, IF fd = 0 THEN "r" ELSE "w", FALSE)
                            ELSE Closed]
  /\ slots = [s \in Slot |-> Free]
  /\ pipes = [p \in 1 .. PipeMax |-> NoPipe]
  /\ refs = [n \in Node |-> IF n = ROOT THEN 1 ELSE 0]
  /\ stuck = FALSE /\ cut = FALSE
  /\ opened = [fd \in Fd |-> Nobody]
  /\ lost = [n \in Node |-> 0]

-----------------------------------------------------------------------------
(* Opening                                                                 *)

FreeFds(from) == {fd \in Fd : fd >= from /\ ~files[fd].open}
FreeSlots == {s \in Slot : slots[s] = Free}
Used(s) == s # NoSlot /\ slots[s] # Free

\* The type of the node that a path leads to, "none" if there is none.
Type(t, n) == IF n = ROOT THEN "dir" ELSE IF t[n] = <<>> THEN "none" ELSE Head(t[n])

\* The directory after create: the entry may come before or behind one of
\* the same name.
Created(t, n, type) ==
  {[t EXCEPT ![n] = <<type>> \o @], [t EXCEPT ![n] = @ \o <<type>>]}

\* A node of the wrong type is released by vfs_open.
Dropped(r, n) == r

\* Mutant of FullTable: the descriptor of VFS.c stays open.
FullTableLeak(s, n) == [slots |-> [slots EXCEPT ![s] = n],
                        refs |-> [refs EXCEPT ![n] = @ + 1]]

\* With no descriptor left sc_open closes the one of VFS.c again.
FullTable(s, n) == [slots |-> slots, refs |-> refs]

Kept == UNCHANGED <<pipes, stuck, cut>>

Open(n, mode, more, create, dir) ==
  LET made == create /\ n # ROOT /\ Type(tree, n) = "none"
      type == IF made THEN IF dir THEN "dir" ELSE "file" ELSE Type(tree, n)
      s == Min(FreeSlots)
      fd == Min(FreeFds(Reserved))
  IN /\ ~stuck /\ (n = ROOT => ~create) /\ type # "none"
     /\ tree' \in IF made THEN Created(tree, n, type) ELSE {tree}
     /\ \/ /\ dir # (type = "dir")
           /\ refs' = Dropped(refs, n)
           /\ UNCHANGED <<files, slots, opened, lost>>
        \/ /\ dir = (type = "dir") /\ FreeSlots = {}
           /\ FoldFunction(+, 0, lost) < MaxLost
           /\ refs' = [refs EXCEPT ![n] = @ + 1]
           /\ lost' = [lost EXCEPT ![n] = @ + 1]
           /\ UNCHANGED <<files, slots, opened>>
        \/ /\ dir = (type = "dir") /\ FreeSlots # {} /\ FreeFds(Reserved) = {}
           /\ slots' = FullTable(s, n).slots /\ refs' = FullTable(s, n).refs
           /\ UNCHANGED <<files, opened, lost>>
        \/ /\ dir = (type = "dir") /\ FreeSlots # {} /\ FreeFds(Reserved) # {}
           /\ slots' = [slots EXCEPT ![s] = n]
           /\ refs' = [refs EXCEPT ![n] = @ + 1]
           /\ files' = [files EXCEPT ![fd] = File(s, mode, more)]
           /\ opened' = [opened EXCEPT ![fd] = <<n, mode>>]
           /\ UNCHANGED lost
     /\ Kept

\* vfs_mkdir does not look whether the name is taken.
Mkdir(n) ==
  /\ ~stuck /\ Len(tree[n]) < MaxSame
  /\ tree' \in Created(tree, n, "dir")
  /\ UNCHANGED <<files, slots, refs, opened, lost>> /\ Kept

\* vfs_rmdir is vfs_unlink: neither looks at the type, nor who has it open.
Unlink(n) ==
  /\ ~stuck /\ tree[n] # <<>>
  /\ tree' = [tree EXCEPT ![n] = Tail(@)]
  /\ UNCHANGED <<files, slots, refs, opened, lost>> /\ Kept

-----------------------------------------------------------------------------
(* Closing                                                                 *)

\* The pipe is given back when both of its ends are closed.
PipeDone(p) == p.write_closed /\ p.read_closed

PipeClosed(p, end) ==
  LET q == [p EXCEPT !.write_closed = @ \/ end = "write",
                     !.read_closed = @ \/ end = "read"]
  IN [q EXCEPT !.valid = @ /\ ~PipeDone(q)]

\* Mutant of Cleared: the entry keeps its open mark.
ClearedSlot(f) == [f EXCEPT !.more = FALSE]

Cleared(f) == Closed

Close(fd) ==
  LET f == files[fd] IN
  /\ ~stuck /\ f.open
  /\ IF f.end # "none"
     THEN /\ pipes' = [pipes EXCEPT ![f.pipe] = PipeClosed(@, f.end)]
          /\ UNCHANGED <<slots, refs, cut>>
     ELSE IF Used(f.slot)
     THEN /\ slots' = [slots EXCEPT ![f.slot] = Free]
          /\ refs' = [refs EXCEPT ![slots[f.slot]] = @ - 1]
          /\ cut' = (cut \/ \E g \in Fd \ {fd} : files[g].open /\ files[g].slot = f.slot)
          /\ UNCHANGED pipes
     ELSE UNCHANGED <<pipes, slots, refs, cut>>
  /\ files' = [files EXCEPT ![fd] = Cleared(f)]
  /\ opened' = [opened EXCEPT ![fd] = Nobody]
  /\ UNCHANGED <<tree, stuck, lost>>

-----------------------------------------------------------------------------
(* Using a descriptor                                                      *)

\* F_DUPFD copies the entry; nothing counts how many share a slot or an end.
\* A negative argument makes the search read the words in front of the table
\* first: one that looks closed fails the call, which then changes nothing, and
\* otherwise it goes on as from 0.
Dup(fd, from) ==
  /\ ~stuck /\ files[fd].open /\ FreeFds(from) # {}
  /\ LET new == Min(FreeFds(from)) IN
     /\ files' = [files EXCEPT ![new] = files[fd]]
     /\ opened' = [opened EXCEPT ![new] = opened[fd]]
  /\ UNCHANGED <<tree, slots, refs, lost>> /\ Kept

\* F_SETFL leaves the access mode alone.
SetFl(fd, more) ==
  /\ ~stuck /\ files[fd].open
  /\ files' = [files EXCEPT ![fd].more = more]
  /\ UNCHANGED <<tree, slots, refs, opened, lost>> /\ Kept

\* What lets a call through: its descriptor and the one of VFS.c are open.
Reaches(f) == f.open /\ f.end = "none" /\ Used(f.slot)

\* Reading is refused if O_WRONLY is the only flag.
MayRead(f) == Reaches(f) /\ (f.mode # "w" \/ f.more)

MayWrite(f) == Reaches(f) /\ f.mode # "r"

MayTruncate(f) == Reaches(f) /\ f.mode # "r"

\* lseek, fstat and readdir do not ask for the mode.
MayLook(f) == Reaches(f)

-----------------------------------------------------------------------------
(* Pipes                                                                   *)

\* sc_alloc_fd does not mark what it returns: both ends get one descriptor,
\* and the end to write with is the one that stays.
Pipe ==
  /\ ~stuck /\ FreeFds(Reserved) # {}
  /\ \E p \in 1 .. PipeMax :
       /\ ~pipes[p].valid /\ \A q \in 1 .. p - 1 : pipes[q].valid
       /\ LET fd_r == Min(FreeFds(Reserved))
              fd_w == Min(FreeFds(Reserved))
          IN files' = [files EXCEPT ![fd_r] = End("read", p), ![fd_w] = End("write", p)]
       /\ pipes' = [pipes EXCEPT ![p] = [NoPipe EXCEPT !.valid = TRUE]]
  /\ UNCHANGED <<tree, slots, refs, stuck, opened, cut, lost>>

\* Who finds the pipe full waits for a reader in the kernel, for ever.  No
\* descriptor is ever an end to read with, so sc_read's half has no state to
\* start from.
PipeWrite(fd, n) ==
  LET f == files[fd] IN
  /\ ~stuck /\ f.open /\ f.end = "write"
  /\ pipes[f.pipe].valid /\ ~pipes[f.pipe].read_closed
  /\ pipes' = [pipes EXCEPT ![f.pipe].count = Min({@ + n, PipeSize})]
  /\ stuck' = (pipes[f.pipe].count + n > PipeSize)
  /\ UNCHANGED <<tree, files, slots, refs, opened, cut, lost>>

FilesNext ==
  \/ \E n \in Node, mode \in Mode, more, create, dir \in BOOLEAN :
       /\ create => more   \* O_CREAT is one of the other flags
       /\ Open(n, mode, more, create, dir)
  \/ \E n \in Name : Mkdir(n) \/ Unlink(n)
  \/ Pipe
  \/ \E fd \in Fd :
       \/ Close(fd)
       \/ \E from \in Fd \cup {-1} : Dup(fd, from)
       \/ \E more \in BOOLEAN : SetFl(fd, more)
       \/ \E n \in 1 .. PipeSize : PipeWrite(fd, n)

FilesSpec == FilesInit /\ [][FilesNext]_filesVars

-----------------------------------------------------------------------------
(* Properties                                                              *)

\* No descriptor of VFS.c is lost: every one in use is named by an open
\* descriptor, whatever was copied, closed or refused.  The references to a node
\* are those descriptors, one more for the root that is mounted, and what opens
\* without a free slot have left behind: the root is never freed, and no other
\* error path leaves a node behind.
NodesAccounted ==
  /\ \A s \in Slot : Used(s) =>
       \E fd \in Fd : files[fd].open /\ files[fd].end = "none" /\ files[fd].slot = s
  /\ \A n \in Node :
       refs[n] = (IF n = ROOT THEN 1 ELSE 0)
                 + Cardinality({s \in Slot : slots[s] = n}) + lost[n]

\* Until a copy is closed, a call on a descriptor reaches the file that was
\* opened with it, and changes it only if it was opened for writing.
OwnFile ==
  ~cut => \A fd \in Fd :
    LET f == files[fd] IN
    /\ MayRead(f) \/ MayLook(f) => slots[f.slot] = opened[fd][1]
    /\ MayWrite(f) \/ MayTruncate(f) => opened[fd][2] # "r"

\* sc_pipe's comment promises pipefd[0] to read with and pipefd[1] to write
\* with: a pipe none of whose ends has been closed has a descriptor of each kind.
\* No pipe has: both numbers are one descriptor, the last of the two made.
PipeHasEnds ==
  \A p \in 1 .. PipeMax :
    pipes[p].valid /\ ~pipes[p].write_closed /\ ~pipes[p].read_closed =>
      \A end \in {"read", "write"} :
        \E fd \in Fd : files[fd].open /\ files[fd].end = end /\ files[fd].pipe = p
=============================================================================
