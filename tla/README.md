# Fexox OS: a TLA+ model of the kernel

The modules here model the Fexox OS kernel (a single-processor x86-64 kernel in
C), TLC checks them on small instances, and TLAPS proves the central results for
every value of the constants. Every definition is translated from the source;
`PROJECT.json` maps it to the lines it stands for.

## 1. Inventory

| Component | State | Operations | Interacts with | Hard behaviour | Correct when |
|---|---|---|---|---|---|
| Scheduler (`Scheduler.c/.h`) | task list `next_all/prev_all`, `task_count`, `next_tid`, run queue, `min_vruntime`, `current`, slice start; per task state, vruntime, runtime | init, create_kthread, tick + context_switch, yield, exit, sleep, wake, find | timer interrupt; system calls; the boot thread; frame/heap allocators for stacks | the "lock" masks no interrupt: a tick may cut any call of a kernel thread in two; calls from system calls run with IF=0 and may reach `hlt` | no runnable task is forgotten, none is queued while running, dead tasks stay dead, lists and counts agree, CPU time is fair and accounted |
| Run queue (same file) | `data[]`, `size`, `heap_idx` and `vruntime` of each task | push, pop, remove, heap_up, heap_down | used by every scheduler operation | index and order broken half way through a sift | it is a priority queue |
| Kernel threads, boot order (`main.c`) | order of the init calls | `kernel_main`, workers | everything | the init thread is created before `sched_init` resets the scheduler | nothing done before a reset is needed after it |
| Physical frames (`MemoryControl.c`) | bitmap, `free_frames` | init from the EFI map, alloc (two searches), free | page tables, heap, ELF, system calls, DMA buffers of the disk drivers, also inside the timer interrupt | empty lock; the bitmap's own frames are free, and the first caller writes on them; address 0 | a frame has one owner, reserved memory is never given out, none leaks |
| Page tables (`MemoryControl.c`) | four-level tables | map, unmap, walk | frames | failure half way through a range | maps only frames the mapper owns |
| Kernel heap (`MemoryControl.c`) | blocks with size, free flag, free-list and physical links, `heap_end`, `heap_used` | kmalloc, kfree, expand, split, merge | everything | links over long histories; double free tested outside any lock | blocks tile the heap; free lists hold exactly the free blocks |
| System calls (`Syscall.c`) | descriptor table, pipes, shm regions, brk/mmap cursors | some 50 calls | scheduler, VFS, frames, page tables | blocking with IF=0; failure half way; shared descriptors | a descriptor reaches its own file, a pipe has its two ends, a failed call gives its frames back, references count holders |
| Interrupt entry, timer (`InterruptControl.c`) | IDT, handlers, tick callback | dispatch, EOI, calibration | scheduler, mouse | which code runs with IF=0 | one tick at a time |
| VFS and virtio-blk (`VFS.c`) | mounts, descriptors, block devices, virtqueue | open/read/write/close, mount/umount, block read/write | FAT, drivers, system calls, file manager | timeout against a late completion; IF saved in the lock word; stale mounts | open files keep what they opened; a request gets its own answer |
| FAT (`FAT32.c`) | FAT cache, chains, directory entries, FSInfo | lookup, create, unlink, read, write, truncate | block devices | order of writes against a crash, also within one; two FAT copies; dirty nodes of deleted files; 16 bits for a sector number | no chain is shared, no entry points to free clusters, no cluster is lost |
| AHCI, IDE (`AHCI.c`, `IDE.c`) | command slots, ports | probe, read, write, recovery | DMA frames, VFS | time-outs and error recovery; errors nobody looks for | no buffer is freed while the device owns it |
| Mouse, cursor, clock (`PS2Mouse.c`, `ui_extra.c`) | packet bytes, position, saved background | interrupt, `ui_tick` | framebuffer | lost bytes, redraw order | the screen composes |
| Framebuffer, windows, file manager (`Framebuffer.c`) | windows, back buffer, directory view | draw, drag, click | VFS from inside the tick | each piece saves what is below it and restores it blindly; kept window numbers | the screen shows what is open, a press acts once |
| ELF64, ACPI, boot loader, PNG, libc | parsed images, tables | load, parse | frames, VFS | failure paths of the loader | frees what it took |

The hazards of this code, each at its line and with the properties that would
catch it, are in `PROJECT.json` under `hazards`.

## 2. What is done and what is left

| Step | Modules | State |
|---|---|---|
| scheduler | `Scheduler`, `MCScheduler`, `SchedulerProofs` | checked, proved |
| run queue | `PriorityQueue`, `RunQueue`, `MCRunQueue`, `RunQueueProofs` | checked, proved, refinement included |
| frame allocator | `Pmm`, `MCPmm`, `PmmProofs` | checked, proved |
| kernel heap | `Regions`, `KHeap`, `MCKHeap`, `KHeapProofs` | checked, proved, refinement included |
| disk drivers | `Disk`, `MCDisk`, `StorageProofs` | checked; safety proved, `Returns` is liveness |
| probing and root | `Devices`, `MCDevices`, `StorageProofs` | checked, proved |
| descriptors and pipes | `Files`, `MCFiles`, `StorageProofs` | checked, proved |
| FAT32 | `Fat`, `MCFat`, `FatProofs` | checked, proved |
| user memory and loader | `UserMem`, `MCUserMem`, `UserMemProofs` | checked, proved |
| desktop | `Desktop`, `MCDesktop`, `DesktopProofs` | checked, proved |

How the modules meet. `RunQueue` stands behind the set `rq` of `Scheduler`: what
it needs of its callers is what `Scheduler` checks and proves (`CurrentApart`,
`QueuedKeysFrozen`). `Disk` is what `Devices` has registered, one command at a time.
`Fat` uses the sectors of `Disk` as writes that are done in order and may
fail. `Files` counts the references of the nodes `Fat` hands out. `UserMem` takes
frames from what `Pmm` promises: a frame that is not handed out twice.

Left for later: calls of `KHeap` that a tick cuts in two; entries in subdirectories
and the FAT12/16 variants in `Fat`; the bytes of a mouse packet; liveness of the
scheduler in a variant whose vruntimes are relative to `min_vruntime`, so that tasks
that never exit have finitely many states.

## 3. Modules

A history variable records what has happened; it separates what the code promises from
what it visibly does not. Properties read it; actions do so only to end an exploration:
`Fat` allows one failed write and one crash and goes no further after an event that
`harm` excepts for good, `Files` stops at `MaxLost`, and `Desktop` does not follow what an
untidy screen shows (`Settled`).

**Scheduler.** One thread executes: `current`. Each thread has a program point
`pc`; an API call made by a kernel thread is a sequence of steps, cut wherever a
tick in between can be told apart. The reason is `Scheduler.c:43`:
`pushfq; cli; popfq` restores IF at once. The same call from a system call
(IF=0, `main.c:385`) is one step and a `hlt` it reaches stops the machine
(`halted`). `Tick` is `sched_tick` which charges,
requeues, updates `min_vruntime` and dispatches in the code's order
(`ContextSwitch`). The boot thread runs as the idle task and creates the threads
of `Boot` in ten steps (`CreateAlloc` … `CreateSlot`), with the read-modify-writes of
`next_tid` and `task_count` split. `used` and `torn` are history variables: CPU
time really spent, and which critical sections a switch has cut. A tick between the two
stores of a `rq_push` (`SwitchOnHole`) finds a slot that is counted and not filled. It still
holds a task that was queued before, which is dispatched whatever its state, a ZOMBIE
too, or, if it was never used, a null pointer: page 0 is not mapped (`vmm_init`), and the
page fault stops the machine. The task that was being pushed is never dispatched
(`CreateSlotLate`). Addresses, stacks
and register frames are abstracted; time is nanoseconds on the TSC. The run queue
is a set; that this is justified is what the next module shows, under the contract
checked here as `CurrentApart` and `QueuedKeysFrozen`.

**RunQueue** is the array heap, one step per iteration of `heap_up`/`heap_down`,
with `heap_idx` kept apart from the array as in the code. `RefinesPriorityQueue` maps
the set of queued tasks to `PriorityQueue`, the abstract specification: add
unless full, take one whose key is least, drop, change the key of a task outside.

**Pmm** is the frame allocator. The bitmap is the set `clear` of frames whose bit
is 0. Two contexts call it, a thread and the interrupt that may arrive between
any two of its accesses and then runs to its end. At -O0 setting a bit and
counting are a load and a store each, so both are two steps; `WordOf` is what a
store overwrites. The scan of the bitmap is one step: the candidate it returns is
tested again, bit by bit, before anything is set. `cuts` counts interrupts that called in
the middle of a call; `Fill` is a store of a block's owner, of any value, into a word
of the bitmap that lies in his block. **On a real boot that happens at once**: the
bitmap's frames are cleared (`MemoryControl.c:170`), they are the lowest free ones, and
the first allocation is the PML4 of `vmm_init`. The allocator goes on with the bits it
finds then; `fills` counts such stores, up to `MaxFills`.

**KHeap** keeps `g_km` and the headers of all blocks in one record, `heap`; the
helpers (`Unlink`, `InsertFree`, `Split`, `Follow`, `Absorb`) are functions from heap to
heap, so that `Kmalloc` and `Kfree` are the code's sequence of calls on them. A call
is one step, as it is from a system call or the interrupt itself; a kernel thread's
call that is cut by a tick is not modelled yet. Of several blocks that fit equally
well any may be returned (the code takes the first it meets). A merged block's header
leaves the domain of `heap.blk`. `asked` remembers the sizes asked for, `seams` where the
heap grew. `RefinesRegions` maps the blocks in use to `Regions`, the abstract
specification: disjoint regions, each as long as was asked.

**Fat** is a FAT32 volume of a few clusters as `FAT32.c` keeps it. `mem` is the cached
table, `disk` its two copies, FSInfo and the entries of the root directory, `node` what
lookup and create hand out. A call changes memory at once and leaves the writes it still
has to do in `pending`, in the order of the code; `Step` does the next one, `Fail` lets
it fail and follows the error path, `Crash` takes the power away, and mounting begins
again from what is on the disk. A write of a table copy is one command for several
sectors: where it fails or the power goes, any of them may have been written (`Torn`).
The entries of a name are deleted sector by sector (`Deletes`). `dir_entry_idx` keeps 16
bits of the sector number (`Packed`), so an update may go to another sector than the
entry's (`Far`) and is followed there if it lies in the clusters. Memory may run out
where a call asks for some (`CreateNoMem`, `WriteNoMem`, `Unfilled`), also after
clusters were taken. `harm` records what later states must be read against: a failed
write, a crash, a size beyond the chain (disk full), an entry written by a node that
does not own it (`stale`), a run of entries that leaves the directory (`stray`), a
sector number that did not fit (`far`), memory that ran out behind an allocation of
clusters (`nomem`). A node that no longer agrees with its entry (opened twice, or
unlinked while open) may only be released. The volumes a run starts from (`Images`) are
`Consistent`: each cluster in use is on the chain of the root or of one entry, and where
the root goes on in a cluster that is not the next on the disk, a long name does not lie
across the seam, since the writer of entries never puts it there.

**Files** is `g_files` of `Syscall.c`, `g_fds` of `VFS.c` behind it, the nodes those
hold with their reference counts, and `g_pipes`. A system call has IF=0 and is one step.
What a file holds is left out: `MayRead`, `MayWrite`, `MayTruncate` and `MayLook` say
whether a call on a descriptor is let through. `opened`, `cut` and `lost` are history:
what a descriptor was opened with, whether a slot was closed under a copy, and the
references left by opens that found no slot (`VFS.c:1207`). The two descriptors of a
pipe are one, as in the code. A writer to a full pipe spins for ever (`stuck`): the
system stops there.

**Disk** is one block device behind `blkdev_read` and `blkdev_write` and one of three
drivers (virtio-blk, AHCI, IDE with its fall-back to PIO), chosen at the start. The
driver takes a buffer, describes and issues a command, and polls; the device acts on its
own: `Take`, `Done`, `Broken`, or nothing at all. `taken` is what `dma_alloc` gave out,
and each path of a driver frees by itself (`DmaFree`). What the code does not check the
model does not either: the status after the last sector of a PIO write and the result of
the flush, a sector count that is cut to 8 bits for a drive without LBA48, an address
that is cut to 32 bits. `missed` records which of the three the running call met. `late`
records that a loop has given up on the device, which may then still write to memory
that was freed and allocated again.

**Desktop** is the window manager, popup, icon, file manager and cursor on a grid
of cells. Each piece saves what is below it and puts that back later without
knowing what is above. `stack` and `tidy` are history: what was painted, in what order,
and whether nothing covered was taken away or painted anew. A tick and a window
system call are one step each. A window is as wide as it was asked to be, more than
the screen too (`Widths`), and may be dragged beyond its left edge then, as the code checks
only the upper edge again. The buffer of a window, of the popup and of the icon may
be missing, and then nothing is saved and put back. Folders are a tree of bounded
depth.

**UserMem** is brk, mmap, munmap, shared memory and the ELF loader over the page tables
(two of the four levels) and the frames. Addresses are pages modulo 2^w, so that sums
wrap; the argument of brk is in bytes. The loader is cut into stages because it may
fail in any of them. `heap`, `areas` and `live` are history: the frames granted to brk,
to mmap and to running programs. Any process may call
`shm_detach` for any region at any address, as the code asks nobody; `stolen` records the
regions it was called for by one who had not attached them there. munmap stays in user
space.

**Devices** is the boot thread probing virtio, AHCI ports and IDE drives in the order
of `main.c` and then mounting the root. An allocation may fail, a device refuse,
err or not answer, a port not stop. A piece of memory is known by its purpose;
`dma` is what the hardware has been told to use. `unstopped` and `refused` are history.

## 4. Runs

| Run | Instance | Shows |
|---|---|---|
| `workers` | three threads of two weights that compute and exit, ticks of 1 or 3 up to time 9 | `NoLostTask`, `LiveListed`, `MinIsFloor`, `AccountingExact`, `FairShare`, `ZombieStaysDead` |
| `api` | two threads of the boot thread and one made by `clone`, every call, ticks of 1 or 2 up to 10 | `CurrentApart`, `QueuedKeysFrozen` |
| `runqueue` | seven tasks, six slots (three levels), two keys, symmetry | `IndexRight`, `RootIsLeast`, `RefinesPriorityQueue` |
| `pmm` | six frames in two words, bitmap at address 0, a reserved hole, one cut, one store into the bitmap by the owner of its frame | `FramesApart`, `NoneLeaked` (with `free_frames`), `DmaAbove` |
| `kheap` | three pages of five headers, requests of 1, 2 and 5 (two pages) | `Tiles` (with `heap_used`), `ListsRight`, `Coalesced`, `RefinesRegions` |
| `fat` | five clusters of two entries, two names (one long), two nodes, four calls, one failing write, one crash, three volumes | `CrashContained`, `NoneLost`, `DirtyUntilWritten` |
| `files` | two descriptors, two slots, one pipe of one byte, one name | `NodesAccounted`, `OwnFile` |
| `disk` | each driver, two calls of up to three sectors, commands of two (of one without LBA48), three places for buffers, one above 4 GiB | `Transferred`, `NothingKept`, `InRange`, `Returns` |
| `desktop` | four columns, two slots, windows of two and of five columns, one application | `Composed`, `OwnNumber`, `PressedOnce` |
| `usermem` | seven frames, sixteen pages, two levels of tables, five programs, two processes, three calls | `OwnedOnce`, `NoneLost`, `HeapPaid`, `AttachedKept` |
| `devices` | a virtio disk, three AHCI ports, two IDE drives, room for two ports and two disks | `RootRight`, `HeldByDevices`, `NoStrayDma` |
| `disk_inside` | as `disk`, one call | `InsideBuffer` is violated, see below |

Bounds and why they suffice.

- *Scheduler.* Three tasks let one exit while a second is in the middle of its own exit
  and a third waits, and fill a queue of `Cap` = 3. `MaxTime` bounds exploration only
  (no tick beyond it) and leaves room for four to nine ticks, several more than the cuts
  a property needs; the slice of 2 makes ticks fall before, at and after its end.
  `MaxTid` bounds failed creations. A sleeper that `SwitchOnHole` put into the queue is
  not woken (nothing in the repository wakes one).
- *RunQueue.* Six slots give a heap with two inner levels, so that `rq_remove` can send
  the moved task down or up.
- *Pmm.* Words of four frames make two blocks share a word and one block span two;
  `MaxCuts` = 1 is one interrupted call, at every point, with any calls before and
  after. `Width` = 3 lets `free_frames` wrap. A store writes any value, so `MaxFills` =
  1 shows any bits to the searches that follow.
- *KHeap.* Three pages give two places where the heap grew, up to seven blocks, lists of
  several blocks, and every combination of free and used neighbours; `Limit` is where
  the frames are used up.
- *Fat.* Two entries in a cluster make a long name straddle two clusters and the root
  directory grow; five clusters run out; a file of two clusters is cut and grown. Four
  calls create, write, unlink and create again over the freed entry. Two table entries
  to a sector make three sectors of a copy; `W` = 4 and `Data` = 1 leave the last three
  clusters beyond the numbers that fit. A cluster is one sector of entries. Volumes:
  fresh, with deleted entries, and with a file and a deleted run across clusters.
- *Files.* Tables of two fill up; `MaxSame` = 2 allows a second entry of one name (two
  creators), `MaxLost` = 1 one open that finds no slot.
- *Disk.* Three sectors with commands of two need a second command; `SpinMax` = 1 is a
  poll that succeeds or gives up; two calls and the places let a late answer to the
  first meet the buffer of the second, or miss it. The last place has the low 32 bits of
  the first.
- *Desktop.* Four columns hold two windows apart, overlapping or level; `MaxMade` = 2
  windows, together or one after the other in a slot; a width of five is beyond the
  screen; `MaxDepth` = 1 is one folder down and up again.
- *UserMem.* Seven frames with tables among them run out half way through a range, a
  segment and a stack; `MaxCalls` = 3 lets brk, mmap and shared memory follow each other
  before and after a load that fails. A process has one region at a time and attaches it
  once.
- *Devices.* Three ports with room for two, and three kinds of disk with room for two,
  let either table be the full one.

Deadlock is checked in `runqueue` and `kheap`, where a next call is always possible.
In the others the system may stop: tasks exit, the explored time or calls end, the
machine halts or is switched off, a writer is stuck, the boot is done.

Fairness. `Returns` assumes `WF_vars(Driver)` and nothing of the device: the polling
loops run on a single CPU with interrupts masked, so nothing else takes a turn,
and their counters end them. The other properties are safety properties.

What the properties except, and why the exceptions are real:

- `FairShare` and `MinIsFloor` except runs in which a tick cut a creation: a newcomer
  may then get an old `min_vruntime` and be ahead. `workers` has neither `sched_yield`
  nor system calls, as the threads of `main.c` make none: `sched_yield` zeroes
  `slice_start_tsc` and the next switch charges the whole uptime (`Scheduler.c:529`); a
  running task of vruntime 0 is taken for none (`Scheduler.c:217`) when it creates
  another.
- `CurrentApart` (that what is queued is RUNNABLE), `NoLostTask`, `QueuedKeysFrozen`,
  `ZombieStaysDead`, `AccountingExact` and the links of `LiveListed` except what follows
  a tick between the two stores of a `rq_push`: it loses the task that is pushed and
  brings another back, see `ExitedStaysZombie` below. That a queued task is not the current one has no
  exception.
- `FramesApart` and `NoneLeaked` are stated for uncut calls, since the lock of the
  allocator is empty (`LockedByCli`), and until a caller writes on the bitmap: on a real
  boot that is the time before the first allocation is used, so they judge the search
  and the counting and not the machine. `DmaAbove` survives both. That reserved frames
  are not handed out is no property of this system.
- `CrashContained` and `NoneLost` except what follows a failed write, a write by a node
  whose name was unlinked, a run of free entries that leaves the directory, a sector
  number that did not fit, and memory that ran out behind an allocation of clusters;
  `NoneLost` a crash too. `DirtyUntilWritten` excepts only the sector number.
- `OwnFile` excepts a slot that was closed under a copy (`F_DUPFD` counts nothing).
- `Transferred` and `InRange` except what follows an answer that came too late,
  `Transferred` also what `missed` records.
- `Composed` excepts what is covered and then taken away or painted anew, the close of a
  foreign window, a window that does not fit or was dragged beyond the edge, and a
  window, popup or icon without a buffer: each leaves pixels behind.
- `AttachedKept` excepts the regions in `stolen`.
- `NoStrayDma` excepts a port that did not stop and the queue of a virtio-blk device
  that read another address back; `HeldByDevices` a full table and a virtio device that
  fails after it was told its queue.

Claims of the source that do not hold. The run `disk_inside` is about the first. The
others are definitions of their modules; each is seen by giving it to TLC as the only
INVARIANT of the run named here:

- `InsideBuffer` (Disk, its own run): the DMA buffer is 4 KiB larger than the data, and
  the drivers use the part of it that is aligned to 64 KiB "inside the buffer"
  (`IDE.c:537`, `AHCI.c:526`), which begins up to 60 KiB further on: the transfer goes
  to memory behind the buffer.
- `ExitedStaysZombie` (Scheduler, `workers`): the end of `sched_exit` says that a ZOMBIE
  does not return to the queue (`Scheduler.c:556`). `rq_push` counts a slot before it
  fills it, and a tick in between pops the task left over there.
- `LockedByCli` (Pmm, `pmm`): the spinlock is empty because "interrupts are disabled at
  the kernel level" (`MemoryControl.c:79`). They are not in a kernel thread, and the
  tick allocates.
- `UpdateInPlace` (Fat, `fat`): `dir_entry_idx` is said to hold sector and index
  (`FAT32.c:1283`, `:1315`); it keeps 16 bits of the sector, and the update goes to the
  sector with these.
- `PipeHasEnds` (Files, `files`): the two ends of a pipe (`Syscall.c:1095`) are one
  descriptor, one to write with (`:1110`), so what is written is never read.
- `StatusSeen` (Disk, `disk`): PIO is called reliable (`IDE.c:384`), and nobody looks at
  the status after the last sector or the flush, so data that is lost is reported as
  written.
- `CountFits` (Disk, `disk`): drives of LBA28 are said to work (`AHCI.c:7`); the sector
  count of such a request is cut to 8 bits, so a longer one moves fewer sectors than it
  reports.
- `Below4G` (Disk, `disk`): the buffer is said to lie below 4 GiB (`IDE.c:529`); nothing
  asks for that.

Other places where the code does not do what it says or seems to mean. The
models behave as the code does; no run is about them, because no weaker property is
left or no line of the source claims the opposite:

- `Scheduler.c:556`: the `hlt` reached from a system call never ends;
- `VFS.c:131` keeps IF in the lock word, which a nested lock of the same lock would
  overwrite; and `g_fm_busy` is never contended, as its users run with interrupts
  masked;
- window system calls paint while the cursor is shown, and save it as background;
- a file created behind the end mark of a directory is not found again
  (`FAT32.c:677`);
- the pages a failed brk or mmap has mapped stay mapped to freed frames
  (`Syscall.c:912`);
- a writer to a full pipe spins with interrupts masked (`Syscall.c:620`);
- the init thread is created before `sched_init` resets the scheduler (`main.c:641`,
  `:678`);
- the root is looked for on the first disk of each kind only.

## 5. Proofs

`SchedulerProofs` (any set of tasks, weights, slice, capacity, tick lengths):
`TypeCorrect`, `QueueHoldsRunnable` (`CurrentApart`), `KeysFrozen`
(`QueuedKeysFrozen`), `ZombiesStayDead`, and `NoTaskForgotten` (`NoLostTask`, for a
finite set of at most `Cap` tasks: beyond that `rq_push` drops one), each with the
exception of section 4 for a cut `rq_push`.
The inductive invariant is `IInv == TypeOK /\ Shape /\ LinkInv`. `CurrentApart`
alone is not inductive: a tick requeues the current task if it is RUNNING, so the
invariant must also say what each program point implies (`PcInv`: a task that
computes or dozes is RUNNING or RUNNABLE, one in `sched_sleep_ns` is not a ZOMBIE,
one that was never created has no state), that the threads still to be created
are distinct and outside the queue, and only the first of them may already be
RUNNABLE (`TodoInv`), and that the task on the CPU was dispatched (`CurrentInv`).
`LinkInv`: a linked task has a non-null `next_all`, so that no step of
`sched_exit` can empty the list.
`LeastNat`, the existence of a least element, is proved in each module that needs it.

`RunQueueProofs` (any number of slots and tasks): `IndexAlwaysRight`,
`RootAlwaysLeast`, `HeapRefinesQueue`. `IndexRight` and `RootIsLeast` are not inductive:
`HeapInv` adds the heap order with the hole each loop leaves (while `op = "up"` only
the pair above `at` may be out of order, or in `rq_remove`, until the first swap,
the pairs below it; while `op = "down"` the pairs below it) and `Bridged`: the
parent of the hole is not above what is below the hole, which is why one swap
repairs a pair without breaking another. That the root is least follows along the
chain of parents, by taking a least counterexample among the slots.

The second half of `SchedulerProofs` builds on `IInv`. With no call but exit (`Ops
\subseteq {"exit"}`): `RuntimeIsExact` (`AccountingExact`), and with no more tasks than
slots `FloorHolds` (`MinIsFloor`) and `CpuIsShared` (`FairShare`). `CalmInv`: only the
current task is RUNNING, and every task that has not exited is charged what it used.
`EvenInv`, until a tick cuts a creation: while the boot thread has the CPU all that is
queued is level with `min_vruntime` (it gets the CPU only when the queue is empty), and
a task on the CPU was the least when it came and came less than a slice ago. `SpreadInv`
then follows: the one charged was not ahead, and the charge is at most one stay. The
lemmas on `\div` turn that into `MaxCharge`. `TornInv` is why `FloorHolds` and
`CpuIsShared` need no exception of their own for a cut `rq_push`: it cuts a creation
too. `CalmInv` and `ListInv` hold until one was cut.

`EveryLiveIsListed` (`LiveListed`) holds for every call, if a thread that makes system calls
is the last one the boot thread creates (`main.c` creates none after `sched_init`): a clone
between the two stores that link a new task in would take its place at the head, and
drop out. Task numbers are then in order (`TidInv`): they
are given out in the order of the list, so `ListInv` can say where a link leads without
saying what the list is: `next_all` to an older task and `prev_all` to a newer one, with
no live task between them in age, and nobody live is newer than `all_head`. A link may
skip, or go through, what has exited half way: an exit that is cut leaves stale links,
and a later exit that follows one still unlinks nobody live. `CountInv` is `task_count`
until a cut. That the walk ends where nothing is left to meet is the argument of
`KHeapProofs` for a free list; that it cannot step over a live task follows by taking
the oldest one met that is not older.

`PmmProofs` (any memory map, word size, number of cuts and of stores into the bitmap):
`DmaIsAbove` (`DmaAbove`) follows each request from search to return, whatever the bits
are; `FramesHaveOneOwner` (`FramesApart`) says for each program point which of the
block's bits are already set or cleared, as long as no call was cut and the bitmap is
the allocator's (`ApartInv`, `ReservedInv`). `NoFrameIsLost` (`NoneLeaked`, with
`free_frames`) adds `KeptInv`: while the other context rests, every frame is free, held,
dropped or the call's own (`Whole`), a loop that gives frames back has given back all
before the one it is at (`Loop`), and `free_frames` is ahead of the bitmap by what the
call still owes at its point (`Counted`, `Owed`). The counter wraps at any step, also
below 0, so `Counted` is a congruence; `ModAdd` lets a call settle what it owes before
or after the wrap.

`KHeapProofs` (any header size, page and limit, any sequence of requests): `HeapIsTiled`
(`Tiles`, with `heap_used`), `ListsAreRight` (`ListsRight`), `FreeIsCoalesced`
(`Coalesced`), and `HeapRefinesRegions` (`RefinesRegions`). `IInv` is `Sound`, that the
used bytes are those of the used blocks, that `heap.end` stays below the limit and that
a block in use is as long as was asked. `Sound` says of a heap and an explicit set of
listed blocks: the blocks tile it and their physical links are the neighbours (`Tiled`),
the free list's links are inverse to each other, reach only listed blocks and have no
cycle (`Linked`), and no two free blocks touch except where the heap grew (`Merged`).
The set is explicit because in the middle of a call a free block is not on its list yet,
or is on it no longer; each helper has a lemma that takes one `Sound` heap to the next.
What a list contains is a recursive function: it is proved by an induction over sets of
numbers, and the walk ends because each step meets a block it has not met, of finitely
many.

`StorageProofs`, disk drivers (any number of sectors, calls, places and polls):
`BuffersAreFreed` (`NothingKept`), `DataArrives` (`Transferred`), `OthersUntouched`
(`InRange`). `DiskInv` says that what is taken is the driver's buffer or nothing, at
each phase, so that a path that forgot to free could not be proved; how phase, buffer
and device go together (`Order`, `CallInv`, `BufInv`, `DevInv`): as long as nothing was
late or missed, the device has at most the command the driver is waiting for, with the
driver's buffer and range; `DataInv` is how far the data has got at each phase.

`StorageProofs`, descriptors (any tables): `NodesAreAccounted`, `DescriptorsReachOwn`,
from `FilesTypeInv`, `NamedInv` (a used slot has an open descriptor that names it),
`CountInv` (the references of a node are counted by its slots), `OwnInv` (until a cut,
the slot of an open descriptor holds the node it was opened with, in that mode) and
`PipeInv`.

`UserMemProofs` (any frames, pages, table width, programs, processes and calls):
`FramesOwnedOnce` (`OwnedOnce`), `NoFrameLost` (`NoneLost`), `HeapIsPaid` (`HeapPaid`),
`AttachedIsKept` (`AttachedKept`). `OwnedOnce` alone is not inductive: `FrameInv` splits
the frames into seven disjoint sets (free, page tables, the three histories, the image
being loaded, shared regions) and keeps the regions apart, `HoldInv` says that a region
somebody has got and nobody has stolen is valid and counts its holders, `StageInv` what
the loader has open at each stage. A range is mapped page by page by a recursive
function that may run out of frames half way: that it exists and takes only free frames
is proved once (`UpTo`, `Iterated`) for every such loop.

`DesktopProofs` (any number of columns, slots and tasks, any list in a folder):
`ComposedHolds` (`Composed`), `OwnNumberHolds` (`OwnNumber`), `PressedOnceHolds`
(`PressedOnce`). What the screen shows is not inductive: each piece on it puts back
blindly what it saved, so the proof needs that the backgrounds are right as well, which
they are as long as the screen is tidy. `Layered` says that for any pile: each saved
background, and the screen, is what the layers below look like. Four lemmas about piles
carry it: `PushLayer` and `PopLayer` for what is saved and put back on top,
`RepaintLayer` and `WallLayer` for what is painted over nothing else. `Sound` is
`Layered` for `stack`, whose items are exactly the open windows, the popup and the
cursor if they are shown (`Laid`); `Good` adds `FxInv` and `BufInv`; a call is a chain
of pieces, and each has a lemma from one `Good` interface to the next. The loops over
the windows are recursive functions of which `Iterated` says that they keep what each
round keeps.

`StorageProofs`, probing (any number of ports, channels, and table sizes): `RootIsRight`
(`RootRight`), `ProbesCleanUp` (`HeldByDevices`), `FreedMemoryIsQuiet` (`NoStrayDma`), from
`VblkInv`, `HeldInv`, `DmaInv`, the numbers each driver has given so far being in the order
of its ports and drives (`TableInv`), every block device being right about its disk
also after later probes (`EntryInv`), and `MountInv`.

`FatProofs` (any number of clusters, entries in a cluster, names, nodes and calls, any
consistent volumes): `CrashContainedHolds` (`CrashContained`), `NoneLostHolds`
(`NoneLost`), `DirtyUntilWrittenHolds` (`DirtyUntilWritten`). None of the three is
inductive. Between calls the volume is `Settled`: it is `Consistent` and, unless the
disk was full, `Sized`, both copies are the cache, and the counters are right. In the
middle of a call it is none of that, and a name is deleted and a table copy written in
several pieces, so `VolumeInv` looks ahead: the writes still pending lead (`Leads`) from
the disk as it is to a settled one, every disk on the way is `Contained`, that is, a
crash there harms only the entries in `busy`, and so is what a crash within the next
write may leave (`Breaks`). `Step` then merely takes the first disk off that way, and
`Crash` finds `Contained` (`CrashInv`); each call has to show such a way from one
settled volume to the next, in the order the code writes. `DirtyInv` keeps the mark and
the order of the two copies together: a first copy that is still to be written is marked
(`Marked`). A table is followed as paths: `Tabled` says that the clusters in use are
those of disjoint chains from the values of a function of first clusters, and `Repath`
that the table stays so when one path is replaced by another of its own and free
clusters, which is what extending, cutting and giving back a chain do (`Grew`, `Kept`).
What a recursive chain contains is proved by the least counterexample. That a long name
leaves or enters the directory together with its entry needs that their positions are
neighbours on the disk (`RunTo`, `Beside`), hence the last conjunct of `Consistent`.

Assumptions: `TaskAssumption`, `NumberAssumption` (Scheduler), `QueueAssumption`
(RunQueue), `MapAssumption`, `ParameterAssumption`, `BitmapAssumption` (Pmm),
`DevicesAssumption`, `DesktopAssumption`, `DiskAssumption`, `TableAssumption` (Files),
`UserMemAssumption`, `SizeAssumption` (KHeap), `VolumeAssumption` and `ImagesAssumption`
(Fat), which TLC evaluates in the runs of these modules; and those a theorem names in
its statement.

Only model-checked: `Returns`, which is liveness under fairness and beyond the prover.
Every other property of a passing run is stated by a theorem. Several theorems keep to
what their statements name: `NoTaskForgotten` to a finite set of at most `Cap` tasks, those
of the second half of `SchedulerProofs` to the calls named above, as in the runs.

## 6. Not modelled

- ACPI: tables are parsed once and read only. Boot loader and boot stub: UEFI calls in a
  straight line with nothing beside it. PNG, libc, debug output, glyphs, fonts, images:
  pure functions and output. Resources, applications, build: no kernel code.
- Of `InterruptControl.c`: IDT, PIC and APIC set-up, which is register programming. The
  timer interrupt is `Scheduler!Tick`.
- Of `MemoryControl.c`: permissions, large pages and the TLB; a kmalloc or kfree that a
  tick cuts in two, which breaks the lists at any of some thirty stores and leaves no
  weaker property to hold.
- Of `Syscall.c`: wait4 and the calls for time, identity and polling, which copy values
  out; the text console.
- Of `VFS.c`: `vfs_umount`, which nothing calls.
- Of `FAT32.c`: the fixed root and narrower entries of FAT12/16, a table that is not
  cached (too large, or no memory for it), entries inside subdirectories, what is inside
  a cluster of a file.
- Of `Framebuffer.c`, `PS2Mouse.c`, `ui_extra.c`: the taskbar, text and clock, which
  keep nothing of another part, and how a packet is put together from bytes.
- Of `main.c`: the init calls before interrupts are on, which are a straight line.
