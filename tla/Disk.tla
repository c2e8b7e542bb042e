--------------------------------- MODULE Disk ---------------------------------
(***************************************************************************)
(* One block device behind blkdev_read and blkdev_write, and its driver:   *)
(* virtio-blk (VFS.c), AHCI (AHCI.c) or IDE (IDE.c).  A call is cut into   *)
(* chunks; for each the driver takes a buffer for DMA, describes the       *)
(* command, issues it and polls.  The device works on its own: it takes    *)
(* the command, moves the data and signals, or fails, or never answers.    *)
(* Interrupts are masked during a call, so there is one at a time.         *)
(*                                                                         *)
(* A sector is a value, and a page of memory holds one.  Loops that count  *)
(* to tens of millions count to SpinMax.                                   *)
(***************************************************************************)
EXTENDS Integers, Sequences, FiniteSets, FiniteSetsExt

CONSTANTS
  Kind,     \* which drivers: a subset of {"vblk", "ahci", "ide"}
  Sectors,  \* how many the device has
  Chunk,    \* the most a command of AHCI or IDE moves
  Count28,  \* sectors a command of LBA28 moves at most (256)
  Align,    \* pages in 64 KiB
  Buffers,  \* bound: places a buffer can be at
  Low,      \* the place with the low 32 bits of each place's address
  SpinMax,  \* bound: how often a loop polls
  MaxCalls  \* bound: how many calls there are

ASSUME DiskAssumption ==
  /\ Kind \subseteq {"vblk", "ahci", "ide"}
  /\ {Sectors, Chunk, Count28, Align, SpinMax, MaxCalls} \subseteq Nat \ {0}
  /\ Low \in [Buffers -> Buffers]

VARIABLES
  kind,   \* the driver
  lba48,  \* whether the drive takes commands of LBA48
  call,   \* the call that is running or has returned
  user,   \* the caller's buffer
  phase,  \* where the driver stands
  buf,    \* the DMA buffer it works with, None if there is none
  taken,   \* the places that dma_alloc has given out
  mem,    \* the memory at each place, freed or not
  spin,   \* how often it has polled
  dev,    \* the device
  disk,   \* the sectors
  late,   \* history: a loop has given up on the device
  missed, \* history: what the running call did not notice
  calls   \* how many calls there have been

diskVars == <<kind, lba48, call, user, phase, buf, taken, mem, spin, dev, disk, late,
              missed, calls>>
drive == <<kind, lba48>>

Sector == 0 .. Sectors - 1
Junk == -1
None == [op |-> "none"]

\* dma_alloc clears the memory it returns.
Blank == [s \in 1 .. Sectors |-> Junk]

DiskInit ==
  /\ kind \in Kind /\ lba48 \in BOOLEAN
  /\ call = [op |-> "none", lba |-> 0, count |-> 0, done |-> 0, res |-> "ok"]
  /\ user = Blank /\ phase = "idle" /\ buf = None /\ taken = {} /\ spin = 0
  /\ mem = [b \in Buffers |-> Blank]
  /\ dev = [desc |-> None, waiting |-> 0, cmd |-> None, sig |-> "none",
            halted |-> FALSE]
  /\ disk = [s \in Sector |-> 0]
  /\ late = FALSE /\ missed = {} /\ calls = 0

-----------------------------------------------------------------------------
(* The call                                                                *)

\* The most sectors of one command.
Most(k) == IF k = "vblk" THEN 1 ELSE Chunk

Left == call.count - call.done
N == Min({Left, Most(kind)})
At == call.lba + call.done

\* AHCI and IDE refuse what reaches behind the last sector; virtio-blk leaves
\* that to the device.  Bound: no caller asks for it.
Start(op, lba, count) ==
  /\ phase = "idle" /\ calls < MaxCalls /\ lba + count <= Sectors
  /\ calls' = calls + 1
  /\ call' = [op |-> op, lba |-> lba, count |-> count, done |-> 0, res |-> "running"]
  /\ user' = IF op = "read" THEN Blank ELSE [s \in 1 .. Sectors |-> calls + 1]
  /\ phase' = "setup" /\ missed' = {}
  /\ UNCHANGED <<drive, buf, taken, mem, spin, dev, disk, late>>

\* dma_free: the memory at the place stays what it is.
DmaFree == taken' = taken \ {buf.at}

\* The driver returns; its locals are dead.
Return(res) ==
  /\ phase' = "idle" /\ buf' = None /\ spin' = 0
  /\ call' = [call EXCEPT !.res = res]

\* A chunk is done: the next one, or the call is.
Advance(n) ==
  IF n = Left
  THEN Return("ok")
  ELSE /\ phase' = "setup" /\ buf' = None /\ spin' = 0
       /\ call' = [call EXCEPT !.done = @ + n]

-----------------------------------------------------------------------------
(* Setting up and issuing a command                                        *)

\* How far the data is from the start of a buffer that lies off pages behind
\* a multiple of 64 KiB: AHCI and IDE go on to the next one.  (Whom the part
\* behind the buffer belongs to is not modelled.)
Pad(off) == IF kind = "vblk" THEN 0 ELSE (Align - off) % Align
Pages == IF kind = "vblk" THEN N ELSE N + 1

\* The signal a loop waits for is cleared when the command is described
\* (IDE), when it is issued (AHCI), or after that (virtio-blk, which reads the
\* used index once the request is published).
Signal(k, at) == IF at = k THEN "none" ELSE dev.sig

Setup(b, off) ==
  /\ phase = "setup" /\ b \notin taken /\ (kind = "ide" \/ Low[b] = b)
  /\ taken' = taken \cup {b}
  /\ buf' = [op |-> "buf", at |-> b, pages |-> Pages, pad |-> Pad(off), len |-> N]
  /\ mem' = [mem EXCEPT ![b] = [s \in 1 .. Sectors |->
               IF call.op = "write" /\ s <= N THEN user[call.done + s] ELSE Junk]]
  /\ phase' = "issue"
  /\ dev' = [dev EXCEPT !.sig = Signal(kind, "ide")]
  /\ UNCHANGED <<drive, call, user, spin, disk, late, missed, calls>>

\* virtio-blk and AHCI give a buffer above 4 GiB back and fail.
TooHigh(b) ==
  /\ phase = "setup" /\ b \notin taken /\ kind # "ide" /\ Low[b] # b
  /\ mem' = [mem EXCEPT ![b] = Blank]
  /\ Return("io")
  /\ UNCHANGED <<drive, user, taken, dev, disk, late, missed, calls>>

\* Without memory for DMA, or without a bus master, IDE moves the data itself.
NoBuffer ==
  /\ phase = "setup"
  /\ IF kind = "ide"
     THEN /\ phase' = "pio" /\ UNCHANGED <<call, buf, spin>>
     ELSE Return("nomem")
  /\ UNCHANGED <<drive, user, taken, mem, dev, disk, late, missed, calls>>

\* The drive shows that it is busy: with IDE from the moment of the command.
Busy == dev.cmd # None \/ (kind = "ide" /\ dev.waiting > 0)

\* AHCI gives up on a busy port at once, IDE after a while; IDE also on the
\* error of the command before.
Refused ==
  /\ kind # "vblk" /\ (Busy \/ (kind = "ide" /\ dev.halted))
  /\ Return("io")
  /\ late' = (late \/ (kind = "ide" /\ Busy))
  /\ UNCHANGED <<drive, user, mem, dev, disk, missed, calls>>

\* Mutant of NotReady: this path keeps the buffer.
NotReadyKeeps == phase = "issue" /\ Refused /\ UNCHANGED taken

NotReady == phase = "issue" /\ Refused /\ DmaFree

NotReadyPio == phase = "pio" /\ Refused /\ UNCHANGED taken

\* The count register of LBA28 has eight bits, and 0 means 256.  Only AHCI asks
\* for more than that at once, and takes LBA28 if the drive has nothing else.
Told(n) == IF kind = "ahci" /\ ~lba48 THEN ((n - 1) % Count28) + 1 ELSE n

\* IDE stores the low 32 bits of the address without a look at the others.
Address == IF kind = "ide" THEN Low[buf.at] ELSE buf.at

\* Mutant of Command: the count is not cut to what is left of the call.
CommandWhole == [op |-> call.op, lba |-> At, n |-> Most(kind), buf |-> Address]

Command == [op |-> call.op, lba |-> At, n |-> Told(N), buf |-> Address]

Unnoticed ==
  (IF Told(N) # N THEN {"count"} ELSE {})
  \cup (IF Address # buf.at THEN {"address"} ELSE {})

\* virtio-blk publishes whatever the device is doing, in the descriptors the
\* device may still read; the others have one slot for a command.
Issue ==
  /\ phase = "issue"
  /\ kind = "vblk" \/ (~Busy /\ (kind = "ide" => ~dev.halted))
  /\ dev' = [dev EXCEPT !.desc = Command, !.waiting = IF kind = "vblk" THEN @ + 1 ELSE 1,
                        !.sig = Signal(kind, "ahci")]
  /\ phase' = IF kind = "vblk" THEN "arm" ELSE "poll"
  /\ missed' = missed \cup Unnoticed
  /\ UNCHANGED <<drive, call, user, buf, taken, mem, spin, disk, late, calls>>

Arm ==
  /\ phase = "arm"
  /\ dev' = [dev EXCEPT !.sig = Signal(kind, "vblk")]
  /\ phase' = "poll"
  /\ UNCHANGED <<drive, call, user, buf, taken, mem, spin, disk, late, missed, calls>>

-----------------------------------------------------------------------------
(* Polling                                                                 *)

\* Mutant of GivesUp: the loop has no end of its own.
GivesUpNever(s) == FALSE

GivesUp(s) == s >= SpinMax

\* The driver sees nothing, and goes on or gives up.  IDE stops the bus
\* master first; the others leave the device its command and the memory.
Wait ==
  /\ phase = "poll" /\ dev.sig = "none"
  /\ IF GivesUp(spin)
     THEN /\ Return("io") /\ DmaFree /\ late' = TRUE
          /\ dev' = IF kind # "ide" THEN dev
                    ELSE [dev EXCEPT !.desc = None, !.waiting = 0,
                            !.cmd = IF Busy THEN [Command EXCEPT !.op = "stopped"]
                                    ELSE None]
     ELSE /\ spin' = Min({spin + 1, SpinMax})
          /\ UNCHANGED <<phase, buf, taken, call, late, dev>>
  /\ UNCHANGED <<drive, user, mem, disk, missed, calls>>

\* Mutant of Seen: an error that is signalled counts as the end.
SeenAny(sig) == sig # "none"

Seen(sig) == sig = "ok"

Finish ==
  /\ phase = "poll" /\ Seen(dev.sig)
  /\ user' = IF call.op = "write" THEN user
             ELSE [s \in 1 .. Sectors |->
                     IF s - call.done \in 1 .. N THEN mem[buf.at][s - call.done]
                     ELSE user[s]]
  /\ IF kind = "ahci" /\ call.op = "write"
     THEN /\ phase' = "flush" /\ spin' = 0
          /\ dev' = [dev EXCEPT !.desc = [Command EXCEPT !.op = "flush"],
                                !.waiting = 1, !.sig = "none"]
          /\ UNCHANGED <<call, buf, taken>>
     ELSE Advance(N) /\ DmaFree /\ UNCHANGED dev
  /\ UNCHANGED <<drive, mem, disk, late, missed, calls>>

Fault ==
  /\ phase = "poll" /\ dev.sig = "err" /\ ~Seen("err")
  /\ Return("io") /\ DmaFree
  /\ UNCHANGED <<drive, user, mem, dev, disk, late, missed, calls>>

\* AHCI waits for the cache of the drive to be written, and takes no notice
\* of an error or of the end of its patience.
Flush ==
  /\ phase = "flush"
  /\ IF dev.sig = "ok" \/ GivesUp(spin)
     THEN /\ Advance(N) /\ DmaFree
          /\ late' = (late \/ dev.sig = "none")
          /\ missed' = missed \cup (IF dev.sig = "err" THEN {"status"} ELSE {})
     ELSE /\ spin' = Min({spin + 1, SpinMax})
          /\ UNCHANGED <<phase, buf, taken, call, late, missed>>
  /\ UNCHANGED <<drive, user, mem, dev, disk, calls>>

\* IDE moves the first k sectors of the chunk through the data port, those at
\* S for nothing: the drive does not get them onto the disk.
Moved(k, S) ==
  IF call.op = "read"
  THEN /\ user' = [s \in 1 .. Sectors |-> IF s - call.done \in 1 .. k
                                          THEN disk[call.lba + s - 1] ELSE user[s]]
       /\ UNCHANGED disk
  ELSE /\ disk' = [s \in Sector |-> IF s - At \in 0 .. k - 1 /\ s \notin S
                                    THEN user[s - call.lba + 1] ELSE disk[s]]
       /\ UNCHANGED user

Stuck(d) == [d EXCEPT !.cmd = [op |-> "stopped"]]

\* All goes well; or the drive reports an error, or never asks for the next
\* sector.  Nobody looks at its status after the last sector of a write, nor
\* after the flush, nor whether that has ended.
Pio ==
  /\ phase = "pio" /\ ~Busy /\ ~dev.halted
  /\ \/ Moved(N, {}) /\ Advance(N) /\ UNCHANGED <<dev, late, missed>>
     \/ /\ \E k \in 0 .. N - 1 : Moved(k, {})
        /\ Return("io") /\ UNCHANGED missed
        /\ \/ dev' = [dev EXCEPT !.halted = TRUE] /\ UNCHANGED late
           \/ dev' = Stuck(dev) /\ late' = TRUE
     \/ /\ call.op = "write" /\ \E S \in SUBSET (At .. At + N - 1) : Moved(N, S)
        /\ Advance(N) /\ missed' = missed \cup {"status"}
        /\ \/ dev' = [dev EXCEPT !.halted = TRUE] /\ UNCHANGED late
           \/ dev' = Stuck(dev) /\ late' = TRUE
  /\ UNCHANGED <<drive, taken, mem, calls>>

-----------------------------------------------------------------------------
(* The device                                                              *)

Take ==
  /\ dev.waiting > 0 /\ dev.cmd = None
  /\ ~dev.halted
  /\ dev' = [dev EXCEPT !.cmd = dev.desc, !.waiting = @ - 1]
  /\ UNCHANGED <<drive, call, user, phase, buf, taken, mem, spin, disk, late, missed, calls>>

Done ==
  /\ dev.cmd # None
  /\ LET c == dev.cmd IN
     /\ disk' = IF c.op # "write" THEN disk
                ELSE [s \in Sector |-> IF s - c.lba \in 0 .. c.n - 1
                                       THEN mem[c.buf][s - c.lba + 1] ELSE disk[s]]
     /\ mem' = IF c.op # "read" THEN mem
               ELSE [mem EXCEPT ![c.buf] = [s \in 1 .. Sectors |->
                       IF s <= c.n THEN disk[c.lba + s - 1] ELSE @[s]]]
  /\ dev' = [dev EXCEPT !.cmd = None, !.sig = "ok"]
  /\ UNCHANGED <<drive, call, user, phase, buf, taken, spin, late, missed, calls>>

\* After an error an AHCI port is stopped until it is restarted, and an IDE
\* drive shows the error until the next command; no driver does either.  What
\* the cache held when a flush fails is lost.
Broken ==
  /\ dev.cmd # None
  /\ dev' = [dev EXCEPT !.cmd = None, !.sig = "err", !.halted = kind # "vblk"]
  /\ IF dev.cmd.op # "flush" THEN UNCHANGED disk
     ELSE \E S \in SUBSET (dev.cmd.lba .. dev.cmd.lba + dev.cmd.n - 1) :
            disk' = [s \in Sector |-> IF s \in S THEN Junk ELSE disk[s]]
  /\ UNCHANGED <<drive, call, user, phase, buf, taken, mem, spin, late, missed, calls>>

Driver ==
  \/ \E b \in Buffers, off \in 0 .. Align - 1 : Setup(b, off)
  \/ \E b \in Buffers : TooHigh(b)
  \/ NoBuffer \/ NotReady \/ NotReadyPio \/ Issue \/ Arm \/ Wait \/ Finish \/ Fault \/ Flush \/ Pio
Device == Take \/ Done \/ Broken

DiskNext ==
  \/ \E op \in {"read", "write"}, lba \in Sector, count \in 1 .. Sectors :
       Start(op, lba, count)
  \/ Driver
  \/ Device

\* The driver runs with interrupts masked, so it goes on; of the device
\* nothing is assumed.
DiskSpec == DiskInit /\ [][DiskNext]_diskVars /\ WF_diskVars(Driver)

-----------------------------------------------------------------------------
(* Properties                                                              *)

\* What a call that returns OK should mean, whatever it may miss of Except.
RightBut(Except) ==
  phase = "idle" /\ call.res = "ok" /\ ~late /\ missed \subseteq Except =>
    \A s \in 1 .. call.count : user[s] = disk[call.lba + s - 1]

\* As long as the device answers in time, a call that returns OK has read
\* what the sectors hold, or the sectors hold what it has written.  Not if the
\* drive failed behind the last look at its status, if it was told of fewer
\* sectors, or of another address: see below.
Transferred == RightBut({})

\* As long as the device answers in time, a write changes no sector outside
\* its range, even if it fails, and a read changes none.
InRange ==
  [][\A s \in Sector : disk'[s] # disk[s] /\ ~late =>
       /\ call.op = "write" /\ phase # "idle"
       /\ s \in call.lba .. call.lba + call.count - 1]_diskVars

\* Whatever goes wrong, no buffer is kept when a call has returned.
NothingKept == phase = "idle" => taken = {}

\* Whatever the device does, every call returns.
Returns == phase # "idle" ~> phase = "idle"

-----------------------------------------------------------------------------
(* What comments claim, and TLC refutes                                    *)

\* The data lies inside the buffer (IDE.c:537, AHCI.c:526): the part that is
\* aligned to 64 KiB ends before the pages that were allocated do.
InsideBuffer == buf # None => buf.pad + buf.len <= buf.pages

\* PIO is said to be the reliable way (IDE.c:384): OK means that the data
\* has arrived.
StatusSeen == RightBut({"status"})

\* AHCI is said to work with drives of LBA28 as with those of LBA48 (AHCI.c:7).
CountFits == RightBut({"count"})

\* The buffer of IDE is said to lie below 4 GiB (IDE.c:529).
Below4G == RightBut({"address"})
=============================================================================
