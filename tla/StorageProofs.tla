---------------------------- MODULE StorageProofs ----------------------------
(***************************************************************************)
(* Disk: for any disk, size of a command, places for buffers, patience of  *)
(* the drivers and number of calls, a call keeps no buffer, and as long as *)
(* the device answers in time a write changes only its own sectors.  What  *)
(* a call that returns OK moves has three exceptions, named in Disk.       *)
(* Files: for tables of any size and any names, no descriptor of VFS.c and *)
(* no reference to a node is lost, and a descriptor reaches its own file   *)
(* until a copy of it is closed.                                           *)
(* Devices: for any number of ports, channels and entries, what probes     *)
(* leave behind, what the hardware may still write to, and where the root  *)
(* is.                                                                     *)
(***************************************************************************)
EXTENDS Disk, Files, Devices, FiniteSetTheorems, WellFoundedInduction, TLAPS

-----------------------------------------------------------------------------
(* Disk: the drivers                                                       *)

Phase == {"idle", "setup", "issue", "arm", "poll", "flush", "pio"}
HasBuffer == phase \in {"issue", "arm", "poll", "flush"}
Commanded == phase \in {"arm", "poll", "flush"}

Data == [1 .. Sectors -> Int]
Result == {"ok", "running", "nomem", "io"}
Halted == [op |-> "stopped"]

\* What a device may be told: nothing, or to move sectors that exist.
Order ==
  {None, Halted} \cup
  {o \in [op : {"read", "write", "flush", "stopped"}, lba : Nat, n : Nat, buf : Buffers] :
     o.lba + o.n <= Sectors}

Dev == [desc : Order, waiting : Nat, cmd : Order, sig : {"none", "ok", "err"},
        halted : BOOLEAN]

DiskTypeInv ==
  /\ kind \in Kind /\ lba48 \in BOOLEAN
  /\ call \in [op : {"none", "read", "write"}, lba : Nat, count : Nat, done : Nat,
               res : Result]
  /\ user \in Data /\ mem \in [Buffers -> Data] /\ disk \in [Sector -> Int]
  /\ phase \in Phase /\ spin \in Nat /\ late \in BOOLEAN /\ calls \in Nat
  /\ dev \in Dev
  /\ buf \in {None} \cup [op : {"buf"}, at : Buffers, pages : Int, pad : Int, len : Int]

\* A call lies on the disk, and one that runs has something left to do.
CallInv ==
  /\ call.lba + call.count <= Sectors /\ call.done <= call.count
  /\ phase # "idle" => call.op \in {"read", "write"} /\ call.done < call.count

\* When there is a buffer, and that dma_alloc has given out no other.
BufInv ==
  /\ HasBuffer <=> buf # None
  /\ taken = IF HasBuffer THEN {buf.at} ELSE {}

\* While the device answers in time it knows of the command under way, at most
\* once, and of nothing else; a signal is that command's.
DevInv ==
  ~late =>
    /\ ~Commanded => dev.cmd = None /\ dev.waiting = 0
    /\ Commanded =>
         /\ dev.desc = IF phase = "flush" THEN [Command EXCEPT !.op = "flush"] ELSE Command
         /\ dev.cmd = None \/ (dev.cmd = dev.desc /\ dev.waiting = 0)
         /\ dev.waiting <= 1
    /\ phase \in {"poll", "flush"} /\ dev.sig # "none" =>
         dev.cmd = None /\ dev.waiting = 0
    /\ phase = "issue" /\ kind = "ide" => dev.sig = "none"
    /\ phase = "arm" => kind = "vblk"
    /\ phase = "flush" => call.op = "write"

\* The data of sector s of the call is in the caller's buffer and on the disk.
Moved1(s) == user[s] = disk[call.lba + s - 1]

\* How far the data has got: what is done, what waits in the buffer for a
\* write, and what the device has moved but the driver has not yet seen.
Behind == \A s \in 1 .. call.done : Moved1(s)
Whole == phase = "idle" /\ call.res = "ok" => \A s \in 1 .. call.count : Moved1(s)
Filled ==
  call.op = "write" /\ HasBuffer => \A k \in 1 .. N : mem[buf.at][k] = user[call.done + k]
Unseen ==
  phase = "poll" /\ dev.sig = "ok" => \A k \in 1 .. N : mem[buf.at][k] = disk[At + k - 1]
Flushing ==
  phase = "flush" /\ dev.sig # "err" => \A k \in 1 .. N : Moved1(call.done + k)

\* The device was told what the driver means.
Noticed == Commanded => Told(N) = N /\ Address = buf.at

DataInv ==
  ~late /\ missed = {} => Behind /\ Whole /\ Filled /\ Unseen /\ Flushing /\ Noticed

-----------------------------------------------------------------------------
(* The sizes                                                               *)

\* A chunk is not empty and no longer than what is left.
LEMMA Chunks ==
  ASSUME DiskTypeInv, CallInv, phase # "idle"
  PROVE  N \in Nat /\ 1 <= N /\ N <= Left /\ Left \in Nat /\ N <= Sectors
  <1>1. Left \in Nat /\ 1 <= Left /\ Left <= Sectors
    BY DiskAssumption DEF DiskTypeInv, CallInv, Left
  <1>2. Most(kind) \in Nat /\ 1 <= Most(kind)
    BY DiskAssumption DEF Most
  <1>3. N \in {Left, Most(kind)} /\ N <= Left
    <2> DEFINE S == {Left, Most(kind)}
    <2>1. \E x \in S : \A y \in S : x <= y
      BY <1>1, <1>2
    <2>2. N \in S /\ \A y \in S : N <= y
      BY <2>1 DEF N, Min
    <2> QED BY <2>2
  <1>4. Sectors \in Nat
    BY DiskAssumption
  <1> HIDE DEF N, Left
  <1> QED BY <1>1, <1>2, <1>3, <1>4

\* As long as call and driver are the same, so are the chunk and its place.
LEMMA SameChunk ==
  ASSUME UNCHANGED <<drive, call>>
  PROVE  N' = N /\ At' = At /\ Left' = Left /\ \A n : Told(n)' = Told(n)
  BY DEF N, At, Left, Most, Told, drive

\* The count that a command carries is not empty, and no more than was meant.
LEMMA Tells ==
  ASSUME NEW n \in Nat, 1 <= n
  PROVE  Told(n) \in Nat /\ 1 <= Told(n) /\ Told(n) <= n
  <1>1. Count28 \in Nat /\ 1 <= Count28
    BY DiskAssumption
  <1>2. CASE n - 1 < Count28
    <2>1. (n - 1) % Count28 = n - 1
      BY <1>1, <1>2
    <2> QED BY <2>1 DEF Told
  <1>3. CASE ~(n - 1 < Count28)
    <2>1. (n - 1) % Count28 \in 0 .. Count28 - 1
      BY <1>1
    <2> QED BY <1>1, <1>3, <2>1 DEF Told
  <1> QED BY <1>2, <1>3

\* A command of the driver names sectors that exist.
LEMMA CommandIsOrder ==
  ASSUME DiskTypeInv, CallInv, BufInv, HasBuffer
  PROVE  /\ Command \in Order /\ Command # None /\ Command.lba = At
         /\ Command.n = Told(N) /\ Command.n \in Nat /\ Command.n <= N
         /\ Command.buf = Address /\ Command.op = call.op /\ buf.at \in Buffers
         /\ [Command EXCEPT !.op = "flush"] \in Order
         /\ [Command EXCEPT !.op = "stopped"] \in Order
  <1>1. phase # "idle" /\ buf.at \in Buffers
    BY DEF HasBuffer, BufInv, DiskTypeInv
  <1>2. N \in Nat /\ At \in Nat /\ At + N <= Sectors /\ N >= 1
    BY <1>1, Chunks, DiskAssumption DEF At, Left, DiskTypeInv, CallInv
  <1>3. call.op \in {"read", "write"}
    BY <1>1 DEF CallInv
  <1>a. Address \in Buffers
    BY <1>1, DiskAssumption DEF Address
  <1> HIDE DEF N, At, Address
  <1>b. Told(N) \in Nat /\ Told(N) <= N
    BY <1>2, Tells
  <1> HIDE DEF Told
  <1> DEFINE n == Told(N)
  <1>c. n \in Nat /\ n <= N /\ At + n <= Sectors
    BY <1>2, <1>b, DiskAssumption
  <1>4. Command = [op |-> call.op, lba |-> At, n |-> n, buf |-> Address]
    BY DEF Command
  <1>5. /\ Command.lba = At /\ Command.n = n /\ Command.buf = Address
        /\ Command.op = call.op
    BY <1>4
  <1> HIDE DEF n
  <1>6. Command # None
    BY <1>3, <1>5 DEF None
  <1>7. Command \in Order
    BY <1>a, <1>2, <1>3, <1>4, <1>c DEF Order
  <1>8. /\ [Command EXCEPT !.op = "flush"] \in Order
        /\ [Command EXCEPT !.op = "stopped"] \in Order
    BY <1>a, <1>2, <1>3, <1>4, <1>c DEF Order
  <1>9. n = Told(N)
    BY DEF n
  <1> QED BY <1>1, <1>5, <1>6, <1>7, <1>8, <1>9, <1>c

-----------------------------------------------------------------------------
(* Types                                                                   *)

LEMMA DiskInitInv == DiskInit => DiskTypeInv /\ CallInv /\ BufInv /\ DevInv /\ DataInv
  <1> SUFFICES ASSUME DiskInit PROVE DiskTypeInv /\ CallInv /\ BufInv /\ DevInv /\ DataInv
    OBVIOUS
  <1>1. None \in Order /\ Blank \in Data
    BY DEF Order, Blank, Data, Junk
  <1>2. DiskTypeInv
    <2>1. user \in Data /\ mem \in [Buffers -> Data] /\ disk \in [Sector -> Int]
      BY <1>1 DEF DiskInit
    <2>2. call \in [op : {"none", "read", "write"}, lba : Nat, count : Nat, done : Nat,
                    res : Result]
      BY DEF DiskInit, Result
    <2>3. dev \in Dev
      BY <1>1 DEF DiskInit, Dev
    <2> QED BY <2>1, <2>2, <2>3 DEF DiskInit, DiskTypeInv, Phase
  <1>3. CallInv /\ BufInv /\ DevInv
    BY DiskAssumption DEF DiskInit, CallInv, BufInv, DevInv, HasBuffer, Commanded
  <1>4. DataInv
    BY DEF DiskInit, DataInv, Behind, Whole, Filled, Unseen, Flushing, HasBuffer,
           Noticed, Commanded
  <1> QED BY <1>2, <1>3, <1>4

\* Where the driver goes when a call returns or its chunk is done.
LEMMA ReturnTypes ==
  ASSUME DiskTypeInv, NEW res \in Result, Return(res)
  PROVE  /\ phase' \in Phase /\ buf' = None /\ spin' \in Nat
         /\ call' \in [op : {"none", "read", "write"}, lba : Nat, count : Nat,
                       done : Nat, res : Result]
         /\ phase' = "idle" /\ call' = [call EXCEPT !.res = res]
  <1>1. phase' = "idle" /\ buf' = None /\ spin' = 0 /\ call' = [call EXCEPT !.res = res]
    BY DEF Return
  <1> QED BY <1>1 DEF DiskTypeInv, Phase

LEMMA AdvanceTypes ==
  ASSUME DiskTypeInv, CallInv, phase # "idle", Advance(N)
  PROVE  /\ phase' \in Phase /\ buf' = None /\ spin' \in Nat
         /\ call' \in [op : {"none", "read", "write"}, lba : Nat, count : Nat,
                       done : Nat, res : Result]
         /\ \/ N = Left /\ phase' = "idle" /\ call' = [call EXCEPT !.res = "ok"]
            \/ /\ N # Left /\ phase' = "setup"
               /\ call' = [call EXCEPT !.done = @ + N]
  <1>1. CASE N = Left
    <2>1. Return("ok")
      BY <1>1 DEF Advance
    <2>2. "ok" \in Result
      BY DEF Result
    <2> HIDE DEF N, Left
    <2> QED BY <1>1, <2>1, <2>2, ReturnTypes
  <1>2. CASE N # Left
    <2>1. N \in Nat
      BY Chunks
    <2>2. /\ phase' = "setup" /\ buf' = None /\ spin' = 0
          /\ call' = [call EXCEPT !.done = @ + N]
      BY <1>2 DEF Advance
    <2> HIDE DEF N, Left
    <2> QED BY <1>2, <2>1, <2>2 DEF DiskTypeInv, Phase
  <1> QED BY <1>1, <1>2

\* The caller's buffer, the disk and the memory keep their shape.
LEMMA DataTypes ==
  ASSUME DiskTypeInv, CallInv
  PROVE  /\ Blank \in Data
         /\ [s \in 1 .. Sectors |-> calls + 1] \in Data
         /\ \A k \in 0 .. N, L \in SUBSET Int :
              phase # "idle" /\ Moved(k, L) => user' \in Data /\ disk' \in [Sector -> Int]
  <1>1. Blank \in Data /\ [s \in 1 .. Sectors |-> calls + 1] \in Data
    BY DEF Blank, Junk, Data, DiskTypeInv
  <1>2. ASSUME NEW k \in 0 .. N, NEW L \in SUBSET Int, phase # "idle", Moved(k, L)
        PROVE  user' \in Data /\ disk' \in [Sector -> Int]
    <2>1. N \in Nat /\ N <= Left /\ Left \in Nat
      BY <1>2, Chunks
    <2> HIDE DEF N
    <2>2. k \in Nat /\ k <= Left
      BY <2>1
    <2>3. CASE call.op = "read"
      <3>1. \A s \in 1 .. Sectors : s - call.done \in 1 .. k =>
              call.lba + s - 1 \in Sector
        <4>1. /\ call.lba \in Nat /\ call.count \in Nat /\ call.done \in Nat
              /\ Sectors \in Nat /\ call.lba + call.count <= Sectors
              /\ k <= call.count - call.done
          BY <2>2, DiskAssumption DEF Left, DiskTypeInv, CallInv
        <4> QED BY <2>2, <4>1 DEF Sector
      <3> QED BY <1>2, <2>3, <3>1 DEF Moved, Data, DiskTypeInv
    <2>4. CASE call.op # "read"
      <3>1. \A s \in Sector : s - At \in 0 .. k - 1 => s - call.lba + 1 \in 1 .. Sectors
        <4>1. /\ call.lba \in Nat /\ call.count \in Nat /\ call.done \in Nat
              /\ Sectors \in Nat /\ call.lba + call.count <= Sectors
              /\ k <= call.count - call.done
          BY <2>2, DiskAssumption DEF Left, DiskTypeInv, CallInv
        <4> QED BY <2>2, <4>1 DEF Sector, At
      <3> QED BY <1>2, <2>4, <3>1 DEF Moved, Data, DiskTypeInv
    <2> QED BY <2>3, <2>4
  <1> QED BY <1>1, <1>2

LEMMA TypeStep == DiskTypeInv /\ CallInv /\ BufInv /\ [DiskNext]_diskVars => DiskTypeInv'
  <1> SUFFICES ASSUME DiskTypeInv, CallInv, BufInv, [DiskNext]_diskVars PROVE DiskTypeInv'
    OBVIOUS
  <1>0. {"ok", "running", "nomem", "io"} \subseteq Result /\ None \in Order /\ Halted \in Order
    BY DEF Result, Order
  <1>1. ASSUME NEW op \in {"read", "write"}, NEW lba \in Sector,
               NEW count \in 1 .. Sectors, Start(op, lba, count)
        PROVE  DiskTypeInv'
    <2>1. user' \in Data
      BY <1>1, DataTypes DEF Start
    <2>2. call' \in [op : {"none", "read", "write"}, lba : Nat, count : Nat,
                     done : Nat, res : Result]
      BY <1>1, DiskAssumption DEF Start, Sector, Result
    <2> QED BY <1>1, <2>1, <2>2 DEF Start, DiskTypeInv, Phase, drive
  <1>2. ASSUME NEW b \in Buffers, NEW off \in 0 .. Align - 1, Setup(b, off)
        PROVE  DiskTypeInv'
    <2>1. N \in Nat /\ N <= Left
      BY <1>2, Chunks DEF Setup
    <2>2. Pad(off) \in Int /\ Pages \in Int
      <3> HIDE DEF N
      <3> QED BY <2>1, DiskAssumption DEF Pad, Pages
    <2> HIDE DEF N, Pad, Pages
    <2>3. buf' \in [op : {"buf"}, at : Buffers, pages : Int, pad : Int, len : Int]
      BY <1>2, <2>1, <2>2 DEF Setup
    <2>4. mem' \in [Buffers -> Data]
      <3>1. \A s \in 1 .. Sectors : s <= N => call.done + s \in 1 .. Sectors
        BY <2>1, DiskAssumption DEF Left, DiskTypeInv, CallInv
      <3>2. [s \in 1 .. Sectors |->
               IF call.op = "write" /\ s <= N THEN user[call.done + s] ELSE Junk] \in Data
        BY <3>1 DEF Data, DiskTypeInv, Junk
      <3> QED BY <1>2, <3>2 DEF Setup, DiskTypeInv, drive
    <2>5. dev' \in Dev
      <3>1. Signal(kind, "ide") \in {"none", "ok", "err"}
        BY DEF Signal, DiskTypeInv, Dev
      <3>2. dev' = [dev EXCEPT !.sig = Signal(kind, "ide")] /\ dev \in Dev
        BY <1>2 DEF Setup, DiskTypeInv, drive
      <3> QED BY <3>1, <3>2 DEF Dev
    <2> QED BY <1>2, <2>3, <2>4, <2>5 DEF Setup, DiskTypeInv, Phase, drive
  <1>3. CASE NoBuffer
    <2>1. CASE Return("nomem")
      BY <1>0, <1>3, <2>1, ReturnTypes DEF NoBuffer, DiskTypeInv, drive
    <2>2. CASE ~Return("nomem")
      BY <1>3, <2>2 DEF NoBuffer, DiskTypeInv, Phase, drive
    <2> QED BY <2>1, <2>2
  <1>4. CASE NotReady \/ NotReadyPio
    <2>1. Return("io") /\ UNCHANGED <<drive, user, mem, dev, disk, missed, calls>>
      BY <1>4 DEF NotReady, NotReadyPio, Refused
    <2>2. late' \in BOOLEAN
      BY <1>4 DEF NotReady, NotReadyPio, Refused, DiskTypeInv, Busy
    <2> QED BY <1>0, <2>1, <2>2, ReturnTypes DEF DiskTypeInv, drive
  <1>16. ASSUME NEW b \in Buffers, TooHigh(b) PROVE DiskTypeInv'
    <2>1. Return("io") /\ UNCHANGED <<drive, user, taken, dev, disk, late, missed, calls>>
      BY <1>16 DEF TooHigh
    <2>2. mem' \in [Buffers -> Data]
      BY <1>16, DataTypes DEF TooHigh, DiskTypeInv, drive
    <2> QED BY <1>0, <2>1, <2>2, ReturnTypes DEF DiskTypeInv, drive
  <1>5. CASE Issue
    <2>1. Command \in Order
      BY <1>5, CommandIsOrder DEF Issue, HasBuffer
    <2>2. dev' \in Dev
      <3> DEFINE w == IF kind = "vblk" THEN dev.waiting + 1 ELSE 1
                 g == Signal(kind, "ahci")
      <3>1. w \in Nat /\ g \in {"none", "ok", "err"}
        BY DEF Signal, DiskTypeInv, Dev
      <3>2. dev' = [dev EXCEPT !.desc = Command, !.waiting = w, !.sig = g] /\ dev \in Dev
        BY <1>5 DEF Issue, DiskTypeInv, drive
      <3> HIDE DEF w, g, Command
      <3> QED BY <2>1, <3>1, <3>2 DEF Dev
    <2> QED BY <1>5, <2>2 DEF Issue, DiskTypeInv, Phase, drive
  <1>6. CASE Arm
    <2>1. Signal(kind, "vblk") \in {"none", "ok", "err"}
      BY DEF Signal, DiskTypeInv, Dev
    <2>2. dev' \in Dev
      <3>1. dev' = [dev EXCEPT !.sig = Signal(kind, "vblk")] /\ dev \in Dev
        BY <1>6 DEF Arm, DiskTypeInv, drive
      <3> QED BY <2>1, <3>1 DEF Dev
    <2> QED BY <1>6, <2>2 DEF Arm, DiskTypeInv, Phase, drive
  <1>7. CASE Wait
    <2>1. [Command EXCEPT !.op = "stopped"] \in Order
      BY <1>7, CommandIsOrder DEF Wait, HasBuffer
    <2>2. CASE GivesUp(spin)
      <3>1. Return("io")
        BY <1>7, <2>2 DEF Wait
      <3>2. dev' \in Dev
        <4>1. PICK o \in Order :
                \/ dev' = dev
                \/ dev' = [dev EXCEPT !.desc = None, !.waiting = 0, !.cmd = o]
          BY <1>0, <1>7, <2>1, <2>2 DEF Wait
        <4>2. dev \in Dev
          BY DEF DiskTypeInv
        <4>3. CASE dev' = dev
          BY <4>2, <4>3
        <4>4. CASE dev' = [dev EXCEPT !.desc = None, !.waiting = 0, !.cmd = o]
          BY <1>0, <4>2, <4>4 DEF Dev
        <4> QED BY <4>1, <4>3, <4>4
      <3> QED BY <1>0, <1>7, <2>2, <3>1, <3>2, ReturnTypes DEF Wait, DiskTypeInv, drive
    <2>3. CASE ~GivesUp(spin)
      <3>1. spin + 1 \in Nat /\ SpinMax \in Nat /\ spin' = Min({spin + 1, SpinMax})
        BY <1>7, <2>3, DiskAssumption DEF Wait, DiskTypeInv, drive
      <3>2. spin' \in Nat
        BY <3>1 DEF Min
      <3> QED BY <1>7, <2>3, <3>2 DEF Wait, DiskTypeInv, drive
    <2> QED BY <2>2, <2>3
  <1>8. CASE Finish
    <2>1. user' \in Data
      <3>1. N \in Nat /\ N <= Sectors /\ buf.at \in Buffers
        BY <1>8, Chunks, CommandIsOrder DEF Finish, HasBuffer
      <3> HIDE DEF N
      <3>2. \A i \in 1 .. N : i \in 1 .. Sectors
        BY <3>1, DiskAssumption
      <3> DEFINE row == mem[buf.at]
                 new == [s \in 1 .. Sectors |->
                           IF s - call.done \in 1 .. N THEN row[s - call.done] ELSE user[s]]
      <3>3. row \in Data /\ user \in Data
        BY <3>1 DEF DiskTypeInv
      <3>4. user' = user \/ user' = new
        BY <1>8 DEF Finish
      <3> HIDE DEF row
      <3>5. new \in Data
        BY <3>2, <3>3 DEF Data
      <3> QED BY <3>3, <3>4, <3>5
    <2>2. CASE kind = "ahci" /\ call.op = "write"
      <3>1. [Command EXCEPT !.op = "flush"] \in Order
        BY <1>8, CommandIsOrder DEF Finish, HasBuffer
      <3>2. dev' \in Dev
        <4>1. PICK o \in Order : dev' = [dev EXCEPT !.desc = o, !.waiting = 1, !.sig = "none"]
          BY <1>8, <2>2, <3>1 DEF Finish
        <4>2. dev \in Dev
          BY DEF DiskTypeInv
        <4> QED BY <4>1, <4>2 DEF Dev
      <3> QED BY <1>8, <2>1, <2>2, <3>2 DEF Finish, DiskTypeInv, Phase, drive
    <2>3. CASE ~(kind = "ahci" /\ call.op = "write")
      <3>1. Advance(N) /\ UNCHANGED dev
        BY <1>8, <2>3 DEF Finish
      <3> QED BY <1>8, <2>1, <3>1, AdvanceTypes DEF Finish, DiskTypeInv, drive
    <2> QED BY <2>2, <2>3
  <1>9. CASE Fault
    BY <1>0, <1>9, ReturnTypes DEF Fault, DiskTypeInv, drive
  <1>10. CASE Flush
    <2>1. CASE dev.sig = "ok" \/ GivesUp(spin)
      <3>1. Advance(N) /\ late' \in BOOLEAN
        BY <1>10, <2>1 DEF Flush, DiskTypeInv, drive
      <3> QED BY <1>10, <3>1, AdvanceTypes DEF Flush, DiskTypeInv, drive
    <2>2. CASE ~(dev.sig = "ok" \/ GivesUp(spin))
      <3>1. spin + 1 \in Nat /\ SpinMax \in Nat /\ spin' = Min({spin + 1, SpinMax})
        BY <1>10, <2>2, DiskAssumption DEF Flush, DiskTypeInv, drive
      <3>2. spin' \in Nat
        BY <3>1 DEF Min
      <3> QED BY <1>10, <2>2, <3>2 DEF Flush, DiskTypeInv, drive
    <2> QED BY <2>1, <2>2
  <1>11. CASE Pio
    <2>1. N \in Nat
      BY <1>11, Chunks DEF Pio
    <2>a. phase # "idle" /\ At \in Int
      BY <1>11 DEF Pio, At, DiskTypeInv
    <2>b. ASSUME NEW k \in 0 .. N, NEW L \in SUBSET Int, Moved(k, L)
          PROVE  user' \in Data /\ disk' \in [Sector -> Int]
      BY <2>a, <2>b, DataTypes
    <2>c. ASSUME \/ dev' = [dev EXCEPT !.halted = TRUE] /\ UNCHANGED late
                 \/ dev' = Stuck(dev) /\ late' = TRUE
          PROVE  dev' \in Dev /\ late' \in BOOLEAN
      <3>1. /\ \/ dev' = [dev EXCEPT !.halted = TRUE]
               \/ dev' = [dev EXCEPT !.cmd = Halted]
            /\ late' \in BOOLEAN
        BY <2>c DEF Halted, Stuck, DiskTypeInv
      <3>2. dev \in Dev
        BY DEF DiskTypeInv
      <3> QED BY <1>0, <3>1, <3>2 DEF Dev
    <2>d. UNCHANGED <<drive, taken, mem, calls>>
      BY <1>11 DEF Pio
    <2>2. CASE Moved(N, {}) /\ Advance(N) /\ UNCHANGED <<dev, late, missed>>
      <3>1. N \in 0 .. N /\ {} \in SUBSET Int
        BY <2>1
      <3>2. user' \in Data /\ disk' \in [Sector -> Int]
        BY <2>2, <2>b, <3>1
      <3> QED BY <2>2, <2>a, <2>d, <3>2, AdvanceTypes DEF DiskTypeInv, drive
    <2>3. CASE /\ \E k \in 0 .. N - 1 : Moved(k, {})
               /\ Return("io") /\ UNCHANGED missed
               /\ \/ dev' = [dev EXCEPT !.halted = TRUE] /\ UNCHANGED late
                  \/ dev' = Stuck(dev) /\ late' = TRUE
      <3>1. PICK k \in 0 .. N - 1 : Moved(k, {})
        BY <2>3
      <3>2. k \in 0 .. N /\ {} \in SUBSET Int
        BY <2>1
      <3>3. user' \in Data /\ disk' \in [Sector -> Int]
        BY <2>b, <3>1, <3>2
      <3>4. dev' \in Dev /\ late' \in BOOLEAN
        BY <2>3, <2>c
      <3> QED BY <1>0, <2>3, <2>d, <3>3, <3>4, ReturnTypes DEF DiskTypeInv, drive
    <2>4. CASE /\ \E L \in SUBSET (At .. At + N - 1) : Moved(N, L)
               /\ Advance(N)
               /\ \/ dev' = [dev EXCEPT !.halted = TRUE] /\ UNCHANGED late
                  \/ dev' = Stuck(dev) /\ late' = TRUE
      <3>1. PICK L \in SUBSET (At .. At + N - 1) : Moved(N, L)
        BY <2>4
      <3>2. N \in 0 .. N /\ L \in SUBSET Int
        BY <2>1, <2>a
      <3>3. user' \in Data /\ disk' \in [Sector -> Int]
        BY <2>b, <3>1, <3>2
      <3>4. dev' \in Dev /\ late' \in BOOLEAN
        BY <2>4, <2>c
      <3> QED BY <2>4, <2>a, <2>d, <3>3, <3>4, AdvanceTypes DEF DiskTypeInv, drive
    <2> HIDE DEF N, At
    <2> QED BY <1>11, <2>2, <2>3, <2>4 DEF Pio
  <1>12. CASE Take
    <2>1. dev' = [dev EXCEPT !.cmd = dev.desc, !.waiting = dev.waiting - 1]
      BY <1>12 DEF Take
    <2>2. dev.waiting - 1 \in Nat /\ dev.desc \in Order
      BY <1>12 DEF Take, DiskTypeInv, Dev
    <2>3. dev' \in Dev
      <3>1. dev \in Dev
        BY DEF DiskTypeInv
      <3> QED BY <2>1, <2>2, <3>1 DEF Dev
    <2> QED BY <1>12, <2>3 DEF Take, DiskTypeInv, drive
  <1>13. CASE Done
    <2>1. ASSUME dev.cmd.op = "write"
          PROVE  disk' \in [Sector -> Int]
      <3>1. /\ dev.cmd.buf \in Buffers /\ dev.cmd.n \in Nat /\ dev.cmd.lba \in Nat
            /\ dev.cmd.lba + dev.cmd.n <= Sectors
        BY <2>1 DEF DiskTypeInv, Dev, Order, Halted, None
      <3>2. \A s \in Sector : s - dev.cmd.lba \in 0 .. dev.cmd.n - 1 =>
              s - dev.cmd.lba + 1 \in 1 .. Sectors
        BY <3>1, DiskAssumption DEF Sector
      <3> DEFINE row == mem[dev.cmd.buf]
      <3>3. disk' = [s \in Sector |-> IF s - dev.cmd.lba \in 0 .. dev.cmd.n - 1
                                      THEN row[s - dev.cmd.lba + 1] ELSE disk[s]]
        BY <1>13, <2>1 DEF Done
      <3>4. row \in Data /\ disk \in [Sector -> Int]
        BY <3>1 DEF DiskTypeInv
      <3> HIDE DEF row
      <3> QED BY <3>2, <3>3, <3>4 DEF Data
    <2>2. ASSUME dev.cmd.op = "read"
          PROVE  mem' \in [Buffers -> Data]
      <3>1. /\ dev.cmd.buf \in Buffers /\ dev.cmd.n \in Nat /\ dev.cmd.lba \in Nat
            /\ dev.cmd.lba + dev.cmd.n <= Sectors
        BY <2>2 DEF DiskTypeInv, Dev, Order, Halted, None
      <3>2. \A s \in 1 .. Sectors : s <= dev.cmd.n => dev.cmd.lba + s - 1 \in Sector
        BY <3>1, DiskAssumption DEF Sector
      <3> QED BY <1>13, <2>2, <3>1, <3>2 DEF Done, DiskTypeInv, Data
    <2>3. disk' \in [Sector -> Int] /\ mem' \in [Buffers -> Data]
      BY <1>13, <2>1, <2>2 DEF Done, DiskTypeInv, drive
    <2>4. dev' \in Dev
      <3>1. dev' = [dev EXCEPT !.cmd = None, !.sig = "ok"] /\ dev \in Dev
        BY <1>13 DEF Done, DiskTypeInv, drive
      <3> QED BY <1>0, <3>1 DEF Dev
    <2> QED BY <1>13, <2>3, <2>4 DEF Done, DiskTypeInv, drive
  <1>14. CASE Broken
    <2>1. dev' \in Dev
      <3>1. /\ dev' = [dev EXCEPT !.cmd = None, !.sig = "err", !.halted = kind # "vblk"]
            /\ dev \in Dev
        BY <1>14 DEF Broken, DiskTypeInv, drive
      <3> QED BY <1>0, <3>1 DEF Dev
    <2>2. disk' \in [Sector -> Int]
      BY <1>14 DEF Broken, DiskTypeInv, Junk
    <2> QED BY <1>14, <2>1, <2>2 DEF Broken, DiskTypeInv, drive
  <1>15. CASE UNCHANGED diskVars
    BY <1>15 DEF diskVars, DiskTypeInv
  <1> QED BY <1>1, <1>2, <1>3, <1>4, <1>5, <1>6, <1>7, <1>8, <1>9, <1>10, <1>11, <1>12,
             <1>13, <1>14, <1>15, <1>16 DEF DiskNext, Driver, Device

-----------------------------------------------------------------------------
(* Calls and buffers                                                       *)

\* What each step does to the call and to the buffer, in the terms the other
\* invariants need.
Starts == \E op \in {"read", "write"}, lba \in Sector, count \in 1 .. Sectors :
            Start(op, lba, count)
Setups == \E b \in Buffers, off \in 0 .. Align - 1 : Setup(b, off)

\* A step of the driver ends the call, or the chunk, or leaves the call alone.
Ends(res) ==
  /\ phase' = "idle" /\ buf' = None /\ taken' = {}
  /\ call' = [call EXCEPT !.res = res]
NextChunk ==
  /\ N # Left /\ phase' = "setup" /\ buf' = None /\ taken' = {}
  /\ call' = [call EXCEPT !.done = @ + N]
Goes == UNCHANGED call /\ (phase' = "idle" <=> phase = "idle") /\ BufInv'

LEMMA Outcome ==
  ASSUME DiskTypeInv, CallInv, BufInv, [DiskNext]_diskVars, ~Starts
  PROVE  \/ phase # "idle" /\ Ends("io")
         \/ phase # "idle" /\ Ends("nomem")
         \/ phase # "idle" /\ N = Left /\ Ends("ok")
         \/ phase # "idle" /\ NextChunk
         \/ Goes
  <1>1. CASE Setups
    <2>1. PICK b \in Buffers, off \in 0 .. Align - 1 : Setup(b, off)
      BY <1>1 DEF Setups
    <2>2. /\ phase = "setup" /\ phase' = "issue" /\ call' = call
          /\ taken' = taken \cup {b} /\ buf'.at = b /\ buf' # None
      BY <2>1 DEF Setup, None
    <2>3. taken = {}
      BY <2>2 DEF BufInv, HasBuffer
    <2> QED BY <2>2, <2>3 DEF Goes, HasBuffer, BufInv
  <1>a. phase \in {"issue", "poll", "flush"} /\ DmaFree => taken' = {}
    BY DEF BufInv, HasBuffer, DmaFree
  <1>b. ~HasBuffer => taken = {} /\ buf = None
    BY DEF BufInv
  <1>2. CASE NoBuffer
    BY <1>2, <1>b DEF NoBuffer, Return, Ends, Goes, HasBuffer, BufInv
  <1>12. CASE \E b \in Buffers : TooHigh(b)
    BY <1>12, <1>b DEF TooHigh, Return, Ends, HasBuffer
  <1>3. CASE NotReady
    BY <1>3, <1>a DEF NotReady, Refused, Return, Ends
  <1>11. CASE NotReadyPio
    BY <1>11, <1>b DEF NotReadyPio, Refused, Return, Ends, HasBuffer
  <1>4. CASE Issue \/ Arm
    BY <1>4 DEF Issue, Arm, Goes, HasBuffer, BufInv
  <1>5. CASE Wait
    BY <1>5, <1>a DEF Wait, Return, Ends, Goes, HasBuffer, BufInv
  <1>6. CASE Finish
    <2>1. CASE kind = "ahci" /\ call.op = "write"
      BY <1>6, <2>1 DEF Finish, Goes, HasBuffer, BufInv
    <2>2. CASE ~(kind = "ahci" /\ call.op = "write")
      BY <1>6, <1>a, <2>2, AdvanceTypes DEF Finish, Ends, NextChunk
    <2> QED BY <2>1, <2>2
  <1>7. CASE Fault
    BY <1>7, <1>a DEF Fault, Return, Ends
  <1>8. CASE Flush
    <2>1. CASE Advance(N) /\ DmaFree
      BY <1>8, <1>a, <2>1, AdvanceTypes DEF Flush, Ends, NextChunk
    <2>2. CASE ~(Advance(N) /\ DmaFree)
      BY <1>8, <2>2 DEF Flush, Goes, HasBuffer, BufInv
    <2> QED BY <2>1, <2>2
  <1>9. CASE Pio
    <2>0. phase = "pio" /\ taken' = {}
      BY <1>9, <1>b DEF Pio, HasBuffer
    <2>1. CASE Advance(N)
      BY <2>0, <2>1, AdvanceTypes DEF Ends, NextChunk
    <2>2. CASE Return("io")
      BY <2>0, <2>2 DEF Return, Ends
    <2> QED BY <1>9, <2>1, <2>2 DEF Pio
  <1>10. CASE Device \/ UNCHANGED diskVars
    BY <1>10 DEF Device, Take, Done, Broken, diskVars, Goes, HasBuffer, BufInv
  <1> QED BY <1>1, <1>2, <1>3, <1>4, <1>5, <1>6, <1>7, <1>8, <1>9, <1>10, <1>11, <1>12
          DEF DiskNext, Driver, Starts, Setups

LEMMA CallStep == DiskTypeInv /\ CallInv /\ BufInv /\ [DiskNext]_diskVars => CallInv' /\ BufInv'
  <1> SUFFICES ASSUME DiskTypeInv, CallInv, BufInv, [DiskNext]_diskVars PROVE CallInv' /\ BufInv'
    OBVIOUS
  <1>1. CASE Starts
    <2>1. PICK op \in {"read", "write"}, lba \in Sector, count \in 1 .. Sectors :
                 Start(op, lba, count)
      BY <1>1 DEF Starts
    <2>2. taken' = taken /\ buf' = buf /\ ~HasBuffer /\ ~HasBuffer'
      BY <2>1 DEF Start, HasBuffer
    <2>3. BufInv'
      BY <2>2 DEF BufInv
    <2> QED BY <2>1, <2>3, DiskAssumption DEF Start, Sector, CallInv
  <1>2. ASSUME NEW res \in Result, Ends(res)
        PROVE  CallInv' /\ BufInv'
    BY <1>2 DEF Ends, CallInv, BufInv, HasBuffer, DiskTypeInv
  <1>3. CASE phase # "idle" /\ NextChunk
    <2>1. N \in Nat /\ N < call.count - call.done
      BY <1>3, Chunks DEF NextChunk, Left, DiskTypeInv
    <2> HIDE DEF N
    <2> QED BY <1>3, <2>1 DEF NextChunk, CallInv, BufInv, HasBuffer, DiskTypeInv
  <1>4. CASE Goes
    BY <1>4 DEF Goes, CallInv, BufInv
  <1>5. {"ok", "nomem", "io"} \subseteq Result
    BY DEF Result
  <1> QED BY <1>1, <1>2, <1>3, <1>4, <1>5, Outcome

-----------------------------------------------------------------------------
(* The device                                                              *)

\* A driver that has given up stays so.
LEMMA LateStays == DiskTypeInv /\ [DiskNext]_diskVars /\ ~late' => ~late
  BY DEF DiskTypeInv, DiskNext, Driver, Device, Start, Setup, TooHigh, NoBuffer, NotReady,
         NotReadyPio, Refused, Issue, Arm, Wait, Finish, Fault, Flush, Pio, Take, Done,
         Broken, diskVars

\* What a call has missed, it goes on to have missed.
LEMMA MissedStays == [DiskNext]_diskVars /\ missed' = {} => missed = {} \/ Starts
  BY DEF DiskNext, Driver, Device, Setup, TooHigh, NoBuffer, NotReady,
         NotReadyPio, Refused, Issue, Arm, Wait, Finish, Fault, Flush, Pio, Take, Done,
         Broken, diskVars, Starts

LEMMA SameCommand ==
  ASSUME UNCHANGED <<drive, call, buf>>
  PROVE  Command' = Command
  <1>1. N' = N /\ At' = At /\ Told(N)' = Told(N) /\ Address' = Address
    BY SameChunk DEF Address, drive
  <1> HIDE DEF N, At, Told, Address
  <1> QED BY <1>1 DEF Command

\* The device while the driver waits for nothing, and a step that leaves it so.
Quiet == dev.cmd = None /\ dev.waiting = 0

LEMMA QuietStep ==
  ASSUME Quiet, UNCHANGED <<dev.cmd, dev.waiting>>, phase' \in {"idle", "setup", "pio"}
  PROVE  DevInv'
  BY DEF Quiet, DevInv, Commanded

LEMMA DevStep ==
  DiskTypeInv /\ CallInv /\ BufInv /\ DevInv /\ [DiskNext]_diskVars => DevInv'
  <1> SUFFICES ASSUME DiskTypeInv, CallInv, BufInv, DevInv, [DiskNext]_diskVars, ~late'
               PROVE  DevInv'
    BY DEF DevInv
  <1>0. ~late
    BY LateStays
  <1>a. dev \in Dev /\ kind \in {"vblk", "ahci", "ide"}
    BY DiskAssumption DEF DiskTypeInv
  <1>1. CASE Starts
    BY <1>0, <1>1, QuietStep DEF Starts, Start, Quiet, DevInv, Commanded
  <1>2. ASSUME NEW b \in Buffers, NEW off \in 0 .. Align - 1, Setup(b, off)
        PROVE  DevInv'
    <2>1. dev' = [dev EXCEPT !.sig = Signal(kind, "ide")] /\ phase = "setup"
          /\ phase' = "issue" /\ kind' = kind
      BY <1>2 DEF Setup, drive
    <2>2. dev'.cmd = None /\ dev'.waiting = 0 /\ (kind = "ide" => dev'.sig = "none")
      BY <1>0, <1>a, <2>1 DEF DevInv, Commanded, Dev, Signal
    <2> QED BY <2>1, <2>2 DEF DevInv, Commanded, drive
  <1>3. CASE NoBuffer
    BY <1>0, <1>3, QuietStep DEF NoBuffer, Return, Quiet, DevInv, Commanded
  <1>4. CASE NotReady \/ NotReadyPio
    BY <1>0, <1>4, QuietStep DEF NotReady, NotReadyPio, Refused, Return, Quiet, DevInv,
                                 Commanded
  <1>15. ASSUME NEW b \in Buffers, TooHigh(b) PROVE DevInv'
    BY <1>0, <1>15, QuietStep DEF TooHigh, Return, Quiet, DevInv, Commanded
  <1>5. CASE Issue
    <2>1. Command' = Command
      BY <1>5, SameCommand DEF Issue
    <2>2. dev.cmd = None /\ dev.waiting = 0 /\ (kind = "ide" => dev.sig = "none")
      BY <1>0, <1>5 DEF Issue, DevInv, Commanded
    <2>3. dev' = [dev EXCEPT !.desc = Command, !.waiting = 1, !.sig = Signal(kind, "ahci")]
      BY <1>5, <2>2 DEF Issue
    <2> HIDE DEF Command
    <2>4. /\ dev'.desc = Command /\ dev'.waiting = 1 /\ dev'.cmd = None
          /\ kind # "vblk" => dev'.sig = "none"
      BY <1>a, <2>2, <2>3 DEF Dev, Signal
    <2>5. kind' = kind /\ phase' = IF kind = "vblk" THEN "arm" ELSE "poll"
      BY <1>5 DEF Issue, drive
    <2> QED BY <2>1, <2>4, <2>5 DEF DevInv, Commanded, drive
  <1>6. CASE Arm
    <2>1. Command' = Command
      BY <1>6, SameCommand DEF Arm
    <2>2. kind = "vblk" /\ phase = "arm" /\ phase' = "poll"
          /\ dev' = [dev EXCEPT !.sig = "none"]
      BY <1>0, <1>6 DEF Arm, DevInv, Signal
    <2> HIDE DEF Command
    <2>3. /\ dev'.desc = Command /\ dev'.waiting <= 1 /\ dev'.sig = "none"
          /\ dev'.cmd = None \/ (dev'.cmd = dev'.desc /\ dev'.waiting = 0)
      BY <1>0, <1>a, <2>2 DEF DevInv, Commanded, Dev
    <2> QED BY <2>1, <2>2, <2>3 DEF DevInv, Commanded, drive
  <1>7. CASE Wait
    <2>1. UNCHANGED <<drive, call, buf, phase, dev, late>>
      BY <1>7 DEF Wait
    <2>2. Command' = Command
      BY <2>1, SameCommand
    <2> HIDE DEF Command
    <2> QED BY <2>1, <2>2 DEF DevInv, Commanded, drive
  <1>8. CASE Finish
    <2>1. Quiet /\ phase = "poll"
      BY <1>0, <1>8 DEF Finish, Seen, DevInv, Quiet
    <2>2. CASE kind = "ahci" /\ call.op = "write"
      <3>1. UNCHANGED <<drive, call, buf>> /\ phase' = "flush"
        BY <1>8, <2>2 DEF Finish
      <3>7. call'.op = "write"
        BY <2>2, <3>1
      <3>2. Command' = Command
        BY <3>1, SameCommand
      <3> DEFINE f == [Command EXCEPT !.op = "flush"]
      <3>3. dev' = [dev EXCEPT !.desc = f, !.waiting = 1, !.sig = "none"]
        BY <1>8, <2>2 DEF Finish
      <3>4. f' = f
        BY <3>2
      <3> HIDE DEF f
      <3>5. dev'.desc = f /\ dev'.waiting = 1 /\ dev'.sig = "none" /\ dev'.cmd = None
        BY <1>a, <2>1, <3>3 DEF Quiet, Dev
      <3>6. dev'.desc = f'
        BY <3>4, <3>5
      <3> QED BY <3>1, <3>5, <3>6, <3>7 DEF DevInv, Commanded, f
    <2>3. CASE ~(kind = "ahci" /\ call.op = "write")
      BY <1>8, <2>1, <2>3, AdvanceTypes, QuietStep DEF Finish
    <2> QED BY <2>2, <2>3
  <1>9. CASE Fault
    BY <1>0, <1>9, QuietStep DEF Fault, Return, Quiet, DevInv
  <1>10. CASE Flush
    <2>1. CASE dev.sig = "ok" \/ GivesUp(spin)
      <3>1. dev.sig # "none" /\ Advance(N) /\ phase = "flush" /\ UNCHANGED dev
        BY <1>10, <2>1 DEF Flush
      <3>2. Quiet
        BY <1>0, <3>1 DEF DevInv, Quiet
      <3> QED BY <3>1, <3>2, AdvanceTypes, QuietStep
    <2>2. CASE ~(dev.sig = "ok" \/ GivesUp(spin))
      <3>1. UNCHANGED <<drive, call, buf, phase, dev, late>>
        BY <1>10, <2>2 DEF Flush
      <3>2. Command' = Command
        BY <3>1, SameCommand
      <3> HIDE DEF Command
      <3> QED BY <3>1, <3>2 DEF DevInv, Commanded, drive
    <2> QED BY <2>1, <2>2
  <1>11. CASE Pio
    <2>1. Quiet /\ phase = "pio"
      BY <1>0, <1>11 DEF Pio, DevInv, Commanded, Quiet
    <2>2. CASE Advance(N) /\ UNCHANGED dev
      BY <2>1, <2>2, AdvanceTypes, QuietStep
    <2>3. CASE Return("io") /\ dev' = [dev EXCEPT !.halted = TRUE]
      <3>1. dev'.cmd = dev.cmd /\ dev'.waiting = dev.waiting
        BY <1>a, <2>3 DEF Dev
      <3>2. phase' = "idle"
        BY <2>3 DEF Return
      <3> QED BY <2>1, <3>1, <3>2, QuietStep
    <2>4. CASE Advance(N) /\ dev' = [dev EXCEPT !.halted = TRUE]
      <3>1. dev'.cmd = dev.cmd /\ dev'.waiting = dev.waiting
        BY <1>a, <2>4 DEF Dev
      <3> QED BY <2>1, <2>4, <3>1, AdvanceTypes, QuietStep
    <2> QED BY <1>11, <2>2, <2>3, <2>4 DEF Pio
  <1>12. CASE Take
    <2>1. UNCHANGED <<drive, call, buf, phase>>
      BY <1>12 DEF Take
    <2>2. Command' = Command
      BY <2>1, SameCommand
    <2>3. dev' = [dev EXCEPT !.cmd = dev.desc, !.waiting = dev.waiting - 1]
      BY <1>12 DEF Take
    <2>4. dev.waiting > 0 /\ dev.cmd = None /\ dev.waiting \in Nat
      BY <1>12, <1>a DEF Take, Dev
    <2> HIDE DEF Command
    <2>5. Commanded /\ dev.waiting = 1 /\ (phase \in {"poll", "flush"} => dev.sig = "none")
      BY <1>0, <2>4 DEF DevInv
    <2>6. /\ dev'.desc = dev.desc /\ dev'.cmd = dev.desc /\ dev'.waiting = 0
          /\ dev'.sig = dev.sig
      BY <1>a, <2>3, <2>5 DEF Dev
    <2> QED BY <1>0, <2>1, <2>2, <2>5, <2>6 DEF DevInv, Commanded, drive
  <1>13. CASE Done \/ Broken
    <2>1. UNCHANGED <<drive, call, buf, phase>> /\ dev.cmd # None
      BY <1>13 DEF Done, Broken
    <2>2. Command' = Command
      BY <2>1, SameCommand
    <2>3. dev'.desc = dev.desc /\ dev'.cmd = None /\ dev'.waiting = dev.waiting
      <3>1. CASE Done
        BY <1>a, <3>1 DEF Done, Dev
      <3>2. CASE Broken
        BY <1>a, <3>2 DEF Broken, Dev
      <3> QED BY <1>13, <3>1, <3>2
    <2> HIDE DEF Command
    <2>4. Commanded /\ dev.waiting = 0
      BY <1>0, <2>1 DEF DevInv
    <2> QED BY <1>0, <2>1, <2>2, <2>3, <2>4 DEF DevInv, Commanded, drive
  <1>14. CASE UNCHANGED diskVars
    <2>1. UNCHANGED <<drive, call, buf, phase, dev, late>>
      BY <1>14 DEF diskVars, drive
    <2>2. Command' = Command
      BY <2>1, SameCommand
    <2> HIDE DEF Command
    <2> QED BY <2>1, <2>2 DEF DevInv, Commanded, drive
  <1> QED BY <1>1, <1>2, <1>3, <1>4, <1>5, <1>6, <1>7, <1>8, <1>9, <1>10, <1>11, <1>12,
             <1>13, <1>14, <1>15 DEF DiskNext, Driver, Device, Starts

-----------------------------------------------------------------------------
(* The data                                                                *)

\* A step that changes neither data nor call keeps what has been moved, and what
\* is claimed of the buffer only if it says where the driver goes.
LEMMA SameData ==
  ASSUME UNCHANGED <<drive, user, mem, disk>>,
         UNCHANGED <<call.lba, call.count, call.done, call.op>>,
         Behind
  PROVE  Behind'
  BY DEF Behind, Moved1

\* A call that ends badly, or a chunk that is yet to be set up, claims no more.
LEMMA NoClaims ==
  ASSUME phase' \in {"idle", "setup", "pio"}, phase' = "idle" => call'.res # "ok", Behind'
  PROVE  DataInv'
  BY DEF DataInv, Whole, Filled, Unseen, Flushing, HasBuffer, Noticed, Commanded

\* Nothing that the claims are about has changed.
LEMMA NothingMoves ==
  ASSUME UNCHANGED <<drive, call, user, mem, disk, buf, phase, dev.sig>>, DataInv, ~late,
         missed = {}
  PROVE  DataInv'
  <1>1. N' = N /\ At' = At /\ (Noticed => Noticed')
    BY SameChunk DEF Noticed, Commanded, Address, drive
  <1> HIDE DEF N, At, Noticed
  <1> QED BY <1>1 DEF DataInv, Behind, Whole, Filled, Unseen, Flushing, HasBuffer, Moved1,
                      drive

\* The chunk that was under way is done.
LEMMA ChunkDone ==
  ASSUME DiskTypeInv, CallInv, phase # "idle", Advance(N),
         \A s \in 1 .. call.done : user'[s] = disk'[call.lba + s - 1],
         \A k \in 1 .. N : user'[call.done + k] = disk'[At + k - 1]
  PROVE  DataInv'
  <1>1. /\ N \in Nat /\ N <= Left /\ call.done \in Nat /\ call.lba \in Nat
        /\ call.count \in Nat
    BY Chunks DEF DiskTypeInv
  <1>2. At = call.lba + call.done /\ Left = call.count - call.done
    BY DEF At, Left
  <1> HIDE DEF N, At, Left
  <1>3. \A s \in 1 .. call.done + N : user'[s] = disk'[call.lba + s - 1]
    <2> SUFFICES ASSUME NEW s \in 1 .. call.done + N
                 PROVE  user'[s] = disk'[call.lba + s - 1]
      OBVIOUS
    <2>1. CASE s \in 1 .. call.done
      BY <2>1
    <2>2. CASE s \notin 1 .. call.done
      <3>1. /\ s - call.done \in 1 .. N /\ call.done + (s - call.done) = s
            /\ At + (s - call.done) - 1 = call.lba + s - 1
        BY <1>1, <1>2, <2>2
      <3> QED BY <3>1
    <2> QED BY <2>1, <2>2
  <1>4. CASE N = Left /\ phase' = "idle" /\ call' = [call EXCEPT !.res = "ok"]
    <2>1. /\ call'.lba = call.lba /\ call'.count = call.count /\ call'.done = call.done
          /\ call.count = call.done + N
      BY <1>1, <1>2, <1>4 DEF DiskTypeInv
    <2>2. \A s \in 1 .. call'.count : Moved1(s)'
      BY <1>3, <2>1 DEF Moved1
    <2>3. Behind'
      BY <1>1, <2>1, <2>2 DEF Behind
    <2> QED BY <1>4, <2>2, <2>3 DEF DataInv, Whole, Filled, Unseen, Flushing, HasBuffer,
                                    Noticed, Commanded
  <1>5. CASE N # Left /\ phase' = "setup" /\ call' = [call EXCEPT !.done = @ + N]
    <2>1. call'.lba = call.lba /\ call'.done = call.done + N
      BY <1>5 DEF DiskTypeInv
    <2>2. Behind'
      BY <1>3, <2>1 DEF Behind, Moved1
    <2> QED BY <1>5, <2>2, NoClaims
  <1> QED BY <1>4, <1>5, AdvanceTypes

\* The call fails; what is behind it stays moved.
LEMMA CallFails ==
  ASSUME DiskTypeInv, NEW res \in Result \ {"ok"}, Return(res),
         \A s \in 1 .. call.done : user'[s] = disk'[call.lba + s - 1]
  PROVE  DataInv'
  <1>1. phase' = "idle" /\ call' = [call EXCEPT !.res = res]
    BY DEF Return
  <1>2. call'.lba = call.lba /\ call'.done = call.done /\ call'.res = res
    BY <1>1 DEF DiskTypeInv
  <1>3. Behind'
    BY <1>2 DEF Behind, Moved1
  <1> QED BY <1>1, <1>2, <1>3, NoClaims

\* What PIO moves lies behind what was moved before.
LEMMA PioMoves ==
  ASSUME DiskTypeInv, CallInv, Behind, phase # "idle", NEW k \in 0 .. N, Moved(k, {})
  PROVE  /\ \A s \in 1 .. call.done : user'[s] = disk'[call.lba + s - 1]
         /\ \A i \in 1 .. k : user'[call.done + i] = disk'[At + i - 1]
  <1>1. /\ N \in Nat /\ N <= Left /\ call.done \in Nat /\ call.lba \in Nat
        /\ call.count \in Nat /\ k \in Nat /\ k <= N /\ Sectors \in Nat
        /\ call.lba + call.count <= Sectors
    BY Chunks, DiskAssumption DEF DiskTypeInv, CallInv
  <1>2. At = call.lba + call.done /\ Left = call.count - call.done
    BY DEF At, Left
  <1> HIDE DEF N, At, Left
  <1>3. /\ \A s \in 1 .. call.done : s \in 1 .. Sectors /\ call.lba + s - 1 \in Sector
        /\ \A i \in 1 .. k : call.done + i \in 1 .. Sectors /\ At + i - 1 \in Sector
    BY <1>1, <1>2 DEF Sector
  <1>4. CASE call.op = "read"
    <2>1. /\ user' = [s \in 1 .. Sectors |-> IF s - call.done \in 1 .. k
                                              THEN disk[call.lba + s - 1] ELSE user[s]]
          /\ disk' = disk
      BY <1>4 DEF Moved
    <2>2. \A s \in 1 .. call.done : user'[s] = user[s]
      BY <1>1, <1>3, <2>1
    <2>3. ASSUME NEW i \in 1 .. k
          PROVE  user'[call.done + i] = disk[call.lba + (call.done + i) - 1]
      <3>1. call.done + i \in 1 .. Sectors /\ (call.done + i) - call.done = i
        BY <1>1, <1>3
      <3> QED BY <2>1, <3>1
    <2>4. \A i \in 1 .. k : call.lba + (call.done + i) - 1 = At + i - 1
      BY <1>1, <1>2
    <2> QED BY <2>1, <2>2, <2>3, <2>4 DEF Behind, Moved1
  <1>5. CASE call.op # "read"
    <2>1. /\ disk' = [s \in Sector |-> IF s - At \in 0 .. k - 1
                                       THEN user[s - call.lba + 1] ELSE disk[s]]
          /\ user' = user
      BY <1>5 DEF Moved
    <2>2. \A s \in 1 .. call.done : (call.lba + s - 1) - At \notin 0 .. k - 1
      BY <1>1, <1>2
    <2>3. \A s \in 1 .. call.done : disk'[call.lba + s - 1] = disk[call.lba + s - 1]
      BY <1>3, <2>1, <2>2
    <2>4. \A i \in 1 .. k : /\ (At + i - 1) - At \in 0 .. k - 1
                            /\ (At + i - 1) - call.lba + 1 = call.done + i
      BY <1>1, <1>2
    <2>5. \A i \in 1 .. k : disk'[At + i - 1] = user[call.done + i]
      BY <1>3, <2>1, <2>4
    <2> QED BY <2>1, <2>3, <2>5 DEF Behind, Moved1
  <1> QED BY <1>4, <1>5

\* What the device does to data, with the command it has got.
LEMMA DeviceMoves ==
  ASSUME DiskTypeInv, CallInv, BufInv, DevInv, DataInv, ~late, missed = {}, Done
  PROVE  DataInv'
  <1>1. /\ UNCHANGED <<drive, call, user, buf, phase>> /\ dev.cmd # None
        /\ dev' = [dev EXCEPT !.cmd = None, !.sig = "ok"]
    BY DEF Done
  <1>2. Commanded /\ dev.cmd = dev.desc
    BY <1>1 DEF DevInv
  <1>3. phase # "idle" /\ HasBuffer /\ buf.at \in Buffers
    BY <1>2, CommandIsOrder DEF Commanded, HasBuffer
  <1>4. /\ N \in Nat /\ N <= Left /\ call.done \in Nat /\ call.lba \in Nat
        /\ call.count \in Nat /\ Sectors \in Nat /\ call.lba + call.count <= Sectors
        /\ call.op \in {"read", "write"}
    BY <1>3, Chunks, DiskAssumption DEF DiskTypeInv, CallInv
  <1>5. At = call.lba + call.done /\ Left = call.count - call.done
    BY DEF At, Left
  <1>6. N' = N /\ At' = At /\ Noticed /\ Noticed'
    BY <1>1, SameChunk DEF DataInv, Noticed, Commanded, Address, drive
  <1>7. /\ Command.op = call.op /\ Command.lba = At /\ Command.n = N
        /\ Command.buf = buf.at
    BY <1>2, <1>3, <1>6, CommandIsOrder DEF Noticed
  <1>8. /\ phase = "flush" => dev.cmd.op = "flush"
        /\ phase # "flush" => dev.cmd = Command
    BY <1>2 DEF DevInv, Command
  <1> HIDE DEF N, At, Left, Command, Noticed
  <1>9. /\ \A s \in 1 .. call.done : call.lba + s - 1 \in Sector
        /\ \A k \in 1 .. N : k \in 1 .. Sectors /\ At + k - 1 \in Sector
    BY <1>4, <1>5 DEF Sector
  <1>10. Behind /\ Whole /\ Filled /\ Unseen /\ Flushing
    BY DEF DataInv
  <1>11. CASE phase = "flush"
    <2>1. disk' = disk /\ mem' = mem
      BY <1>8, <1>11 DEF Done
    <2>2. dev.sig = "none"
      BY <1>1, <1>11 DEF DevInv, DiskTypeInv, Dev
    <2> QED BY <1>1, <1>6, <1>10, <1>11, <2>1, <2>2
            DEF DataInv, Behind, Whole, Filled, Unseen, Flushing, HasBuffer, Moved1
  <1>12. CASE phase # "flush" /\ call.op = "write"
    <2>1. /\ disk' = [s \in Sector |-> IF s - At \in 0 .. N - 1
                                       THEN mem[buf.at][s - At + 1] ELSE disk[s]]
          /\ mem' = mem
      BY <1>7, <1>8, <1>12 DEF Done
    <2>2. \A s \in 1 .. call.done : (call.lba + s - 1) - At \notin 0 .. N - 1
      BY <1>4, <1>5
    <2>3. \A s \in 1 .. call.done : disk'[call.lba + s - 1] = disk[call.lba + s - 1]
      BY <1>9, <2>1, <2>2
    <2>4. \A k \in 1 .. N : (At + k - 1) - At \in 0 .. N - 1 /\ (At + k - 1) - At + 1 = k
      BY <1>4, <1>5
    <2>5. \A k \in 1 .. N : disk'[At + k - 1] = mem[buf.at][k]
      BY <1>9, <2>1, <2>4
    <2>6. Behind' /\ Whole'
      BY <1>1, <1>3, <1>10, <2>3 DEF Behind, Whole, Moved1
    <2>7. Filled' /\ Unseen' /\ Flushing'
      BY <1>1, <1>6, <1>10, <1>12, <2>1, <2>5 DEF Filled, Unseen, Flushing, HasBuffer
    <2> QED BY <1>6, <2>6, <2>7 DEF DataInv
  <1>13. CASE phase # "flush" /\ call.op = "read"
    <2> DEFINE row == [s \in 1 .. Sectors |->
                         IF s <= N THEN disk[At + s - 1] ELSE mem[buf.at][s]]
    <2>1. disk' = disk /\ mem' = [mem EXCEPT ![buf.at] = row]
      BY <1>7, <1>8, <1>13 DEF Done
    <2>2. mem'[buf.at] = row
      BY <1>3, <2>1 DEF DiskTypeInv
    <2>3. \A k \in 1 .. N : row[k] = disk[At + k - 1]
      BY <1>4, <1>9
    <2> HIDE DEF row
    <2>4. Behind' /\ Whole'
      BY <1>1, <1>10, <2>1 DEF Behind, Whole, Moved1
    <2>5. Filled' /\ Unseen' /\ Flushing'
      BY <1>1, <1>6, <1>13, <2>1, <2>2, <2>3 DEF Filled, Unseen, Flushing
    <2> QED BY <1>6, <2>4, <2>5 DEF DataInv
  <1> QED BY <1>4, <1>11, <1>12, <1>13

\* A flush that fails loses sectors of the chunk under way, and no others.
LEMMA BrokenLoses ==
  ASSUME DiskTypeInv, CallInv, BufInv, DevInv, ~late, Broken, Commanded
  PROVE  /\ call.op # "write" => disk' = disk
         /\ \A s \in Sector : disk'[s] # disk[s] => s - At \in 0 .. N - 1
         /\ \A s \in 1 .. call.done : disk'[call.lba + s - 1] = disk[call.lba + s - 1]
  <1>1. HasBuffer /\ phase # "idle" /\ dev.cmd = dev.desc
    BY DEF Broken, Commanded, HasBuffer, DevInv
  <1>2. /\ N \in Nat /\ N <= Left /\ call.done \in Nat /\ call.lba \in Nat
        /\ call.count \in Nat /\ Sectors \in Nat /\ call.lba + call.count <= Sectors
    BY <1>1, Chunks, DiskAssumption DEF DiskTypeInv, CallInv
  <1>3. At = call.lba + call.done /\ Left = call.count - call.done
    BY DEF At, Left
  <1>4. /\ Command.lba = At /\ Command.n \in Nat /\ Command.n <= N /\ Command.op = call.op
        /\ call.op \in {"read", "write"}
    BY <1>1, CommandIsOrder DEF CallInv
  <1>5. IF phase = "flush"
        THEN dev.cmd = [Command EXCEPT !.op = "flush"] /\ call.op = "write"
        ELSE dev.cmd = Command
    BY <1>1 DEF DevInv
  <1>8. [Command EXCEPT !.op = "flush"].lba = Command.lba
        /\ [Command EXCEPT !.op = "flush"].n = Command.n
    BY DEF Command
  <1> HIDE DEF N, At, Left, Command
  <1>6. CASE phase = "flush"
    <2>1. dev.cmd.lba = At /\ dev.cmd.n \in Nat /\ dev.cmd.n <= N
      BY <1>4, <1>5, <1>6, <1>8
    <2>2. PICK L \in SUBSET (At .. At + dev.cmd.n - 1) :
            disk' = disk \/ disk' = [s \in Sector |-> IF s \in L THEN Junk ELSE disk[s]]
      BY <2>1 DEF Broken
    <2>3. \A s \in Sector : disk'[s] # disk[s] => s - At \in 0 .. N - 1
      <3>1. \A s \in Sector : disk'[s] # disk[s] => s \in L
        BY <2>2
      <3>2. \A s \in L : s \in At .. At + dev.cmd.n - 1
        BY <2>2
      <3> DEFINE m == dev.cmd.n
      <3>3. At \in Int /\ m \in Nat /\ m <= N /\ N \in Nat
        BY <1>2, <1>3, <2>1
      <3>4. \A s \in L : s \in At .. At + m - 1
        BY <3>2
      <3> HIDE DEF m
      <3>5. \A s \in Int : s \in At .. At + m - 1 => s - At \in 0 .. N - 1
        BY <3>3
      <3>6. \A s \in L : s - At \in 0 .. N - 1
        BY <3>3, <3>4, <3>5
      <3> QED BY <3>1, <3>6
    <2>4. \A s \in 1 .. call.done : /\ call.lba + s - 1 \in Sector
                                    /\ (call.lba + s - 1) - At \notin 0 .. N - 1
      BY <1>2, <1>3 DEF Sector
    <2> QED BY <1>5, <1>6, <2>3, <2>4
  <1>7. CASE phase # "flush"
    <2>1. disk' = disk
      BY <1>4, <1>5, <1>7 DEF Broken
    <2> QED BY <2>1
  <1> QED BY <1>6, <1>7

LEMMA DataStep ==
  DiskTypeInv /\ CallInv /\ BufInv /\ DevInv /\ DataInv /\ [DiskNext]_diskVars => DataInv'
  <1> SUFFICES ASSUME DiskTypeInv, CallInv, BufInv, DevInv, DataInv, [DiskNext]_diskVars, ~late',
                      missed' = {}
               PROVE  DataInv'
    BY DEF DataInv
  <1>1. CASE Starts
    <2>1. call'.done = 0 /\ phase' = "setup"
      BY <1>1 DEF Starts, Start
    <2>2. Behind'
      BY <2>1 DEF Behind
    <2> QED BY <2>1, <2>2, NoClaims
  <1> SUFFICES ASSUME missed = {} PROVE DataInv'
    BY <1>1, MissedStays
  <1>0. ~late /\ {"io", "nomem"} \subseteq Result \ {"ok"}
    BY LateStays DEF Result
  <1>a. Behind /\ Whole /\ Filled /\ Unseen /\ Flushing /\ Noticed
    BY <1>0 DEF DataInv
  <1>d. UNCHANGED <<drive, call, buf>> /\ (Commanded' => Commanded) => Noticed'
    <2> SUFFICES ASSUME UNCHANGED <<drive, call, buf>>, Commanded PROVE Noticed'
      BY DEF Noticed
    <2>1. Told(N)' = Told(N) /\ N' = N /\ Address' = Address
      BY SameChunk DEF Address, drive
    <2>2. Told(N) = N /\ Address = buf.at
      BY <1>a DEF Noticed
    <2> HIDE DEF Told, N, Address
    <2> QED BY <2>1, <2>2 DEF Noticed
  <1>b. dev \in Dev /\ kind \in {"vblk", "ahci", "ide"}
    BY DiskAssumption DEF DiskTypeInv
  <1>c. UNCHANGED <<user, disk>> =>
          \A s \in 1 .. call.done : user'[s] = disk'[call.lba + s - 1]
    BY <1>a DEF Behind, Moved1
  <1>2. ASSUME NEW b \in Buffers, NEW off \in 0 .. Align - 1, Setup(b, off)
        PROVE  DataInv'
    <2>1. UNCHANGED <<drive, call, user, disk>> /\ phase' = "issue" /\ phase = "setup"
          /\ buf'.at = b
      BY <1>2 DEF Setup
    <2>2. N' = N /\ N \in Nat /\ N <= Sectors /\ Sectors \in Nat
      BY <2>1, SameChunk, Chunks, DiskAssumption
    <2>3. mem'[b] = [s \in 1 .. Sectors |->
                       IF call.op = "write" /\ s <= N THEN user[call.done + s] ELSE Junk]
      BY <1>2 DEF Setup, DiskTypeInv
    <2> HIDE DEF N
    <2>4. Filled'
      BY <2>1, <2>2, <2>3 DEF Filled
    <2>5. Behind'
      BY <1>a, <2>1 DEF Behind, Moved1
    <2> QED BY <2>1, <2>4, <2>5 DEF DataInv, Whole, Unseen, Flushing, Noticed, Commanded
  <1>3. CASE NoBuffer
    <2>1. CASE Return("nomem")
      BY <1>0, <1>3, <1>c, <2>1, CallFails DEF NoBuffer
    <2>2. CASE ~Return("nomem")
      BY <1>3, <1>a, <2>2, NoClaims, SameData DEF NoBuffer
    <2> QED BY <2>1, <2>2
  <1>4. CASE NotReady \/ NotReadyPio
    BY <1>0, <1>4, <1>c, CallFails DEF NotReady, NotReadyPio, Refused
  <1>16. ASSUME NEW b \in Buffers, TooHigh(b) PROVE DataInv'
    BY <1>0, <1>16, <1>c, CallFails DEF TooHigh
  <1>5. CASE Issue
    <2>1. UNCHANGED <<drive, call, user, mem, disk, buf>> /\ phase = "issue"
          /\ phase' = (IF kind = "vblk" THEN "arm" ELSE "poll")
      BY <1>5 DEF Issue
    <2>2. phase' = "poll" => dev'.sig # "ok"
      <3>1. kind = "ide" => dev.sig = "none"
        BY <1>0, <2>1 DEF DevInv
      <3>2. phase' = "poll" => Signal(kind, "ahci") = "none"
        BY <1>b, <2>1, <3>1 DEF Signal
      <3>3. dev'.sig = Signal(kind, "ahci")
        BY <1>5, <1>b DEF Issue, Dev
      <3> QED BY <3>2, <3>3
    <2>3. N' = N
      BY <2>1, SameChunk
    <2> HIDE DEF N
    <2>4. Noticed'
      <3>1. Told(N) = N /\ Address = buf.at
        BY <1>5 DEF Issue, Unnoticed
      <3>2. Told(N)' = Told(N) /\ Address' = Address /\ buf' = buf
        BY <2>1, SameChunk DEF Address, drive
      <3> HIDE DEF Told, Address
      <3> QED BY <2>3, <3>1, <3>2 DEF Noticed
    <2> QED BY <1>a, <2>1, <2>2, <2>3, <2>4
            DEF DataInv, Behind, Whole, Filled, Unseen, Flushing, Moved1, HasBuffer
  <1>6. CASE Arm
    <2>1. UNCHANGED <<drive, call, user, mem, disk, buf>> /\ phase = "arm"
          /\ phase' = "poll"
      BY <1>6 DEF Arm
    <2>2. dev'.sig = "none"
      BY <1>0, <1>6, <1>b DEF Arm, Signal, DevInv, Dev
    <2>3. N' = N
      BY <2>1, SameChunk
    <2> HIDE DEF N
    <2>4. Noticed'
      BY <1>d, <2>1 DEF Commanded
    <2> QED BY <1>a, <2>1, <2>2, <2>3, <2>4
            DEF DataInv, Behind, Whole, Filled, Unseen, Flushing, Moved1, HasBuffer
  <1>7. CASE Wait
    BY <1>0, <1>7, NothingMoves DEF Wait
  <1>8. CASE Finish
    <2>1. phase = "poll" /\ dev.sig = "ok" /\ UNCHANGED <<drive, mem, disk>>
          /\ phase # "idle" /\ HasBuffer
      BY <1>8 DEF Finish, Seen, HasBuffer
    <2>2. /\ N \in Nat /\ N <= Left /\ call.done \in Nat /\ call.lba \in Nat
          /\ call.count \in Nat /\ Sectors \in Nat /\ call.lba + call.count <= Sectors
          /\ call.op \in {"read", "write"}
      BY <2>1, Chunks, DiskAssumption DEF DiskTypeInv, CallInv
    <2>3. At = call.lba + call.done /\ Left = call.count - call.done
      BY DEF At, Left
    <2>4. user' = IF call.op = "write" THEN user
                  ELSE [s \in 1 .. Sectors |->
                          IF s - call.done \in 1 .. N THEN mem[buf.at][s - call.done]
                          ELSE user[s]]
      BY <1>8 DEF Finish
    <2>5. CASE kind = "ahci" /\ call.op = "write"
      <3>1. UNCHANGED <<call, buf>> /\ phase' = "flush"
        BY <1>8, <2>5 DEF Finish
      <3>2. N' = N /\ At' = At
        BY <2>1, <3>1, SameChunk
      <3>3. \A k \in 1 .. N : At + k - 1 = call.lba + (call.done + k) - 1
        <4> HIDE DEF N, At
        <4> QED BY <2>2, <2>3
      <3> HIDE DEF N, At
      <3>4. \A k \in 1 .. N : Moved1(call.done + k)
        BY <1>a, <2>1, <2>5, <3>3 DEF Filled, Unseen, Moved1
      <3>5. Noticed'
        BY <1>d, <2>1, <3>1 DEF Commanded
      <3> QED BY <1>a, <2>1, <2>4, <2>5, <3>1, <3>2, <3>4, <3>5
              DEF DataInv, Behind, Whole, Filled, Unseen, Flushing, Moved1, HasBuffer
    <2>6. CASE ~(kind = "ahci" /\ call.op = "write")
      <3>1. Advance(N)
        BY <1>8, <2>6 DEF Finish
      <3> HIDE DEF N, At, Left
      <3>2. \A s \in 1 .. call.done : user'[s] = disk[call.lba + s - 1]
        <4>1. \A s \in 1 .. call.done : s \in 1 .. Sectors /\ s - call.done \notin 1 .. N
          BY <2>2, <2>3
        <4>2. \A s \in 1 .. call.done : user'[s] = user[s]
          BY <2>4, <4>1
        <4> QED BY <1>a, <4>2 DEF Behind, Moved1
      <3>3. \A k \in 1 .. N : user'[call.done + k] = disk[At + k - 1]
        <4>1. \A k \in 1 .. N : /\ call.done + k \in 1 .. Sectors
                                /\ (call.done + k) - call.done = k
          BY <2>2, <2>3
        <4>2. CASE call.op = "write"
          BY <1>a, <2>1, <2>4, <4>2 DEF Filled, Unseen
        <4>3. CASE call.op # "write"
          <5>1. \A k \in 1 .. N : user'[call.done + k] = mem[buf.at][k]
            BY <2>4, <4>1, <4>3
          <5> QED BY <1>a, <2>1, <5>1 DEF Unseen
        <4> QED BY <4>2, <4>3
      <3> QED BY <2>1, <3>1, <3>2, <3>3, ChunkDone
    <2> QED BY <2>5, <2>6
  <1>9. CASE Fault
    BY <1>0, <1>9, <1>c, CallFails DEF Fault
  <1>10. CASE Flush
    <2>1. CASE Advance(N)
      <3>1. phase = "flush" /\ phase # "idle" /\ UNCHANGED <<user, disk>>
        BY <1>10 DEF Flush
      <3>5. dev.sig # "err"
        <4>1. phase' # phase
          BY <2>1, <3>1, AdvanceTypes
        <4> QED BY <1>10, <4>1 DEF Flush
      <3>2. \A k \in 1 .. N : At + k - 1 = call.lba + (call.done + k) - 1
        <4>1. N \in Nat /\ call.done \in Nat /\ call.lba \in Nat
          BY <3>1, Chunks DEF DiskTypeInv
        <4> HIDE DEF N
        <4> QED BY <4>1 DEF At
      <3> HIDE DEF N, At
      <3>3. \A k \in 1 .. N : user'[call.done + k] = disk[At + k - 1]
        BY <1>a, <3>1, <3>2, <3>5 DEF Flushing, Moved1
      <3>4. \A s \in 1 .. call.done : user'[s] = disk[call.lba + s - 1]
        BY <1>c, <3>1
      <3> QED BY <2>1, <3>1, <3>3, <3>4, ChunkDone
    <2>2. CASE ~Advance(N)
      BY <1>0, <1>10, <2>2, NothingMoves DEF Flush
    <2> QED BY <2>1, <2>2
  <1>11. CASE Pio
    <2>1. phase # "idle" /\ N \in Nat
      BY <1>11, Chunks DEF Pio
    <2>2. CASE Moved(N, {}) /\ Advance(N)
      <3>1. N \in 0 .. N
        BY <2>1
      <3>2. /\ \A s \in 1 .. call.done : user'[s] = disk'[call.lba + s - 1]
            /\ \A i \in 1 .. N : user'[call.done + i] = disk'[At + i - 1]
        BY <1>a, <2>1, <2>2, <3>1, PioMoves
      <3> QED BY <2>1, <2>2, <3>2, ChunkDone
    <2>3. CASE Return("io") /\ \E k \in 0 .. N - 1 : Moved(k, {})
      <3>1. PICK k \in 0 .. N - 1 : Moved(k, {})
        BY <2>3
      <3>2. k \in 0 .. N
        BY <2>1
      <3> QED BY <1>0, <1>a, <2>1, <2>3, <3>1, <3>2, PioMoves, CallFails
    <2> QED BY <1>11, <2>2, <2>3 DEF Pio
  <1>12. CASE Take
    <2>1. dev'.sig = dev.sig
      BY <1>12, <1>b DEF Take, Dev
    <2> QED BY <1>0, <1>12, <2>1, NothingMoves DEF Take
  <1>13. CASE Done
    BY <1>0, <1>13, DeviceMoves
  <1>14. CASE Broken
    <2>1. dev'.sig = "err" /\ UNCHANGED <<drive, call, user, mem, buf, phase>>
      BY <1>14, <1>b DEF Broken, Dev
    <2>2. N' = N
      BY <2>1, SameChunk
    <2>3. Noticed'
      BY <1>d, <2>1 DEF Commanded
    <2>4. Commanded /\ phase # "idle"
      BY <1>0, <1>14 DEF Broken, DevInv, Commanded
    <2>5. \A s \in 1 .. call.done : disk'[call.lba + s - 1] = disk[call.lba + s - 1]
      BY <1>0, <1>14, <2>4, BrokenLoses
    <2>6. Behind'
      BY <1>a, <2>1, <2>5 DEF Behind, Moved1
    <2> HIDE DEF N
    <2> QED BY <1>a, <2>1, <2>2, <2>3, <2>4, <2>6
            DEF DataInv, Behind, Whole, Filled, Unseen, Flushing, Moved1, HasBuffer
  <1>15. CASE UNCHANGED diskVars
    BY <1>0, <1>15, NothingMoves DEF diskVars, drive
  <1> QED BY <1>1, <1>2, <1>3, <1>4, <1>5, <1>6, <1>7, <1>8, <1>9, <1>10, <1>11, <1>12,
             <1>13, <1>14, <1>15, <1>16 DEF DiskNext, Driver, Device, Starts

DiskInv == DiskTypeInv /\ CallInv /\ BufInv /\ DevInv /\ DataInv

LEMMA DiskSpecInv == DiskSpec => []DiskInv
  <1>1. DiskInit => DiskInv
    BY DiskInitInv DEF DiskInv
  <1>2. DiskInv /\ [DiskNext]_diskVars => DiskInv'
    BY TypeStep, CallStep, DevStep, DataStep DEF DiskInv
  <1> QED BY <1>1, <1>2, PTL DEF DiskSpec

-----------------------------------------------------------------------------
(* Theorems                                                                *)

\* On every way out of blkdev_read and blkdev_write, in whatever driver, dma_free
\* has been called for each buffer that dma_alloc gave out, for any disk, chunk and
\* number of calls.  (Each way out has a dma_free of its own.)
THEOREM BuffersAreFreed == DiskSpec => []NothingKept
  <1>1. DiskInv => NothingKept
    BY DEF DiskInv, BufInv, HasBuffer, NothingKept
  <1> QED BY DiskSpecInv, <1>1, PTL

\* As long as the device answers in time, the data of a call that returns OK is
\* both in the caller's buffer and on the disk, however the call is cut; unless
\* the driver has not looked at an error, or has told the drive of fewer sectors
\* or of another address than it meant (AHCI.c:592, IDE.c:480-496, 559).
THEOREM DataArrives == DiskSpec => []Transferred
  <1>1. DiskInv => Transferred
    BY DEF DiskInv, DataInv, Whole, Moved1, Transferred, RightBut
  <1> QED BY DiskSpecInv, <1>1, PTL

\* As long as the device answers in time, only the sectors of the write under way
\* change, whether it succeeds or fails.
THEOREM OthersUntouched == DiskSpec => InRange
  <1> DEFINE A == \A s \in Sector : disk'[s] # disk[s] /\ ~late =>
                    /\ call.op = "write" /\ phase # "idle"
                    /\ s \in call.lba .. call.lba + call.count - 1
  <1>1. DiskInv /\ [DiskNext]_diskVars => [A]_diskVars
    <2> SUFFICES ASSUME DiskInv, DiskNext, ~late, NEW s \in Sector, disk'[s] # disk[s]
                 PROVE  /\ call.op = "write" /\ phase # "idle"
                        /\ s \in call.lba .. call.lba + call.count - 1
      OBVIOUS
    <2>0. DiskTypeInv /\ CallInv /\ BufInv /\ DevInv
      BY DEF DiskInv
    <2>1. disk' # disk
      OBVIOUS
    <2>2. Done \/ Pio \/ Broken
      BY <2>1 DEF DiskNext, Driver, Device, Start, Setup, TooHigh, NoBuffer, NotReady,
                  NotReadyPio, Refused, Issue, Arm, Wait, Finish, Fault, Flush, Take
    <2>3. phase # "idle"
      BY <2>0, <2>2 DEF Done, Broken, Pio, DevInv, Commanded
    <2>4. /\ N \in Nat /\ N <= Left /\ call.done \in Nat /\ call.lba \in Nat
          /\ call.count \in Nat /\ call.op \in {"read", "write"}
      BY <2>0, <2>3, Chunks DEF DiskTypeInv, CallInv
    <2>5. At = call.lba + call.done /\ Left = call.count - call.done /\ s \in Int
      BY DEF At, Left, Sector
    <2>6. call.op = "write" /\ s - At \in 0 .. N - 1
      <3>1. CASE Done
        <4>1. Commanded /\ dev.cmd = dev.desc /\ HasBuffer
          BY <2>0, <3>1 DEF Done, DevInv, Commanded, HasBuffer
        <4>2. /\ phase = "flush" => dev.cmd.op = "flush"
              /\ phase # "flush" => dev.cmd = Command
          BY <2>0, <4>1 DEF DevInv, Command
        <4>3. /\ Command.op = call.op /\ Command.lba = At
              /\ Command.n \in Nat /\ Command.n <= N
          BY <2>0, <4>1, CommandIsOrder
        <4> HIDE DEF N, At, Command
        <4>4. dev.cmd.op = "write" /\ s - dev.cmd.lba \in 0 .. dev.cmd.n - 1
          BY <3>1 DEF Done
        <4> QED BY <2>4, <2>5, <4>2, <4>3, <4>4
      <3>2. CASE Pio
        <4>1. PICK k \in 0 .. N, L \in SUBSET (At .. At + N - 1) \cup {{}} : Moved(k, L)
          BY <2>4, <3>2 DEF Pio
        <4> HIDE DEF N, At
        <4>2. call.op = "write" /\ s - At \in 0 .. k - 1
          BY <2>4, <4>1 DEF Moved
        <4> QED BY <2>4, <2>5, <4>1, <4>2
      <3>3. CASE Broken
        <4>1. Commanded
          BY <2>0, <3>3 DEF Broken, DevInv
        <4> HIDE DEF N, At
        <4> QED BY <2>0, <2>1, <2>4, <3>3, <4>1, BrokenLoses
      <3> QED BY <2>2, <3>1, <3>2, <3>3
    <2> HIDE DEF N, At, Left
    <2> QED BY <2>3, <2>4, <2>5, <2>6
  <1> QED BY DiskSpecInv, <1>1, PTL DEF DiskSpec, InRange

-----------------------------------------------------------------------------
(* Files: descriptors, nodes and pipes                                     *)

Modes == {"r", "w", "rw"}
Entry == [open : BOOLEAN, slot : Slot \cup {NoSlot}, mode : Modes, more : BOOLEAN,
          end : {"none", "write"}, pipe : 0 .. PipeMax]
PipeRec == [valid : BOOLEAN, write_closed : BOOLEAN, read_closed : {FALSE}, count : Int]

\* No descriptor is an end to read with: sc_pipe stores the end to write with in
\* the same entry.  So read_closed is never set either.
FilesTypeInv ==
  /\ files \in [Fd -> Entry]
  /\ slots \in [Slot -> Node \cup {Free}]
  /\ pipes \in [1 .. PipeMax -> PipeRec]
  /\ refs \in [Node -> Int] /\ lost \in [Node -> Int]
  /\ opened \in [Fd -> (Node \cup {Free}) \X Modes]
  /\ cut \in BOOLEAN

\* Descriptor fd leads to slot s of VFS.c.
Names(f, s) == f.open /\ f.end = "none" /\ f.slot = s

NamedInv == \A s \in Slot : Used(s) => \E fd \in Fd : Names(files[fd], s)

CountInv ==
  \A n \in Node :
    refs[n] = (IF n = ROOT THEN 1 ELSE 0)
              + Cardinality({s \in Slot : slots[s] = n}) + lost[n]

\* Until a slot is closed under another descriptor, an open one with a slot has
\* the node and the mode it was opened with.
OwnInv ==
  ~cut => \A fd \in Fd : LET f == files[fd] IN
    f.open /\ f.slot # NoSlot =>
      /\ slots[f.slot] = opened[fd][1] /\ opened[fd][1] \in Node
      /\ f.mode = opened[fd][2]

PipeInv ==
  \A fd \in Fd : LET f == files[fd] IN
    f.open /\ f.end # "none" => f.pipe \in 1 .. PipeMax /\ pipes[f.pipe].valid

FilesInv == FilesTypeInv /\ NamedInv /\ CountInv /\ OwnInv /\ PipeInv

-----------------------------------------------------------------------------
(* The naturals are well ordered: a non-empty set of them has a least one.  *)

LEMMA LeastNat ==
  ASSUME NEW S \in SUBSET Nat, S # {}
  PROVE  \E m \in S : \A n \in S : m <= n
<1> DEFINE R == {p \in Nat \X Nat : p[1] < p[2]}
<1>1. IsWellFoundedOn(R, Nat)
  BY NatLessThanWellFounded, Zenon DEF OpToRel
<1>2. PICK m \in S : \A n \in S : <<n, m>> \notin R
  <2> HIDE DEF R
  <2> QED
    BY <1>1, WFMin
<1>3. \A n \in S : m <= n
  <2> SUFFICES ASSUME NEW n \in S, n < m PROVE FALSE
    OBVIOUS
  <2>1. <<n, m>> \in Nat \X Nat /\ <<n, m>>[1] < <<n, m>>[2]
    OBVIOUS
  <2>2. <<n, m>> \in R
    BY <2>1
  <2> QED
    BY <1>2, <2>2
<1> QED
  BY <1>3

-----------------------------------------------------------------------------
(* Choosing the first                                                      *)

LEMMA FirstOf ==
  ASSUME NEW S \in SUBSET Nat, S # {}
  PROVE  Min(S) \in S
  <1>1. \E m \in S : \A n \in S : m <= n
    BY LeastNat
  <1> QED BY <1>1 DEF Min

LEMMA FirstSlot == FreeSlots # {} => Min(FreeSlots) \in Slot /\ slots[Min(FreeSlots)] = Free
  <1> SUFFICES ASSUME FreeSlots # {}
               PROVE  Min(FreeSlots) \in Slot /\ slots[Min(FreeSlots)] = Free
    OBVIOUS
  <1>1. FreeSlots \in SUBSET Nat
    BY TableAssumption DEF FreeSlots, Slot
  <1>2. Min(FreeSlots) \in FreeSlots
    BY <1>1, FirstOf
  <1> QED BY <1>2 DEF FreeSlots

LEMMA FirstFd ==
  ASSUME NEW from, FreeFds(from) # {}
  PROVE  Min(FreeFds(from)) \in Fd /\ ~files[Min(FreeFds(from))].open
  <1>1. FreeFds(from) \in SUBSET Nat
    BY TableAssumption DEF FreeFds, Fd
  <1>2. Min(FreeFds(from)) \in FreeFds(from)
    BY <1>1, FirstOf
  <1> QED BY <1>2 DEF FreeFds

LEMMA Entries ==
  /\ Closed \in Entry
  /\ \A s \in Slot \cup {NoSlot}, mode \in Modes, more \in BOOLEAN :
       /\ File(s, mode, more) \in Entry
       /\ File(s, mode, more) = [open |-> TRUE, slot |-> s, mode |-> mode, more |-> more,
                                 end |-> "none", pipe |-> 0]
  /\ \A p \in 1 .. PipeMax :
       /\ End("write", p) \in Entry
       /\ End("write", p) = [open |-> TRUE, slot |-> NoSlot, mode |-> "w", more |-> FALSE,
                             end |-> "write", pipe |-> p]
  <1>1. Closed \in Entry
    BY TableAssumption DEF Closed, Entry, Modes, NoSlot
  <1>2. ASSUME NEW s \in Slot \cup {NoSlot}, NEW mode \in Modes, NEW more \in BOOLEAN
        PROVE  /\ File(s, mode, more) \in Entry
               /\ File(s, mode, more) = [open |-> TRUE, slot |-> s, mode |-> mode,
                                         more |-> more, end |-> "none", pipe |-> 0]
    <2>1. File(s, mode, more) = [open |-> TRUE, slot |-> s, mode |-> mode,
                                 more |-> more, end |-> "none", pipe |-> 0]
      BY DEF File
    <2>2. 0 \in 0 .. PipeMax
      BY TableAssumption
    <2> QED BY <2>1, <2>2 DEF Entry
  <1>3. ASSUME NEW p \in 1 .. PipeMax
        PROVE  /\ End("write", p) \in Entry
               /\ End("write", p) = [open |-> TRUE, slot |-> NoSlot, mode |-> "w",
                                     more |-> FALSE, end |-> "write", pipe |-> p]
    <2>1. End("write", p) = [open |-> TRUE, slot |-> NoSlot, mode |-> "w",
                             more |-> FALSE, end |-> "write", pipe |-> p]
      BY DEF End
    <2>2. p \in 0 .. PipeMax /\ "w" \in Modes /\ NoSlot \in Slot \cup {NoSlot}
      BY TableAssumption DEF Modes
    <2>3. End("write", p) \in Entry
      <3>1. \A s \in Slot \cup {NoSlot}, mode \in Modes, more \in BOOLEAN :
              [open |-> TRUE, slot |-> s, mode |-> mode, more |-> more, end |-> "write",
               pipe |-> p] \in Entry
        BY <2>2 DEF Entry
      <3> QED BY <2>1, <2>2, <3>1
    <2> QED BY <2>1, <2>3
  <1> QED BY <1>1, <1>2, <1>3

-----------------------------------------------------------------------------
(* The invariant                                                           *)

LEMMA FilesInitInv == FilesInit => FilesInv
  <1> SUFFICES ASSUME FilesInit PROVE FilesInv
    OBVIOUS
  <1>1. \A fd \in Fd : /\ files[fd] \in Entry /\ files[fd].slot = NoSlot
                       /\ files[fd].end = "none"
    <2> SUFFICES ASSUME NEW fd \in Fd
                 PROVE  /\ files[fd] \in Entry /\ files[fd].slot = NoSlot
                        /\ files[fd].end = "none"
      OBVIOUS
    <2>1. files[fd] = File(NoSlot, "r", FALSE) \/ files[fd] = File(NoSlot, "w", FALSE)
          \/ files[fd] = Closed
      BY DEF FilesInit
    <2>2. "r" \in Modes /\ "w" \in Modes /\ NoSlot \in Slot \cup {NoSlot}
      BY DEF Modes
    <2>3. File(NoSlot, "r", FALSE) \in Entry /\ File(NoSlot, "w", FALSE) \in Entry
      BY <2>2, Entries
    <2>4. /\ File(NoSlot, "r", FALSE).slot = NoSlot /\ File(NoSlot, "r", FALSE).end = "none"
          /\ File(NoSlot, "w", FALSE).slot = NoSlot /\ File(NoSlot, "w", FALSE).end = "none"
          /\ Closed.slot = NoSlot /\ Closed.end = "none" /\ Closed \in Entry
      BY Entries DEF File, Closed
    <2> QED BY <2>1, <2>3, <2>4
  <1>2. NoPipe \in PipeRec /\ Nobody \in (Node \cup {Free}) \X Modes
    BY DEF NoPipe, PipeRec, Nobody, Modes
  <1>3. FilesTypeInv
    <2>1. files \in [Fd -> Entry]
      BY <1>1 DEF FilesInit
    <2>2. slots \in [Slot -> Node \cup {Free}] /\ pipes \in [1 .. PipeMax -> PipeRec]
      BY <1>2 DEF FilesInit
    <2>3. opened \in [Fd -> (Node \cup {Free}) \X Modes] /\ cut \in BOOLEAN
      BY <1>2 DEF FilesInit
    <2>4. refs \in [Node -> Int] /\ lost \in [Node -> Int]
      BY DEF FilesInit
    <2> QED BY <2>1, <2>2, <2>3, <2>4 DEF FilesTypeInv
  <1>4. NamedInv /\ OwnInv /\ PipeInv
    BY <1>1 DEF FilesInit, NamedInv, OwnInv, PipeInv, Used
  <1>5. CountInv
    <2>1. \A n \in Node : {s \in Slot : slots[s] = n} = {}
      BY TableAssumption DEF FilesInit, Node, Free
    <2>2. \A n \in Node : Cardinality({s \in Slot : slots[s] = n}) = 0
      BY <2>1, FS_EmptySet
    <2> QED BY <2>2 DEF FilesInit, CountInv
  <1> QED BY <1>3, <1>4, <1>5 DEF FilesInv

\* How many slots hold each node, when one is taken or freed.
Holding(n) == {s \in Slot : slots[s] = n}

LEMMA FiniteHolding ==
  ASSUME NEW n
  PROVE  IsFiniteSet(Holding(n)) /\ Cardinality(Holding(n)) \in Nat
  <1>1. IsFiniteSet(Slot)
    BY TableAssumption, FS_Interval DEF Slot
  <1>2. Holding(n) \in SUBSET Slot
    BY DEF Holding
  <1> QED BY <1>1, <1>2, FS_Subset, FS_CardinalityType

LEMMA SlotTaken ==
  ASSUME FilesTypeInv, NEW s \in Slot, slots[s] = Free, NEW n \in Node,
         slots' = [slots EXCEPT ![s] = n], NEW m \in Node
  PROVE  Cardinality(Holding(m)') = Cardinality(Holding(m)) + IF m = n THEN 1 ELSE 0
  <1>1. n # Free /\ m # Free
    BY TableAssumption DEF Node, Free
  <1>2. \A t \in Slot : slots'[t] = IF t = s THEN n ELSE slots[t]
    BY DEF FilesTypeInv
  <1>3. CASE m = n
    <2>1. Holding(m)' = Holding(m) \cup {s} /\ s \notin Holding(m)
      BY <1>1, <1>2, <1>3 DEF Holding
    <2> QED BY <1>3, <2>1, FiniteHolding, FS_AddElement
  <1>4. CASE m # n
    <2>1. Holding(m)' = Holding(m)
      BY <1>1, <1>2, <1>4 DEF Holding
    <2> QED BY <1>4, <2>1, FiniteHolding
  <1> QED BY <1>3, <1>4

LEMMA SlotFreed ==
  ASSUME FilesTypeInv, NEW s \in Slot, slots[s] # Free,
         slots' = [slots EXCEPT ![s] = Free], NEW m \in Node
  PROVE  Cardinality(Holding(m)') = Cardinality(Holding(m)) - IF m = slots[s] THEN 1 ELSE 0
  <1>1. m # Free
    BY TableAssumption DEF Node, Free
  <1>2. \A t \in Slot : slots'[t] = IF t = s THEN Free ELSE slots[t]
    BY DEF FilesTypeInv
  <1>3. CASE m = slots[s]
    <2>1. Holding(m)' = Holding(m) \ {s} /\ s \in Holding(m)
      BY <1>1, <1>2, <1>3 DEF Holding
    <2> QED BY <1>3, <2>1, FiniteHolding, FS_RemoveElement
  <1>4. CASE m # slots[s]
    <2>1. Holding(m)' = Holding(m)
      BY <1>1, <1>2, <1>4 DEF Holding
    <2> QED BY <1>4, <2>1, FiniteHolding
  <1> QED BY <1>3, <1>4

\* The count of each node, in those terms.
LEMMA CountHolding ==
  CountInv <=> \A n \in Node :
    refs[n] = (IF n = ROOT THEN 1 ELSE 0) + Cardinality(Holding(n)) + lost[n]
  BY DEF CountInv, Holding

\* A step that leaves the tables alone but for files.
LEMMA SameSlots ==
  ASSUME CountInv, UNCHANGED <<slots, refs, lost>>
  PROVE  CountInv'
  BY DEF CountInv

-----------------------------------------------------------------------------
(* Each call                                                               *)

\* sc_open, however far it gets.
LEMMA OpenStep ==
  ASSUME FilesInv, NEW n \in Node, NEW mode \in Mode, NEW more \in BOOLEAN,
         NEW create \in BOOLEAN, NEW dir \in BOOLEAN, Open(n, mode, more, create, dir)
  PROVE  FilesInv'
  <1> DEFINE s == Min(FreeSlots)
             fd == Min(FreeFds(Reserved))
  <1>0. FilesTypeInv /\ NamedInv /\ CountInv /\ OwnInv /\ PipeInv
    BY DEF FilesInv
  <1>1. UNCHANGED <<pipes, cut>>
    BY DEF Open, Kept
  <1>2. CASE refs' = Dropped(refs, n) /\ UNCHANGED <<files, slots, opened, lost>>
    <2>1. UNCHANGED <<files, slots, opened, lost, refs>>
      BY <1>2 DEF Dropped
    <2> QED BY <1>0, <1>1, <2>1
            DEF FilesInv, FilesTypeInv, NamedInv, CountInv, OwnInv, PipeInv, Used
  <1>3. CASE /\ refs' = [refs EXCEPT ![n] = @ + 1] /\ lost' = [lost EXCEPT ![n] = @ + 1]
             /\ UNCHANGED <<files, slots, opened>>
    <2>1. refs' \in [Node -> Int] /\ lost' \in [Node -> Int]
      BY <1>0, <1>3 DEF FilesTypeInv
    <2>2. \A m \in Node : Holding(m)' = Holding(m)
      BY <1>3 DEF Holding
    <2>3. CountInv'
      <3>1. \A m \in Node : refs'[m] - lost'[m] = refs[m] - lost[m]
        BY <1>0, <1>3 DEF FilesTypeInv
      <3>2. \A m \in Node : Cardinality(Holding(m)) \in Nat
        BY FiniteHolding
      <3>3. \A m \in Node : /\ refs[m] \in Int /\ lost[m] \in Int
                            /\ refs'[m] \in Int /\ lost'[m] \in Int
        BY <1>0, <2>1 DEF FilesTypeInv
      <3>4. \A m \in Node :
              refs'[m] = (IF m = ROOT THEN 1 ELSE 0) + Cardinality(Holding(m)') + lost'[m]
        <4> SUFFICES ASSUME NEW m \in Node
                     PROVE  refs'[m] = (IF m = ROOT THEN 1 ELSE 0)
                                       + Cardinality(Holding(m)') + lost'[m]
          OBVIOUS
        <4>1. refs[m] = (IF m = ROOT THEN 1 ELSE 0) + Cardinality(Holding(m)) + lost[m]
          BY <1>0, CountHolding
        <4> QED BY <2>2, <3>1, <3>2, <3>3, <4>1
      <3> QED BY <3>4 DEF CountInv, Holding
    <2> QED BY <1>0, <1>1, <1>3, <2>1, <2>3
            DEF FilesInv, FilesTypeInv, NamedInv, OwnInv, PipeInv, Used
  <1>4. CASE /\ slots' = FullTable(s, n).slots /\ refs' = FullTable(s, n).refs
             /\ UNCHANGED <<files, opened, lost>>
    <2>1. UNCHANGED <<files, slots, opened, lost, refs>>
      BY <1>4 DEF FullTable
    <2> QED BY <1>0, <1>1, <2>1
            DEF FilesInv, FilesTypeInv, NamedInv, CountInv, OwnInv, PipeInv, Used
  <1>5. CASE /\ FreeSlots # {} /\ FreeFds(Reserved) # {}
             /\ slots' = [slots EXCEPT ![s] = n] /\ refs' = [refs EXCEPT ![n] = @ + 1]
             /\ files' = [files EXCEPT ![fd] = File(s, mode, more)]
             /\ opened' = [opened EXCEPT ![fd] = <<n, mode>>]
             /\ UNCHANGED lost
    <2>1. s \in Slot /\ slots[s] = Free /\ fd \in Fd /\ ~files[fd].open
      BY <1>5, FirstSlot, FirstFd
    <2> HIDE DEF s, fd
    <2>2. mode \in Modes /\ n # Free /\ s # NoSlot
      BY <2>1, TableAssumption DEF Modes, Node, Free, Slot, NoSlot
    <2> DEFINE f == File(s, mode, more)
    <2>3. /\ f \in Entry /\ f.open /\ f.slot = s /\ f.end = "none" /\ f.mode = mode
      BY <2>1, <2>2, Entries DEF File
    <2> HIDE DEF f
    <2>4. /\ \A g \in Fd : /\ files'[g] = IF g = fd THEN f ELSE files[g]
                           /\ opened'[g] = IF g = fd THEN <<n, mode>> ELSE opened[g]
          /\ \A t \in Slot : slots'[t] = IF t = s THEN n ELSE slots[t]
      BY <1>0, <1>5 DEF FilesTypeInv, f
    <2>5. FilesTypeInv'
      <3>1. files' \in [Fd -> Entry]
        BY <1>0, <1>5, <2>3 DEF FilesTypeInv, f
      <3>2. slots' \in [Slot -> Node \cup {Free}]
        BY <1>0, <1>5 DEF FilesTypeInv
      <3>3. refs' \in [Node -> Int]
        BY <1>0, <1>5 DEF FilesTypeInv
      <3>4. opened' \in [Fd -> (Node \cup {Free}) \X Modes]
        BY <1>0, <1>5, <2>2 DEF FilesTypeInv
      <3> QED BY <1>0, <1>1, <1>5, <3>1, <3>2, <3>4, <3>3 DEF FilesTypeInv
    <2>6. NamedInv'
      <3> SUFFICES ASSUME NEW t \in Slot, Used(t)'
                   PROVE  \E g \in Fd : Names(files'[g], t)
        BY DEF NamedInv, Names
      <3>1. CASE t = s
        BY <2>1, <2>3, <2>4, <3>1 DEF Names
      <3>2. CASE t # s
        <4>1. Used(t)
          BY <2>4, <3>2 DEF Used
        <4>2. PICK g \in Fd : Names(files[g], t)
          BY <1>0, <4>1 DEF NamedInv
        <4>3. g # fd
          BY <2>1, <4>2 DEF Names
        <4> QED BY <2>4, <4>2, <4>3
      <3> QED BY <3>1, <3>2
    <2>7. CountInv'
      <3>1. \A m \in Node :
              refs'[m] = (IF m = ROOT THEN 1 ELSE 0) + Cardinality(Holding(m)') + lost'[m]
        <4> SUFFICES ASSUME NEW m \in Node
                     PROVE  refs'[m] = (IF m = ROOT THEN 1 ELSE 0)
                                       + Cardinality(Holding(m)') + lost'[m]
          OBVIOUS
        <4>1. Cardinality(Holding(m)') = Cardinality(Holding(m)) + IF m = n THEN 1 ELSE 0
          BY <1>0, <1>5, <2>1, SlotTaken
        <4>2. refs'[m] = refs[m] + IF m = n THEN 1 ELSE 0
          BY <1>0, <1>5 DEF FilesTypeInv
        <4>3. Cardinality(Holding(m)) \in Nat /\ refs[m] \in Int /\ lost[m] \in Int
          BY <1>0, FiniteHolding DEF FilesTypeInv
        <4>4. refs[m] = (IF m = ROOT THEN 1 ELSE 0) + Cardinality(Holding(m)) + lost[m]
          BY <1>0, CountHolding
        <4> QED BY <1>5, <4>1, <4>2, <4>3, <4>4
      <3> QED BY <3>1 DEF CountInv, Holding
    <2>8. OwnInv'
      <3> SUFFICES ASSUME ~cut, NEW g \in Fd, files'[g].open, files'[g].slot # NoSlot
                   PROVE  /\ slots'[files'[g].slot] = opened'[g][1]
                          /\ opened'[g][1] \in Node /\ files'[g].mode = opened'[g][2]
        BY <1>1 DEF OwnInv
      <3>1. CASE g = fd
        BY <2>1, <2>3, <2>4, <3>1
      <3>2. CASE g # fd
        <4>1. files'[g] = files[g] /\ opened'[g] = opened[g] /\ files[g] \in Entry
          BY <1>0, <2>4, <3>2 DEF FilesTypeInv
        <4>2. /\ slots[files[g].slot] = opened[g][1] /\ opened[g][1] \in Node
              /\ files[g].mode = opened[g][2]
          BY <1>0, <4>1 DEF OwnInv
        <4>3. files[g].slot \in Slot /\ files[g].slot # s
          BY <2>1, <4>1, <4>2, TableAssumption DEF Entry, Node, Free
        <4> QED BY <2>4, <4>1, <4>2, <4>3
      <3> QED BY <3>1, <3>2
    <2>9. PipeInv'
      BY <1>0, <1>1, <2>3, <2>4 DEF PipeInv
    <2> QED BY <2>5, <2>6, <2>7, <2>8, <2>9 DEF FilesInv
  <1> QED BY <1>2, <1>3, <1>4, <1>5 DEF Open

\* sc_close: of a pipe's end, of a descriptor with a slot in use, or of neither.
LEMMA CloseStep ==
  ASSUME FilesInv, NEW fd \in Fd, Close(fd)
  PROVE  FilesInv'
  <1> DEFINE f == files[fd]
  <1>0. FilesTypeInv /\ NamedInv /\ CountInv /\ OwnInv /\ PipeInv
    BY DEF FilesInv
  <1>1. /\ f.open /\ f \in Entry /\ lost' = lost
        /\ files' = [files EXCEPT ![fd] = Closed]
        /\ opened' = [opened EXCEPT ![fd] = Nobody]
    BY <1>0 DEF Close, Cleared, FilesTypeInv
  <1>2. /\ \A g \in Fd : /\ files'[g] = IF g = fd THEN Closed ELSE files[g]
                         /\ opened'[g] = IF g = fd THEN Nobody ELSE opened[g]
        /\ files' \in [Fd -> Entry] /\ ~Closed.open
    <2>1. Closed \in Entry /\ ~Closed.open
      BY Entries DEF Closed
    <2> QED BY <1>0, <1>1, <2>1 DEF FilesTypeInv
  <1>3. opened' \in [Fd -> (Node \cup {Free}) \X Modes]
    <2>1. Nobody \in (Node \cup {Free}) \X Modes
      BY DEF Nobody, Modes
    <2> QED BY <1>0, <1>1, <2>1 DEF FilesTypeInv
  <1>4. CASE f.end # "none"
    <2>1. /\ pipes' = [pipes EXCEPT ![f.pipe] = PipeClosed(@, f.end)]
          /\ UNCHANGED <<slots, refs, cut>>
      BY <1>4 DEF Close
    <2>2. f.pipe \in 1 .. PipeMax /\ f.end = "write"
      BY <1>0, <1>1, <1>4 DEF PipeInv, Entry
    <2>3. pipes[f.pipe] \in PipeRec
      BY <1>0, <2>2 DEF FilesTypeInv
    <2>4. /\ PipeClosed(pipes[f.pipe], f.end) \in PipeRec
          /\ PipeClosed(pipes[f.pipe], f.end).valid = pipes[f.pipe].valid
      BY <2>2, <2>3 DEF PipeClosed, PipeDone, PipeRec
    <2>5. /\ pipes' \in [1 .. PipeMax -> PipeRec]
          /\ \A p \in 1 .. PipeMax : pipes'[p].valid = pipes[p].valid
      <3> DEFINE q == PipeClosed(pipes[f.pipe], f.end)
      <3>1. pipes' = [pipes EXCEPT ![f.pipe] = q] /\ q \in PipeRec
            /\ q.valid = pipes[f.pipe].valid
        BY <2>1, <2>4
      <3> HIDE DEF q, f
      <3> QED BY <1>0, <2>2, <3>1 DEF FilesTypeInv
    <2>6. FilesTypeInv'
      BY <1>0, <1>1, <1>2, <1>3, <2>1, <2>5 DEF FilesTypeInv
    <2>7. NamedInv'
      <3> SUFFICES ASSUME NEW t \in Slot, Used(t)'
                   PROVE  \E g \in Fd : Names(files'[g], t)
        BY DEF NamedInv, Names
      <3>1. PICK g \in Fd : Names(files[g], t)
        BY <1>0, <2>1 DEF NamedInv, Used
      <3> QED BY <1>2, <1>4, <3>1 DEF Names
    <2>8. CountInv'
      BY <1>0, <1>1, <2>1 DEF CountInv
    <2>9. OwnInv' /\ PipeInv'
      BY <1>0, <1>2, <2>1, <2>5 DEF OwnInv, PipeInv
    <2> QED BY <2>6, <2>7, <2>8, <2>9 DEF FilesInv
  <1>5. CASE f.end = "none" /\ Used(f.slot)
    <2> DEFINE s == f.slot
    <2>1. /\ slots' = [slots EXCEPT ![s] = Free] /\ pipes' = pipes
          /\ refs' = [refs EXCEPT ![slots[s]] = @ - 1]
          /\ cut' = (cut \/ \E g \in Fd \ {fd} : files[g].open /\ files[g].slot = s)
      BY <1>5 DEF Close
    <2>2. s \in Slot /\ slots[s] # Free /\ slots[s] \in Node /\ s # NoSlot
      BY <1>0, <1>1, <1>5 DEF Used, Entry, FilesTypeInv
    <2> HIDE DEF s
    <2>3. \A t \in Slot : slots'[t] = IF t = s THEN Free ELSE slots[t]
      BY <1>0, <2>1 DEF FilesTypeInv
    <2>4. FilesTypeInv'
      <3>1. slots' \in [Slot -> Node \cup {Free}]
        BY <1>0, <2>1 DEF FilesTypeInv
      <3>2. refs' \in [Node -> Int]
        BY <1>0, <2>1, <2>2 DEF FilesTypeInv
      <3>3. cut' \in BOOLEAN
        BY <1>0, <2>1 DEF FilesTypeInv
      <3> QED BY <1>0, <1>1, <1>2, <1>3, <2>1, <3>1, <3>2, <3>3 DEF FilesTypeInv
    <2>5. NamedInv'
      <3> SUFFICES ASSUME NEW t \in Slot, Used(t)'
                   PROVE  \E g \in Fd : Names(files'[g], t)
        BY DEF NamedInv, Names
      <3>1. t # s /\ Used(t)
        BY <2>3 DEF Used
      <3>2. PICK g \in Fd : Names(files[g], t)
        BY <1>0, <3>1 DEF NamedInv
      <3>3. g # fd
        BY <3>1, <3>2 DEF Names, s
      <3> QED BY <1>2, <3>2, <3>3
    <2>6. CountInv'
      <3>1. \A m \in Node :
              refs'[m] = (IF m = ROOT THEN 1 ELSE 0) + Cardinality(Holding(m)') + lost'[m]
        <4> SUFFICES ASSUME NEW m \in Node
                     PROVE  refs'[m] = (IF m = ROOT THEN 1 ELSE 0)
                                       + Cardinality(Holding(m)') + lost'[m]
          OBVIOUS
        <4>1. Cardinality(Holding(m)')
                = Cardinality(Holding(m)) - IF m = slots[s] THEN 1 ELSE 0
          BY <1>0, <2>1, <2>2, SlotFreed
        <4>2. refs'[m] = refs[m] - IF m = slots[s] THEN 1 ELSE 0
          BY <1>0, <2>1, <2>2 DEF FilesTypeInv
        <4>3. Cardinality(Holding(m)) \in Nat /\ refs[m] \in Int /\ lost[m] \in Int
          BY <1>0, FiniteHolding DEF FilesTypeInv
        <4>4. refs[m] = (IF m = ROOT THEN 1 ELSE 0) + Cardinality(Holding(m)) + lost[m]
          BY <1>0, CountHolding
        <4> QED BY <1>1, <4>1, <4>2, <4>3, <4>4
      <3> QED BY <3>1 DEF CountInv, Holding
    <2>7. OwnInv'
      <3> SUFFICES ASSUME ~cut', NEW g \in Fd, files'[g].open, files'[g].slot # NoSlot
                   PROVE  /\ slots'[files'[g].slot] = opened'[g][1]
                          /\ opened'[g][1] \in Node /\ files'[g].mode = opened'[g][2]
        BY DEF OwnInv
      <3>1. g # fd /\ files'[g] = files[g] /\ opened'[g] = opened[g] /\ files[g] \in Entry
        BY <1>0, <1>2 DEF FilesTypeInv
      <3>2. ~cut /\ files[g].slot # s
        BY <2>1, <3>1
      <3>3. files[g].slot \in Slot
        BY <3>1 DEF Entry
      <3> QED BY <1>0, <2>3, <3>1, <3>2, <3>3 DEF OwnInv
    <2>8. PipeInv'
      BY <1>0, <1>2, <2>1 DEF PipeInv
    <2> QED BY <2>4, <2>5, <2>6, <2>7, <2>8 DEF FilesInv
  <1>6. CASE f.end = "none" /\ ~Used(f.slot)
    <2>1. UNCHANGED <<pipes, slots, refs, cut>>
      BY <1>6 DEF Close
    <2>2. FilesTypeInv'
      BY <1>0, <1>1, <1>2, <1>3, <2>1 DEF FilesTypeInv
    <2>3. NamedInv'
      <3> SUFFICES ASSUME NEW t \in Slot, Used(t)'
                   PROVE  \E g \in Fd : Names(files'[g], t)
        BY DEF NamedInv, Names
      <3>1. Used(t)
        BY <2>1 DEF Used
      <3>2. PICK g \in Fd : Names(files[g], t)
        BY <1>0, <3>1 DEF NamedInv
      <3>3. g # fd
        BY <1>6, <3>1, <3>2 DEF Names
      <3> QED BY <1>2, <3>2, <3>3
    <2>4. CountInv' /\ OwnInv' /\ PipeInv'
      BY <1>0, <1>1, <1>2, <2>1 DEF CountInv, OwnInv, PipeInv
    <2> QED BY <2>2, <2>3, <2>4 DEF FilesInv
  <1> QED BY <1>4, <1>5, <1>6

\* F_DUPFD and F_SETFL.
LEMMA CopyStep ==
  ASSUME FilesInv, NEW fd \in Fd,
         (\E from \in Fd \cup {-1} : Dup(fd, from)) \/ (\E more \in BOOLEAN : SetFl(fd, more))
  PROVE  FilesInv'
  <1>0. FilesTypeInv /\ NamedInv /\ CountInv /\ OwnInv /\ PipeInv
    BY DEF FilesInv
  <1>1. ASSUME NEW from \in Fd \cup {-1}, Dup(fd, from)
        PROVE  FilesInv'
    <2> DEFINE new == Min(FreeFds(from))
    <2>1. new \in Fd /\ ~files[new].open
      BY <1>1, FirstFd DEF Dup
    <2>2. /\ files' = [files EXCEPT ![new] = files[fd]]
          /\ opened' = [opened EXCEPT ![new] = opened[fd]]
          /\ UNCHANGED <<slots, refs, lost, pipes, cut>>
      BY <1>1 DEF Dup, Kept
    <2> HIDE DEF new
    <2>3. \A g \in Fd : /\ files'[g] = files[IF g = new THEN fd ELSE g]
                        /\ opened'[g] = opened[IF g = new THEN fd ELSE g]
      BY <1>0, <2>2 DEF FilesTypeInv
    <2>4. FilesTypeInv'
      BY <1>0, <2>1, <2>2 DEF FilesTypeInv
    <2>5. NamedInv'
      <3> SUFFICES ASSUME NEW t \in Slot, Used(t)'
                   PROVE  \E g \in Fd : Names(files'[g], t)
        BY DEF NamedInv, Names
      <3>1. PICK g \in Fd : Names(files[g], t)
        BY <1>0, <2>2 DEF NamedInv, Used
      <3>2. g # new
        BY <2>1, <3>1 DEF Names
      <3> QED BY <2>3, <3>1, <3>2
    <2>6. CountInv'
      BY <1>0, <2>2 DEF CountInv
    <2>7. OwnInv' /\ PipeInv'
      BY <1>0, <2>2, <2>3 DEF OwnInv, PipeInv
    <2> QED BY <2>4, <2>5, <2>6, <2>7 DEF FilesInv
  <1>2. ASSUME NEW more \in BOOLEAN, SetFl(fd, more)
        PROVE  FilesInv'
    <2>1. /\ files' = [files EXCEPT ![fd].more = more]
          /\ UNCHANGED <<slots, refs, opened, lost, pipes, cut>>
      BY <1>2 DEF SetFl, Kept
    <2>2. /\ files' \in [Fd -> Entry]
          /\ \A g \in Fd : /\ files'[g].open = files[g].open
                           /\ files'[g].slot = files[g].slot
                           /\ files'[g].mode = files[g].mode
                           /\ files'[g].end = files[g].end
                           /\ files'[g].pipe = files[g].pipe
      <3>1. files \in [Fd -> Entry]
        BY <1>0 DEF FilesTypeInv
      <3>2. [files[fd] EXCEPT !.more = more] \in Entry
        BY <3>1 DEF Entry
      <3>3. files' = [files EXCEPT ![fd] = [files[fd] EXCEPT !.more = more]]
        BY <2>1, <3>1
      <3>4. \A g \in Fd : files'[g] = files[g] \/ files'[g] = [files[g] EXCEPT !.more = more]
        BY <3>1, <3>3
      <3>5. files' \in [Fd -> Entry]
        BY <3>1, <3>2, <3>3
      <3>6. \A e \in Entry : LET c == [e EXCEPT !.more = more] IN
              c.open = e.open /\ c.slot = e.slot /\ c.mode = e.mode /\ c.end = e.end
              /\ c.pipe = e.pipe
        BY DEF Entry
      <3> QED BY <3>1, <3>4, <3>5, <3>6
    <2>3. FilesTypeInv'
      BY <1>0, <2>1, <2>2 DEF FilesTypeInv
    <2>4. NamedInv' /\ CountInv'
      <3>1. CountInv'
        BY <1>0, <2>1 DEF CountInv
      <3>2. ASSUME NEW s \in Slot, Used(s)'
            PROVE  \E g \in Fd : Names(files[g], s)'
        <4>1. PICK g \in Fd : Names(files[g], s)
          BY <1>0, <2>1, <3>2 DEF NamedInv, Used
        <4>2. Names(files[g], s)'
          BY <2>2, <4>1 DEF Names
        <4> QED BY <4>2
      <3> QED BY <3>1, <3>2 DEF NamedInv
    <2>5. OwnInv' /\ PipeInv'
      BY <1>0, <2>1, <2>2 DEF OwnInv, PipeInv
    <2> QED BY <2>3, <2>4, <2>5 DEF FilesInv
  <1> QED BY <1>1, <1>2

\* sc_pipe gives both ends one descriptor, that to write with last.
LEMMA PipeStep ==
  ASSUME FilesInv, Pipe
  PROVE  FilesInv'
  <1>0. FilesTypeInv /\ NamedInv /\ CountInv /\ OwnInv /\ PipeInv
    BY DEF FilesInv
  <1> DEFINE fd == Min(FreeFds(Reserved))
  <1>1. fd \in Fd /\ ~files[fd].open
    BY FirstFd DEF Pipe
  <1>2. PICK p \in 1 .. PipeMax :
          /\ files' = [files EXCEPT ![fd] = End("read", p), ![fd] = End("write", p)]
          /\ pipes' = [pipes EXCEPT ![p] = [NoPipe EXCEPT !.valid = TRUE]]
    BY DEF Pipe
  <1>3. UNCHANGED <<slots, refs, opened, cut, lost>>
    BY DEF Pipe
  <1> HIDE DEF fd
  <1> DEFINE e == End("write", p)
             q == [NoPipe EXCEPT !.valid = TRUE]
  <1>4. e \in Entry /\ e.open /\ e.slot = NoSlot /\ e.end = "write" /\ e.pipe = p
    BY Entries DEF End
  <1>5. q \in PipeRec /\ q.valid
    <2>1. NoPipe \in PipeRec
      BY DEF NoPipe, PipeRec
    <2> QED BY <2>1 DEF PipeRec
  <1> HIDE DEF e, q
  <1>6. /\ \A g \in Fd : files'[g] = IF g = fd THEN e ELSE files[g]
        /\ files' \in [Fd -> Entry]
    BY <1>0, <1>1, <1>2, <1>4 DEF FilesTypeInv, e
  <1>7. /\ \A r \in 1 .. PipeMax : pipes'[r] = IF r = p THEN q ELSE pipes[r]
        /\ pipes' \in [1 .. PipeMax -> PipeRec]
    BY <1>0, <1>2, <1>5 DEF FilesTypeInv, q
  <1>8. FilesTypeInv'
    BY <1>0, <1>3, <1>6, <1>7 DEF FilesTypeInv
  <1>9. NamedInv'
    <2> SUFFICES ASSUME NEW t \in Slot, Used(t)'
                 PROVE  \E g \in Fd : Names(files'[g], t)
      BY DEF NamedInv, Names
    <2>1. PICK g \in Fd : Names(files[g], t)
      BY <1>0, <1>3 DEF NamedInv, Used
    <2>2. g # fd
      BY <1>1, <2>1 DEF Names
    <2> QED BY <1>6, <2>1, <2>2
  <1>10. CountInv' /\ OwnInv'
    BY <1>0, <1>3, <1>4, <1>6 DEF CountInv, OwnInv
  <1>11. PipeInv'
    BY <1>0, <1>4, <1>5, <1>6, <1>7 DEF PipeInv
  <1> QED BY <1>8, <1>9, <1>10, <1>11 DEF FilesInv

\* sc_write on a pipe.
LEMMA PipeWriteStep ==
  ASSUME FilesInv, NEW fd \in Fd, NEW n \in 1 .. PipeSize, PipeWrite(fd, n)
  PROVE  FilesInv'
  <1> DEFINE f == files[fd]
  <1>0. FilesTypeInv /\ NamedInv /\ CountInv /\ OwnInv /\ PipeInv
    BY DEF FilesInv
  <1>1. /\ pipes' = [pipes EXCEPT ![f.pipe].count = Min({@ + n, PipeSize})]
        /\ f.pipe \in 1 .. PipeMax
        /\ UNCHANGED <<files, slots, refs, opened, cut, lost>>
    BY <1>0 DEF PipeWrite, PipeInv
  <1>2. pipes[f.pipe] \in PipeRec
    BY <1>0, <1>1 DEF FilesTypeInv
  <1> DEFINE c == Min({pipes[f.pipe].count + n, PipeSize})
  <1>3. c \in Int
    <2>1. pipes[f.pipe].count + n \in Int /\ PipeSize \in Int
      <3>1. pipes[f.pipe].count \in Int
        BY <1>2 DEF PipeRec
      <3>2. n \in Int /\ PipeSize \in Int
        BY TableAssumption
      <3> HIDE DEF f
      <3> QED BY <3>1, <3>2
    <2>2. \E m \in {pipes[f.pipe].count + n, PipeSize} :
            \A y \in {pipes[f.pipe].count + n, PipeSize} : m <= y
      BY <2>1
    <2> QED BY <2>1, <2>2 DEF Min
  <1> HIDE DEF c
  <1>4. pipes' = [pipes EXCEPT ![f.pipe] = [pipes[f.pipe] EXCEPT !.count = c]]
    BY <1>1 DEF c
  <1> HIDE DEF f
  <1>5. /\ pipes' \in [1 .. PipeMax -> PipeRec]
        /\ \A p \in 1 .. PipeMax : pipes'[p].valid = pipes[p].valid
    <2> DEFINE q == [pipes[f.pipe] EXCEPT !.count = c]
    <2>1. q \in PipeRec /\ q.valid = pipes[f.pipe].valid
      BY <1>2, <1>3 DEF PipeRec
    <2> HIDE DEF q
    <2>2. pipes' = [pipes EXCEPT ![f.pipe] = q]
      BY <1>4 DEF q
    <2> QED BY <1>0, <1>1, <2>1, <2>2 DEF FilesTypeInv
  <1>6. FilesTypeInv'
    BY <1>0, <1>1, <1>5 DEF FilesTypeInv
  <1>7. NamedInv' /\ CountInv' /\ OwnInv'
    BY <1>0, <1>1 DEF NamedInv, CountInv, OwnInv, Used
  <1>8. PipeInv'
    BY <1>0, <1>1, <1>5 DEF PipeInv
  <1> QED BY <1>6, <1>7, <1>8 DEF FilesInv

LEMMA FilesSpecInv == FilesSpec => []FilesInv
  <1>1. ASSUME FilesInv, [FilesNext]_filesVars
        PROVE  FilesInv'
    <2>1. CASE UNCHANGED <<files, slots, pipes, refs, opened, cut, lost>>
      BY <1>1, <2>1
         DEF FilesInv, FilesTypeInv, NamedInv, CountInv, OwnInv, PipeInv, Used
    <2>2. CASE \E n \in Name : Mkdir(n) \/ Unlink(n)
      BY <2>1, <2>2 DEF Mkdir, Unlink, Kept
    <2> QED BY <1>1, <2>1, <2>2, OpenStep, CloseStep, CopyStep, PipeStep, PipeWriteStep
            DEF FilesNext, filesVars
  <1> QED BY <1>1, FilesInitInv, PTL DEF FilesSpec

-----------------------------------------------------------------------------
(* Theorems                                                                *)

\* For tables of any size: every descriptor of VFS.c in use is named by one of
\* the programs', and the references to a node are those descriptors, the mount
\* of the root, and what opens without a free slot have left behind.
THEOREM NodesAreAccounted == FilesSpec => []NodesAccounted
  <1>1. FilesInv => NodesAccounted
    BY DEF FilesInv, NamedInv, CountInv, NodesAccounted, Names
  <1> QED BY FilesSpecInv, <1>1, PTL

\* Until a slot is closed under a copy, a call on a descriptor reaches the file
\* it was opened with, and changes it only if it was opened for writing.
THEOREM DescriptorsReachOwn == FilesSpec => []OwnFile
  <1>1. FilesInv => OwnFile
    <2> SUFFICES ASSUME OwnInv, ~cut, NEW fd \in Fd, Reaches(files[fd])
                 PROVE  /\ slots[files[fd].slot] = opened[fd][1]
                        /\ files[fd].mode = opened[fd][2]
      BY DEF FilesInv, OwnFile, MayRead, MayLook, MayWrite, MayTruncate
    <2> QED BY DEF OwnInv, Reaches, Used
  <1> QED BY FilesSpecInv, <1>1, PTL

-----------------------------------------------------------------------------
(* Devices: probing and the root                                           *)

DeviceName == {"vd", "sd", "hd"} \X Nat
DeviceDriver == {"vblk", "ahci", "ide"}
BlockDevice == [name : DeviceName, drv : DeviceDriver, slot : Nat, unit : DeviceDriver \X Nat]

InVblk == pc \in {"find", "vq", "req", "priv", "queue", "ready"}
AtPort == pc \in {"identify", "name", "giveup"}

DevicesTypeInv ==
  /\ u \in Nat /\ portCount \in Nat /\ driveCount \in Nat
  /\ devs \in Seq(BlockDevice)

\* Which of virtio-blk's memory there is at each step, and that the device
\* does not know of it until it is told its queue.
VblkInv ==
  /\ InVblk => u = 0
  /\ InVblk /\ pc # "ready" => dma = {}
  /\ pc \in {"find", "vq"} => held = {}
  /\ pc = "req" => held = {<<"vq", 0>>}
  /\ pc = "priv" => held = {<<"vq", 0>>, <<"req", 0>>}
  /\ pc = "queue" => held = {<<"vq", 0>>, <<"req", 0>>, <<"priv", 0>>}

\* Memory in use that is not allocated is that of a port which has not stopped,
\* or of the IDENTIFY that has just timed out, or the queue virtio-blk refused.
DmaInv ==
  \A k \in dma \ held : \/ k[2] \in unstopped
                        \/ refused /\ k = <<"vq", 0>>
                        \/ pc = "giveup" /\ k = <<"identify", u>>

\* Whose the memory is, with the probe that is under way.
HeldInv ==
  \A k \in held :
    \/ k[1] = "prdt"
    \/ k[1] = "port" /\ \/ <<"ahci", k[2]>> \in Registered \/ TableFull
                        \/ AtPort /\ k = <<"port", u>>
    \/ k[1] \in {"vq", "req", "priv"} /\ \/ <<"vblk", 0>> \in Registered \/ refused
                                         \/ InVblk

DevicesInv == DevicesTypeInv /\ VblkInv /\ DmaInv /\ HeldInv

-----------------------------------------------------------------------------
(* Registering                                                             *)

\* What is registered stays registered, and a full table stays full.
LEMMA RegisterGrows ==
  ASSUME DevicesTypeInv, NEW name \in DeviceName, NEW drv \in DeviceDriver, NEW slot \in Nat,
         Register(name, drv, slot)
  PROVE  /\ devs' \in Seq(BlockDevice)
         /\ Registered' = Registered \cup {<<drv, u>>}
         /\ TableFull => TableFull'
  <1> DEFINE d == [name |-> name, drv |-> drv, slot |-> slot, unit |-> <<drv, u>>]
  <1>1. d \in BlockDevice
    BY DEF DevicesTypeInv, BlockDevice
  <1>2. devs' = Append(devs, d) /\ d.unit = <<drv, u>>
    BY DEF Register
  <1> HIDE DEF d
  <1>3. devs' \in Seq(BlockDevice) /\ Len(devs') = Len(devs) + 1
    BY <1>1, <1>2 DEF DevicesTypeInv
  <1>4. DOMAIN devs' = DOMAIN devs \cup {Len(devs) + 1}
    BY <1>2, <1>3 DEF DevicesTypeInv
  <1>5. /\ \A i \in DOMAIN devs : devs'[i] = devs[i]
        /\ devs'[Len(devs) + 1] = d
    BY <1>1, <1>2 DEF DevicesTypeInv
  <1>6. Registered' = Registered \cup {<<drv, u>>}
    <2>1. Registered' = {devs'[i].unit : i \in DOMAIN devs \cup {Len(devs) + 1}}
      BY <1>4 DEF Registered
    <2>2. \A i \in DOMAIN devs : devs'[i].unit = devs[i].unit
      BY <1>5
    <2>3. devs'[Len(devs) + 1].unit = <<drv, u>>
      BY <1>2, <1>5
    <2>4. Registered' \subseteq Registered \cup {<<drv, u>>}
      <3> SUFFICES ASSUME NEW i \in DOMAIN devs \cup {Len(devs) + 1}
                   PROVE  devs'[i].unit \in Registered \cup {<<drv, u>>}
        BY <2>1
      <3> QED BY <2>2, <2>3 DEF Registered
    <2>5. <<drv, u>> \in Registered'
      BY <2>1, <2>3
    <2>6. Registered \subseteq Registered'
      <3> SUFFICES ASSUME NEW i \in DOMAIN devs PROVE devs[i].unit \in Registered'
        BY DEF Registered
      <3> QED BY <2>1, <2>2
    <2> QED BY <2>4, <2>5, <2>6
  <1>7. TableFull => TableFull'
    BY <1>3, DevicesAssumption DEF TableFull, DevicesTypeInv
  <1> QED BY <1>3, <1>6, <1>7

LEMMA SameDevices ==
  ASSUME UNCHANGED devs
  PROVE  Registered' = Registered /\ TableFull' = TableFull
  BY DEF Registered, TableFull

\* What registering x does to the table.
Grows(x) ==
  /\ devs' \in Seq(BlockDevice)
  /\ Registered' = Registered \cup {x}
  /\ TableFull => TableFull'

LEMMA ReadyRegisters ==
  ASSUME DevicesTypeInv, VblkReady
  PROVE  (devs' = devs /\ refused') \/ Grows(<<"vblk", u>>)
  <1>1. <<"vd", 0>> \in DeviceName /\ "vblk" \in DeviceDriver /\ 0 \in Nat
    BY DEF DeviceName, DeviceDriver
  <1>2. CASE Register(<<"vd", 0>>, "vblk", 0)
    BY <1>1, <1>2, RegisterGrows DEF Grows
  <1> QED BY <1>2 DEF VblkReady

LEMMA PortRegisters ==
  ASSUME DevicesTypeInv, PortRegister
  PROVE  (devs' = devs /\ TableFull) \/ Grows(<<"ahci", u>>)
  <1>1. <<"sd", portCount>> \in DeviceName /\ "ahci" \in DeviceDriver /\ portCount \in Nat
    BY DEF DevicesTypeInv, DeviceName, DeviceDriver
  <1>2. CASE Register(<<"sd", portCount>>, "ahci", portCount)
    BY <1>1, <1>2, RegisterGrows DEF Grows
  <1> QED BY <1>2 DEF PortRegister

LEMMA DriveRegisters ==
  ASSUME DevicesTypeInv, Drive
  PROVE  devs' = devs \/ Grows(<<"ide", u>>)
  <1>1. <<"hd", u>> \in DeviceName /\ "ide" \in DeviceDriver /\ driveCount \in Nat
    BY DEF DevicesTypeInv, DeviceName, DeviceDriver
  <1>2. CASE Register(<<"hd", u>>, "ide", driveCount)
    BY <1>1, <1>2, RegisterGrows DEF Grows
  <1> QED BY <1>2 DEF Drive

-----------------------------------------------------------------------------
(* The invariant                                                           *)

LEMMA DevicesInitInv == DevicesInit => DevicesInv
  <1> SUFFICES ASSUME DevicesInit PROVE DevicesInv
    OBVIOUS
  <1>1. DevicesTypeInv
    BY DEF DevicesInit, DevicesTypeInv
  <1>2. VblkInv /\ DmaInv /\ HeldInv
    BY DEF DevicesInit, VblkInv, InVblk, DmaInv, HeldInv
  <1> QED BY <1>1, <1>2 DEF DevicesInv

LEMMA DevicesTypeStep == DevicesTypeInv /\ [DevicesNext]_devicesVars => DevicesTypeInv'
  <1> SUFFICES ASSUME DevicesTypeInv, [DevicesNext]_devicesVars PROVE DevicesTypeInv'
    OBVIOUS
  <1> USE DEF DevicesTypeInv
  <1>1. CASE VblkFind
    BY <1>1 DEF VblkFind, Vblk, NotVblk, ideVars
  <1>2. CASE VblkAlloc
    BY <1>2 DEF VblkAlloc, Vblk, NotVblk, ideVars
  <1>3. CASE VblkQueue
    BY <1>3 DEF VblkQueue, Vblk, NotVblk, ideVars
  <1>4. CASE VblkReady
    <2>1. u' \in Nat /\ portCount' \in Nat /\ driveCount' \in Nat
      BY <1>4 DEF VblkReady, Vblk, NotVblk, ideVars
    <2>2. devs' \in Seq(BlockDevice)
      BY <1>4, ReadyRegisters DEF Grows
    <2> QED BY <2>1, <2>2
  <1>5. CASE NoDrive
    BY <1>5 DEF NoDrive, NextPort, Proceed, NotAhci, ideVars
  <1>6. CASE PortInit
    BY <1>6 DEF PortInit, NextPort, Proceed, NotAhci, ideVars
  <1>7. CASE Identify
    BY <1>7 DEF Identify, NotAhci, ideVars
  <1>8. CASE PortGiveUp
    BY <1>8 DEF PortGiveUp, NextPort, Proceed, NotAhci, ideVars
  <1>9. CASE PortRegister
    <2>1. u' \in Nat /\ portCount' \in Nat /\ driveCount' \in Nat
      BY <1>9 DEF PortRegister, NextPort, Proceed, NotAhci, ideVars, Counted
    <2>2. devs' \in Seq(BlockDevice)
      BY <1>9, PortRegisters DEF Grows
    <2> QED BY <2>1, <2>2
  <1>10. CASE BusMaster
    BY <1>10 DEF BusMaster, NotIde
  <1>11. CASE Prdt
    BY <1>11 DEF Prdt, NotIde
  <1>12. CASE Drive
    <2>1. u' \in Nat /\ portCount' \in Nat /\ driveCount' \in Nat
      BY <1>12 DEF Drive, Proceed, NotIde
    <2>2. devs' \in Seq(BlockDevice)
      BY <1>12, DriveRegisters DEF Grows
    <2> QED BY <2>1, <2>2
  <1>13. CASE Mount
    BY <1>13 DEF Mount, Proceed, ideVars
  <1>14. CASE UNCHANGED devicesVars
    BY <1>14 DEF devicesVars, ideVars
  <1> QED BY <1>1, <1>2, <1>3, <1>4, <1>5, <1>6, <1>7, <1>8, <1>9, <1>10, <1>11,
             <1>12, <1>13, <1>14 DEF DevicesNext

\* Whatever the step, what was registered still is.
LEMMA RegisteredStays ==
  ASSUME DevicesTypeInv, [DevicesNext]_devicesVars
  PROVE  Registered \subseteq Registered' /\ (TableFull => TableFull')
  <1>1. CASE UNCHANGED devs
    BY <1>1, SameDevices
  <1>2. CASE VblkReady
    BY <1>1, <1>2, ReadyRegisters DEF Grows
  <1>3. CASE PortRegister
    BY <1>1, <1>3, PortRegisters DEF Grows
  <1>4. CASE Drive
    BY <1>1, <1>4, DriveRegisters DEF Grows
  <1> QED
    BY <1>1, <1>2, <1>3, <1>4 DEF DevicesNext, devicesVars, VblkFind, VblkAlloc, VblkQueue, NoDrive,
       PortInit, Identify, PortGiveUp, BusMaster, Prdt, Mount

LEMMA VblkStep == DevicesTypeInv /\ VblkInv /\ [DevicesNext]_devicesVars => VblkInv'
  <1> SUFFICES ASSUME DevicesTypeInv, VblkInv, [DevicesNext]_devicesVars PROVE VblkInv'
    OBVIOUS
  <1> USE DEF VblkInv, InVblk
  <1>1. CASE VblkFind
    BY <1>1 DEF VblkFind, Vblk
  <1>2. CASE VblkAlloc
    BY <1>2 DEF VblkAlloc, Vblk
  <1>3. CASE VblkQueue
    BY <1>3 DEF VblkQueue, Vblk
  <1>4. CASE VblkReady
    BY <1>4 DEF VblkReady, Vblk
  <1>5. CASE NoDrive \/ PortInit \/ PortGiveUp \/ PortRegister
    BY <1>5 DEF NoDrive, PortInit, PortGiveUp, PortRegister, NextPort, Proceed
  <1>6. CASE Identify \/ BusMaster \/ Prdt
    BY <1>6 DEF Identify, BusMaster, Prdt
  <1>7. CASE Drive \/ Mount
    BY <1>7 DEF Drive, Mount, Proceed
  <1>8. CASE UNCHANGED devicesVars
    BY <1>8 DEF devicesVars
  <1> QED BY <1>1, <1>2, <1>3, <1>4, <1>5, <1>6, <1>7, <1>8 DEF DevicesNext

LEMMA DmaStep == VblkInv /\ DmaInv /\ [DevicesNext]_devicesVars => DmaInv'
  <1> SUFFICES ASSUME VblkInv, DmaInv, [DevicesNext]_devicesVars PROVE DmaInv'
    OBVIOUS
  <1> USE DEF DmaInv
  <1>1. CASE VblkFind
    BY <1>1 DEF VblkFind, NotVblk
  <1>2. CASE VblkAlloc
    BY <1>2 DEF VblkAlloc, VblkInv, InVblk
  <1>3. CASE VblkQueue
    <2>1. dma = {} /\ {<<"vq", 0>>, <<"req", 0>>} \subseteq held
      BY <1>3 DEF VblkQueue, VblkInv, InVblk
    <2>2. \/ dma' \subseteq held /\ held' = held
          \/ refused' /\ dma' \subseteq {<<"vq", 0>>}
      BY <1>3, <2>1 DEF VblkQueue
    <2> QED BY <2>2
  <1>4. CASE VblkReady
    BY <1>4 DEF VblkReady, NotVblk
  <1>5. CASE NoDrive
    BY <1>5 DEF NoDrive, NotAhci
  <1>6. CASE PortInit
    BY <1>6 DEF PortInit, NotAhci
  <1>7. CASE Identify
    BY <1>7 DEF Identify, NotAhci
  <1>8. CASE PortGiveUp
    <2> SUFFICES ASSUME NEW k \in dma' \ held'
                 PROVE  k[2] \in unstopped' \/ (refused' /\ k = <<"vq", 0>>)
      OBVIOUS
    <2>1. CASE k = <<"port", u>> \/ k = <<"identify", u>>
      BY <1>8, <2>1 DEF PortGiveUp, Stopped, NotAhci
    <2>2. CASE k # <<"port", u>> /\ k # <<"identify", u>>
      BY <1>8, <2>2 DEF PortGiveUp, Stopped, NotAhci
    <2> QED BY <2>1, <2>2
  <1>9. CASE PortRegister
    BY <1>9 DEF PortRegister, NotAhci
  <1>10. CASE BusMaster \/ Prdt
    BY <1>10 DEF BusMaster, Prdt, NotIde
  <1>11. CASE Drive
    BY <1>11 DEF Drive, NotIde
  <1>12. CASE Mount
    BY <1>12 DEF Mount
  <1>13. CASE UNCHANGED devicesVars
    BY <1>13 DEF devicesVars
  <1> QED BY <1>1, <1>2, <1>3, <1>4, <1>5, <1>6, <1>7, <1>8, <1>9, <1>10, <1>11,
             <1>12, <1>13 DEF DevicesNext

LEMMA HeldStep == DevicesTypeInv /\ VblkInv /\ HeldInv /\ [DevicesNext]_devicesVars => HeldInv'
  <1> SUFFICES ASSUME DevicesTypeInv, VblkInv, HeldInv, [DevicesNext]_devicesVars, NEW k \in held'
               PROVE \/ k[1] = "prdt"
                     \/ k[1] = "port" /\ \/ <<"ahci", k[2]>> \in Registered' \/ TableFull'
                                         \/ AtPort' /\ k = <<"port", u'>>
                     \/ k[1] \in {"vq", "req", "priv"}
                          /\ \/ <<"vblk", 0>> \in Registered' \/ refused' \/ InVblk'
    BY DEF HeldInv
  <1>0. Registered \subseteq Registered' /\ (TableFull => TableFull')
    BY RegisteredStays
  <1> USE DEF HeldInv, AtPort, InVblk
  <1>1. CASE VblkFind
    BY <1>0, <1>1 DEF VblkFind, VblkInv
  <1>2. CASE VblkAlloc
    BY <1>0, <1>2 DEF VblkAlloc, Vblk, GivenUp, NotVblk, VblkInv
  <1>3. CASE VblkQueue
    BY <1>0, <1>3 DEF VblkQueue, Vblk, GivenUp, NotVblk, VblkInv
  <1>4. CASE VblkReady
    <2>1. held' = held /\ (refused' \/ Registered' = Registered \cup {<<"vblk", u>>})
      BY <1>4, ReadyRegisters DEF VblkReady, Grows
    <2>2. u = 0
      BY <1>4 DEF VblkReady, VblkInv
    <2> QED BY <1>0, <1>4, <2>1, <2>2 DEF VblkReady
  <1>5. CASE NoDrive
    BY <1>0, <1>5 DEF NoDrive, NotAhci
  <1>6. CASE PortInit
    BY <1>0, <1>6 DEF PortInit, NotAhci
  <1>7. CASE Identify
    BY <1>0, <1>7 DEF Identify, NotAhci
  <1>8. CASE PortGiveUp
    BY <1>0, <1>8 DEF PortGiveUp, NotAhci
  <1>9. CASE PortRegister
    <2>1. held' = held /\ (TableFull \/ Registered' = Registered \cup {<<"ahci", u>>})
      BY <1>9, PortRegisters DEF PortRegister, Grows
    <2> QED BY <1>0, <1>9, <2>1 DEF PortRegister, NotAhci
  <1>10. CASE BusMaster
    BY <1>0, <1>10 DEF BusMaster, NotIde
  <1>11. CASE Prdt
    BY <1>0, <1>11 DEF Prdt, NotIde
  <1>12. CASE Drive
    BY <1>0, <1>12 DEF Drive, NotIde
  <1>13. CASE Mount
    BY <1>0, <1>13 DEF Mount
  <1>14. CASE UNCHANGED devicesVars
    BY <1>0, <1>14 DEF devicesVars
  <1> QED BY <1>1, <1>2, <1>3, <1>4, <1>5, <1>6, <1>7, <1>8, <1>9, <1>10, <1>11,
             <1>12, <1>13, <1>14 DEF DevicesNext

LEMMA DevicesSpecInv == DevicesSpec => []DevicesInv
  <1>1. DevicesInv /\ [DevicesNext]_devicesVars => DevicesInv'
    BY DevicesTypeStep, VblkStep, DmaStep, HeldStep DEF DevicesInv
  <1> QED BY DevicesInitInv, <1>1, PTL DEF DevicesSpec

-----------------------------------------------------------------------------
(* Names and units                                                         *)

PortStage == pc = "port" \/ AtPort
BeforeDrives == InVblk \/ PortStage \/ pc \in {"master", "prdt"}
Numbers == 0 .. portCount - 1

\* The tables of the drivers, filled from the front in the order of the probes.
TableInv ==
  /\ ports \in [0 .. MaxPorts - 1 -> Int] /\ drives \in [0 .. Drives - 1 -> Int]
  /\ portCount <= MaxPorts
  /\ InVblk => portCount = 0
  /\ AtPort => portCount < MaxPorts /\ ports[portCount] = u
  /\ PortStage => \A s \in Numbers : ports[s] < u
  /\ \A s, t \in Numbers : s <= t => ports[s] <= ports[t]
  /\ BeforeDrives => driveCount = 0
  /\ pc = "drive" => u < Drives /\ driveCount <= u

\* What an entry of the table of block devices says of its disk, by the tables
\* of the drivers: ps of AHCI with n entries, ds of IDE with m.
Right(d, ps, n, ds, m) ==
  \/ d.drv = "vblk" /\ d.name = <<"vd", 0>> /\ d.unit = <<"vblk", 0>>
  \/ /\ d.drv = "ahci" /\ d.slot \in 0 .. n - 1
     /\ d.name = <<"sd", d.slot>> /\ d.unit = <<"ahci", ps[d.slot]>>
  \/ /\ d.drv = "ide" /\ d.slot \in 0 .. m - 1
     /\ d.name = <<"hd", ds[d.slot]>> /\ d.unit = <<"ide", ds[d.slot]>>

\* It is true of the disk it was registered for, also now.
EntryInv ==
  /\ \A i \in DOMAIN devs : Right(devs[i], ports, portCount, drives, driveCount)
  /\ portCount > 0 => \E i \in DOMAIN devs : devs[i].name = <<"sd", 0>>

NameInv == DevicesTypeInv /\ VblkInv /\ TableInv /\ EntryInv

LEMMA NameInit == DevicesInit => NameInv
  <1> SUFFICES ASSUME DevicesInit PROVE NameInv
    OBVIOUS
  <1>1. DevicesTypeInv /\ VblkInv
    BY DevicesInitInv DEF DevicesInv
  <1>2. TableInv
    BY DevicesAssumption DEF DevicesInit, TableInv, InVblk, AtPort, PortStage, BeforeDrives,
       Numbers, NoEntry
  <1>3. EntryInv
    BY DEF DevicesInit, EntryInv
  <1> QED BY <1>1, <1>2, <1>3 DEF NameInv

\* The entries are in the order of the ports, also while one is filled in.
Sorted == \A s, t \in Numbers : s <= t => ports[s] <= ports[t]

\* The probe of the ports goes on with the next.
LEMMA PassPort ==
  ASSUME DevicesTypeInv, TableInv, PortStage, NextPort, UNCHANGED <<drives, driveCount>>,
         ports' \in [0 .. MaxPorts - 1 -> Int],
         portCount' \in Nat, portCount' <= MaxPorts,
         \A s \in Numbers' : ports'[s] <= u, Sorted'
  PROVE  TableInv'
  <1>1. (pc' = "port" /\ u' = u + 1) \/ (pc' = "master" /\ u' = 0)
    BY DEF NextPort, Proceed
  <1>2. ~InVblk' /\ ~AtPort' /\ pc' # "drive"
    BY <1>1 DEF InVblk, AtPort
  <1>3. driveCount = 0 /\ drives \in [0 .. Drives - 1 -> Int]
    BY DEF TableInv, BeforeDrives
  <1>4. PortStage' => \A s \in Numbers' : ports'[s] < u'
    <2> SUFFICES ASSUME PortStage', NEW s \in Numbers' PROVE ports'[s] < u'
      OBVIOUS
    <2>1. u' = u + 1
      BY <1>1 DEF PortStage, AtPort
    <2>2. MaxPorts \in Nat
      BY DevicesAssumption
    <2>3. s \in 0 .. MaxPorts - 1
      <3>1. s \in 0 .. portCount' - 1
        BY DEF Numbers
      <3>2. \A n \in Nat, m \in Nat : n <= m => 0 .. n - 1 \subseteq 0 .. m - 1
        OBVIOUS
      <3> QED BY <2>2, <3>1, <3>2
    <2>4. ports'[s] \in Int /\ ports'[s] <= u /\ u \in Nat
      BY <2>3 DEF DevicesTypeInv
    <2> QED BY <2>1, <2>4
  <1> QED BY <1>2, <1>3, <1>4 DEF TableInv, Sorted

LEMMA TableStep == DevicesTypeInv /\ VblkInv /\ TableInv /\ [DevicesNext]_devicesVars => TableInv'
  <1> SUFFICES ASSUME DevicesTypeInv, VblkInv, TableInv, [DevicesNext]_devicesVars PROVE TableInv'
    OBVIOUS
  <1>0. {Ports, Channels, MaxPorts} \subseteq Nat \ {0} /\ Drives = 2 * Channels
    BY DevicesAssumption DEF Drives
  <1>a. PortStage => \A s \in Numbers : ports[s] <= u
    <2> SUFFICES ASSUME PortStage, NEW s \in Numbers PROVE ports[s] <= u
      OBVIOUS
    <2>1. s \in 0 .. MaxPorts - 1
      BY <1>0 DEF TableInv, DevicesTypeInv, Numbers
    <2>2. ports[s] \in Int /\ ports[s] < u /\ u \in Nat
      BY <2>1 DEF TableInv, DevicesTypeInv
    <2> QED BY <2>2
  <1>1. CASE VblkFind \/ VblkAlloc \/ VblkQueue \/ VblkReady
    <2> USE <1>0 DEF ideVars, VblkInv, DevicesTypeInv, TableInv, InVblk, AtPort, PortStage,
                     BeforeDrives, Numbers
    <2>1. CASE VblkFind
      BY <2>1 DEF VblkFind, Vblk, NotVblk
    <2>2. CASE VblkAlloc
      BY <2>2 DEF VblkAlloc, Vblk, NotVblk
    <2>3. CASE VblkQueue
      BY <2>3 DEF VblkQueue, Vblk, NotVblk
    <2>4. CASE VblkReady
      BY <2>4 DEF VblkReady, Vblk, NotVblk
    <2> QED BY <1>1, <2>1, <2>2, <2>3, <2>4
  <1>5. CASE NoDrive
    <2>1. PortStage /\ NextPort /\ UNCHANGED <<portCount, ports, drives, driveCount>>
      BY <1>5 DEF NoDrive, NotAhci, ideVars, PortStage
    <2> QED BY <1>a, <2>1, PassPort DEF DevicesTypeInv, TableInv, Sorted, Numbers
  <1>6. CASE PortInit
    <2>1. /\ pc = "port" /\ portCount < MaxPorts
          /\ UNCHANGED <<portCount, drives, driveCount>>
          /\ (pc' = "identify" /\ u' = u) \/ NextPort
      BY <1>6 DEF PortInit, NotAhci, ideVars
    <2>2. /\ ports' = [ports EXCEPT ![portCount] = u]
          /\ portCount \in 0 .. MaxPorts - 1
      BY <1>0, <1>6, <2>1 DEF PortInit, DevicesTypeInv
    <2>3. /\ ports' \in [0 .. MaxPorts - 1 -> Int] /\ ports'[portCount] = u
          /\ Numbers' = Numbers /\ \A s \in Numbers : ports'[s] = ports[s]
      BY <1>0, <2>1, <2>2 DEF DevicesTypeInv, TableInv, Numbers
    <2>4. Sorted'
      BY <2>3 DEF Sorted, TableInv
    <2>5. PortStage
      BY <2>1 DEF PortStage
    <2>6. CASE NextPort
      BY <1>a, <2>1, <2>3, <2>4, <2>5, <2>6, PassPort DEF DevicesTypeInv, TableInv
    <2>7. CASE pc' = "identify" /\ u' = u
      <3>1. \A s \in Numbers' : ports'[s] < u'
        BY <2>3, <2>5, <2>7 DEF TableInv
      <3>2. driveCount' = 0
        BY <2>1, <2>5 DEF TableInv, BeforeDrives
      <3>3. ~InVblk' /\ pc' # "drive"
        BY <2>7 DEF InVblk
      <3> QED BY <2>1, <2>3, <2>4, <2>7, <3>1, <3>2, <3>3 DEF TableInv, Sorted
    <2> QED BY <2>1, <2>6, <2>7
  <1>7. CASE Identify
    BY <1>0, <1>7 DEF Identify, NotAhci, ideVars,
       DevicesTypeInv, TableInv, InVblk, AtPort, PortStage, BeforeDrives, Numbers
  <1>8. CASE PortGiveUp
    <2>1. PortStage /\ NextPort /\ UNCHANGED <<portCount, ports, drives, driveCount>>
      BY <1>8 DEF PortGiveUp, NotAhci, ideVars, PortStage, AtPort
    <2> QED BY <1>a, <2>1, PassPort DEF DevicesTypeInv, TableInv, Sorted, Numbers
  <1>9. CASE PortRegister
    <2>1. /\ pc = "name" /\ NextPort /\ UNCHANGED <<ports, drives, driveCount>>
          /\ portCount' = portCount \/ portCount' = portCount + 1
      BY <1>9 DEF PortRegister, NotAhci, ideVars, Counted
    <2>2. portCount < MaxPorts /\ ports[portCount] = u /\ PortStage
      BY <2>1 DEF TableInv, AtPort, PortStage
    <2>3. \A s \in Numbers' : s \in Numbers \/ s = portCount
      BY <2>1 DEF DevicesTypeInv, Numbers
    <2>4. \A s \in Numbers' : ports[s] <= u
      BY <1>a, <2>2, <2>3 DEF DevicesTypeInv
    <2>5. Sorted'
      <3> SUFFICES ASSUME NEW s \in Numbers', NEW t \in Numbers', s <= t
                   PROVE  ports[s] <= ports[t]
        BY <2>1 DEF Sorted
      <3>1. CASE t = portCount
        BY <2>2, <2>4, <3>1
      <3>2. CASE t # portCount
        <4>1. t \in Numbers /\ s \in Numbers
          BY <2>1, <2>3, <3>2 DEF Numbers, DevicesTypeInv
        <4> QED BY <4>1 DEF TableInv
      <3> QED BY <3>1, <3>2
    <2>6. portCount' \in Nat /\ portCount' <= MaxPorts
      BY <1>0, <2>1, <2>2 DEF DevicesTypeInv
    <2> QED BY <2>1, <2>2, <2>4, <2>5, <2>6, PassPort DEF TableInv
  <1>10. CASE BusMaster
    BY <1>0, <1>10 DEF BusMaster, NotIde,
       DevicesTypeInv, TableInv, InVblk, AtPort, PortStage, BeforeDrives, Numbers
  <1>11. CASE Prdt
    BY <1>0, <1>11 DEF Prdt, NotIde,
       DevicesTypeInv, TableInv, InVblk, AtPort, PortStage, BeforeDrives, Numbers
  <1>12. CASE Drive
    <2>1. /\ pc = "drive" /\ UNCHANGED <<portCount, ports>>
          /\ driveCount' = driveCount \/ driveCount' = driveCount + 1
          /\ drives' = drives \/ drives' = [drives EXCEPT ![driveCount] = u]
      BY <1>12 DEF Drive, NotIde
    <2>2. \/ pc' = "drive" /\ u' = u + 1 /\ u + 1 < Drives
          \/ pc' = "mount" /\ u' = 0
      BY <1>12 DEF Drive, Proceed
    <2>3. drives' \in [0 .. Drives - 1 -> Int]
      BY <2>1 DEF DevicesTypeInv, TableInv
    <2>4. driveCount' <= u + 1
      BY <2>1 DEF DevicesTypeInv, TableInv
    <2>5. ~InVblk' /\ ~AtPort' /\ ~PortStage' /\ ~BeforeDrives'
      BY <2>2 DEF InVblk, AtPort, PortStage, BeforeDrives
    <2>6. pc' = "drive" => u' < Drives /\ driveCount' <= u'
      BY <2>2, <2>4
    <2> QED BY <2>1, <2>3, <2>5, <2>6 DEF TableInv, Numbers
  <1>13. CASE Mount
    <2>1. pc' \in {"mount", "done"} /\ UNCHANGED <<ports, portCount, drives, driveCount>>
      BY <1>13 DEF Mount, Proceed, ideVars
    <2>2. ~InVblk' /\ ~AtPort' /\ ~PortStage' /\ ~BeforeDrives' /\ pc' # "drive"
      BY <2>1 DEF InVblk, AtPort, PortStage, BeforeDrives
    <2> QED BY <2>1, <2>2 DEF TableInv, Numbers
  <1>14. CASE UNCHANGED devicesVars
    BY <1>0, <1>14 DEF devicesVars, ideVars,
       DevicesTypeInv, TableInv, InVblk, AtPort, PortStage, BeforeDrives, Numbers
  <1> QED BY <1>1, <1>5, <1>6, <1>7, <1>8, <1>9, <1>10, <1>11, <1>12, <1>13, <1>14
          DEF DevicesNext

\* An entry stays right when the tables grow and what is counted in them stays.
LEMMA RightStays ==
  ASSUME NEW d, NEW ps, NEW n \in Nat, NEW ds, NEW m \in Nat, Right(d, ps, n, ds, m),
         NEW ps2, NEW n2 \in Nat, NEW ds2, NEW m2 \in Nat, n <= n2, m <= m2,
         \A s \in 0 .. n - 1 : ps2[s] = ps[s],
         \A s \in 0 .. m - 1 : ds2[s] = ds[s]
  PROVE  Right(d, ps2, n2, ds2, m2)
  <1>1. 0 .. n - 1 \subseteq 0 .. n2 - 1 /\ 0 .. m - 1 \subseteq 0 .. m2 - 1
    OBVIOUS
  <1> QED BY <1>1 DEF Right

\* So does the whole table, as long as nothing is registered.
LEMMA EntriesStay ==
  ASSUME DevicesTypeInv, EntryInv, UNCHANGED <<devs, portCount, driveCount>>,
         \A s \in 0 .. portCount - 1 : ports'[s] = ports[s],
         \A s \in 0 .. driveCount - 1 : drives'[s] = drives[s]
  PROVE  EntryInv'
  <1>1. ASSUME NEW i \in DOMAIN devs
        PROVE  Right(devs[i], ports', portCount, drives', driveCount)
    <2>1. Right(devs[i], ports, portCount, drives, driveCount)
      BY DEF EntryInv
    <2>2. portCount \in Nat /\ driveCount \in Nat
      BY DEF DevicesTypeInv
    <2> QED BY <2>1, <2>2, RightStays
  <1> QED BY <1>1 DEF EntryInv

\* A right entry may be added.
LEMMA EntryAdded ==
  ASSUME DevicesTypeInv, EntryInv, NEW d \in BlockDevice, devs' = Append(devs, d),
         portCount' \in Nat, driveCount' \in Nat,
         portCount <= portCount', driveCount <= driveCount',
         \A s \in 0 .. portCount - 1 : ports'[s] = ports[s],
         \A s \in 0 .. driveCount - 1 : drives'[s] = drives[s],
         Right(d, ports', portCount', drives', driveCount'),
         portCount' = portCount \/ portCount > 0 \/ d.name = <<"sd", 0>>
  PROVE  EntryInv'
  <1>1. /\ DOMAIN devs' = DOMAIN devs \cup {Len(devs) + 1}
        /\ \A i \in DOMAIN devs : devs'[i] = devs[i]
        /\ devs'[Len(devs) + 1] = d
    BY DEF DevicesTypeInv
  <1>2. ASSUME NEW i \in DOMAIN devs'
        PROVE  Right(devs'[i], ports', portCount', drives', driveCount')
    <2>1. CASE i \in DOMAIN devs
      <3>1. Right(devs[i], ports, portCount, drives, driveCount)
        BY <2>1 DEF EntryInv
      <3>2. portCount \in Nat /\ driveCount \in Nat
        BY DEF DevicesTypeInv
      <3>3. Right(devs[i], ports', portCount', drives', driveCount')
        BY <3>1, <3>2, RightStays
      <3> QED BY <1>1, <2>1, <3>3
    <2>2. CASE i = Len(devs) + 1
      BY <1>1, <2>2
    <2> QED BY <1>1, <2>1, <2>2
  <1>3. portCount' > 0 => \E i \in DOMAIN devs' : devs'[i].name = <<"sd", 0>>
    <2>1. CASE portCount > 0
      <3>1. PICK i \in DOMAIN devs : devs[i].name = <<"sd", 0>>
        BY <2>1 DEF EntryInv
      <3> QED BY <1>1, <3>1
    <2>2. CASE ~(portCount > 0)
      BY <1>1, <2>2
    <2> QED BY <2>1, <2>2
  <1> QED BY <1>2, <1>3 DEF EntryInv

LEMMA EntryStep ==
  DevicesTypeInv /\ VblkInv /\ TableInv /\ EntryInv /\ [DevicesNext]_devicesVars => EntryInv'
  <1> SUFFICES ASSUME DevicesTypeInv, VblkInv, TableInv, EntryInv, [DevicesNext]_devicesVars PROVE EntryInv'
    OBVIOUS
  <1>0. MaxPorts \in Nat /\ Drives \in Nat
    BY DevicesAssumption DEF Drives
  <1>a. portCount \in Nat /\ driveCount \in Nat /\ u \in Nat
    BY DEF DevicesTypeInv
  <1>1. CASE UNCHANGED <<devs, ports, portCount, drives, driveCount>>
    BY <1>1, EntriesStay
  <1>2. CASE VblkReady
    <2>1. CASE devs' = devs
      BY <1>1, <1>2, <2>1 DEF VblkReady, NotVblk, ideVars
    <2>2. CASE Register(<<"vd", 0>>, "vblk", 0)
      <3> DEFINE d == [name |-> <<"vd", 0>>, drv |-> "vblk", slot |-> 0,
                       unit |-> <<"vblk", u>>]
      <3>1. devs' = Append(devs, d)
        BY <2>2 DEF Register
      <3>2. d \in BlockDevice
        BY <1>a DEF BlockDevice, DeviceName, DeviceDriver
      <3>3. u = 0 /\ UNCHANGED <<ports, portCount, drives, driveCount>>
        BY <1>2 DEF VblkReady, VblkInv, InVblk, NotVblk, ideVars
      <3>4. Right(d, ports', portCount', drives', driveCount')
        BY <3>3 DEF Right
      <3> QED BY <1>a, <3>1, <3>2, <3>3, <3>4, EntryAdded
    <2> QED BY <1>2, <2>1, <2>2 DEF VblkReady
  <1>3. CASE PortInit
    <2>1. /\ portCount < MaxPorts /\ ports' = [ports EXCEPT ![portCount] = u]
          /\ UNCHANGED <<devs, portCount, drives, driveCount>>
      BY <1>3 DEF PortInit, NotAhci, ideVars
    <2>2. \A s \in 0 .. portCount - 1 : ports'[s] = ports[s]
      BY <1>0, <1>a, <2>1 DEF TableInv
    <2> QED BY <2>1, <2>2, EntriesStay
  <1>4. CASE PortRegister
    <2>1. CASE UNCHANGED <<devs, portCount>>
      BY <1>1, <1>4, <2>1 DEF PortRegister, NotAhci, ideVars
    <2>2. CASE Register(<<"sd", portCount>>, "ahci", portCount) /\ portCount' = Counted(portCount)
      <3> DEFINE d == [name |-> <<"sd", portCount>>, drv |-> "ahci", slot |-> portCount,
                       unit |-> <<"ahci", u>>]
      <3>1. devs' = Append(devs, d) /\ portCount' = portCount + 1
        BY <2>2 DEF Register, Counted
      <3>2. d \in BlockDevice
        BY <1>a DEF BlockDevice, DeviceName, DeviceDriver
      <3>3. ports[portCount] = u /\ UNCHANGED <<ports, drives, driveCount>>
        BY <1>4 DEF PortRegister, TableInv, AtPort, NotAhci, ideVars
      <3>4. portCount \in 0 .. portCount' - 1
        BY <1>a, <3>1
      <3>5. Right(d, ports', portCount', drives', driveCount')
        BY <3>3, <3>4 DEF Right
      <3>6. portCount > 0 \/ d.name = <<"sd", 0>>
        BY <1>a
      <3> HIDE DEF d
      <3> QED BY <1>a, <3>1, <3>2, <3>3, <3>5, <3>6, EntryAdded
    <2> QED BY <1>4, <2>1, <2>2 DEF PortRegister
  <1>5. CASE Drive
    <2>1. pc = "drive" /\ UNCHANGED <<ports, portCount>>
      BY <1>5 DEF Drive, NotIde
    <2>2. u < Drives /\ driveCount <= u
      BY <2>1 DEF TableInv
    <2>3. CASE UNCHANGED <<devs, drives, driveCount>>
      BY <1>1, <2>1, <2>3
    <2>4. CASE drives' = [drives EXCEPT ![driveCount] = u]
      <3>1. /\ \A s \in 0 .. driveCount - 1 : drives'[s] = drives[s]
            /\ drives'[driveCount] = u
        BY <1>0, <1>a, <2>2, <2>4 DEF TableInv
      <3>2. CASE UNCHANGED <<devs, driveCount>>
        BY <2>1, <3>1, <3>2, EntriesStay
      <3>3. CASE Register(<<"hd", u>>, "ide", driveCount) /\ driveCount' = driveCount + 1
        <4> DEFINE d == [name |-> <<"hd", u>>, drv |-> "ide", slot |-> driveCount,
                         unit |-> <<"ide", u>>]
        <4>1. devs' = Append(devs, d) /\ driveCount' = driveCount + 1
          BY <3>3 DEF Register
        <4>2. d \in BlockDevice
          BY <1>a DEF BlockDevice, DeviceName, DeviceDriver
        <4>3. driveCount \in 0 .. driveCount' - 1
          BY <1>a, <4>1
        <4>4. Right(d, ports', portCount', drives', driveCount')
          BY <3>1, <4>3 DEF Right
        <4> HIDE DEF d
        <4> QED BY <1>a, <2>1, <3>1, <4>1, <4>2, <4>4, EntryAdded
      <3> QED BY <1>5, <2>3, <3>2, <3>3 DEF Drive
    <2> QED BY <1>5, <2>3, <2>4 DEF Drive
  <1> QED
    BY <1>1, <1>2, <1>3, <1>4, <1>5 DEF DevicesNext, devicesVars, ideVars, VblkFind, VblkAlloc,
       VblkQueue, NotVblk, NoDrive, Identify, PortGiveUp, NotAhci, BusMaster, Prdt,
       NotIde, Mount

-----------------------------------------------------------------------------
(* Mounting                                                                *)

\* The disks each of the three names may lead to.
RootOrder == <<First("vblk"), First("ahci"), Registered \cap {<<"ide", 0>>}>>
Good(k) == RootOrder[k] \cap fat # {}

\* No name before the one in turn led to a disk with a file system.
MountInv ==
  /\ pc # "done" => root = NoUnit
  /\ pc = "mount" => u < 3 /\ \A k \in 1 .. u : ~Good(k)
  /\ pc = "done" =>
       \/ root = NoUnit /\ \A k \in 1 .. 3 : ~Good(k)
       \/ \E k \in 1 .. 3 : root \in RootOrder[k] /\ Good(k) /\ \A j \in 1 .. k - 1 : ~Good(j)

LEMMA FindNamed ==
  ASSUME DevicesTypeInv, NEW name, Named(name) # {}
  PROVE  \E i \in DOMAIN devs : Find(name) = devs[i] /\ devs[i].name = name
  <1>1. Named(name) \in SUBSET Nat
    BY DEF Named, DevicesTypeInv
  <1>2. \E m \in Named(name) : \A n \in Named(name) : m <= n
    BY <1>1, LeastNat
  <1>3. Min(Named(name)) \in Named(name)
    BY <1>2 DEF Min
  <1> QED BY <1>3 DEF Find, Named

\* A name leads to the disk it is meant for, and to none when there is none.
LEMMA VirtioName ==
  ASSUME NameInv
  PROVE  IF Named(<<"vd", 0>>) = {} THEN First("vblk") = {}
         ELSE First("vblk") = {UnitOf(Find(<<"vd", 0>>))}
  <1>1. \A i \in DOMAIN devs : Right(devs[i], ports, portCount, drives, driveCount)
    BY DEF NameInv, EntryInv
  <1>2. ASSUME NEW x \in Registered, x[1] = "vblk" PROVE x = <<"vblk", 0>>
    <2>1. PICK i \in DOMAIN devs : x = devs[i].unit
      BY DEF Registered
    <2>2. Right(devs[i], ports, portCount, drives, driveCount)
      BY <1>1
    <2> QED BY <1>2, <2>1, <2>2 DEF Right
  <1>3. CASE Named(<<"vd", 0>>) = {}
    <2>1. \A i \in DOMAIN devs : devs[i].unit[1] # "vblk"
      BY <1>1, <1>3 DEF Named, Right
    <2> QED BY <1>3, <2>1 DEF First, Registered
  <1>4. CASE Named(<<"vd", 0>>) # {}
    <2>1. PICK i \in DOMAIN devs : Find(<<"vd", 0>>) = devs[i] /\ devs[i].name = <<"vd", 0>>
      BY <1>4, FindNamed DEF NameInv
    <2>2. devs[i].drv = "vblk" /\ devs[i].unit = <<"vblk", 0>>
      BY <1>1, <2>1 DEF Right
    <2>3. UnitOf(Find(<<"vd", 0>>)) = <<"vblk", 0>>
      BY <2>1, <2>2 DEF UnitOf
    <2>4. <<"vblk", 0>> \in Registered
      BY <2>2 DEF Registered
    <2>5. First("vblk") = {<<"vblk", 0>>}
      BY <1>2, <2>4 DEF First
    <2> QED BY <1>4, <2>3, <2>5
  <1> QED BY <1>3, <1>4

LEMMA AhciName ==
  ASSUME NameInv
  PROVE  IF Named(<<"sd", 0>>) = {} THEN First("ahci") = {}
         ELSE First("ahci") = {UnitOf(Find(<<"sd", 0>>))}
  <1>1. \A i \in DOMAIN devs : Right(devs[i], ports, portCount, drives, driveCount)
    BY DEF NameInv, EntryInv
  <1>2. ASSUME NEW x \in Registered, x[1] = "ahci"
        PROVE  \E s \in 0 .. portCount - 1 : x = <<"ahci", ports[s]>>
    <2>1. PICK i \in DOMAIN devs : x = devs[i].unit
      BY DEF Registered
    <2>2. Right(devs[i], ports, portCount, drives, driveCount)
      BY <1>1
    <2>3. devs[i].slot \in 0 .. portCount - 1 /\ x = <<"ahci", ports[devs[i].slot]>>
      BY <1>2, <2>1, <2>2 DEF Right
    <2> QED BY <2>3
  <1>3. CASE Named(<<"sd", 0>>) = {}
    <2>1. portCount \in Nat /\ ~(portCount > 0)
      BY <1>3 DEF Named, NameInv, EntryInv, DevicesTypeInv
    <2>2. 0 .. portCount - 1 = {}
      BY <2>1
    <2> QED BY <1>2, <1>3, <2>2 DEF First
  <1>4. CASE Named(<<"sd", 0>>) # {}
    <2>1. PICK i \in DOMAIN devs : Find(<<"sd", 0>>) = devs[i] /\ devs[i].name = <<"sd", 0>>
      BY <1>4, FindNamed DEF NameInv
    <2>2. /\ devs[i].drv = "ahci" /\ devs[i].slot = 0 /\ devs[i].unit = <<"ahci", ports[0]>>
          /\ 0 \in 0 .. portCount - 1
      BY <1>1, <2>1 DEF Right
    <2>3. UnitOf(Find(<<"sd", 0>>)) = <<"ahci", ports[0]>>
      BY <2>1, <2>2 DEF UnitOf
    <2>4. <<"ahci", ports[0]>> \in Registered
      BY <2>2 DEF Registered
    <2>5. \A s \in 0 .. portCount - 1 : ports[0] <= ports[s]
      BY <2>2 DEF NameInv, TableInv, Numbers
    <2>6. \A s \in 0 .. portCount - 1 : ports[s] \in Int
      <3>1. MaxPorts \in Nat /\ portCount \in Nat /\ portCount <= MaxPorts
        BY DevicesAssumption DEF NameInv, DevicesTypeInv, TableInv
      <3>2. 0 .. portCount - 1 \subseteq 0 .. MaxPorts - 1
        BY <3>1
      <3> QED BY <3>2 DEF NameInv, TableInv
    <2>7. <<"ahci", ports[0]>> \in First("ahci")
      BY <1>2, <2>4, <2>5 DEF First
    <2>8. ASSUME NEW x \in First("ahci") PROVE x = <<"ahci", ports[0]>>
      <3>1. x \in Registered /\ x[1] = "ahci" /\ x[2] <= ports[0]
        BY <2>4 DEF First
      <3>2. PICK s \in 0 .. portCount - 1 : x = <<"ahci", ports[s]>>
        BY <1>2, <3>1
      <3>3. ports[s] <= ports[0] /\ ports[0] <= ports[s] /\ ports[s] \in Int /\ ports[0] \in Int
        BY <2>2, <2>5, <2>6, <3>1, <3>2
      <3> QED BY <3>2, <3>3
    <2> QED BY <1>4, <2>3, <2>7, <2>8
  <1> QED BY <1>3, <1>4

LEMMA IdeName ==
  ASSUME NameInv
  PROVE  IF Named(<<"hd", 0>>) = {} THEN Registered \cap {<<"ide", 0>>} = {}
         ELSE Registered \cap {<<"ide", 0>>} = {UnitOf(Find(<<"hd", 0>>))}
  <1>1. \A i \in DOMAIN devs : Right(devs[i], ports, portCount, drives, driveCount)
    BY DEF NameInv, EntryInv
  <1>2. CASE Named(<<"hd", 0>>) = {}
    <2>1. ASSUME NEW i \in DOMAIN devs, devs[i].unit = <<"ide", 0>> PROVE FALSE
      <3>1. devs[i].name = <<"hd", 0>>
        BY <1>1, <2>1 DEF Right
      <3> QED BY <1>2, <3>1 DEF Named
    <2> QED BY <1>2, <2>1 DEF Registered
  <1>3. CASE Named(<<"hd", 0>>) # {}
    <2>1. PICK i \in DOMAIN devs : Find(<<"hd", 0>>) = devs[i] /\ devs[i].name = <<"hd", 0>>
      BY <1>3, FindNamed DEF NameInv
    <2>2. /\ devs[i].drv = "ide" /\ drives[devs[i].slot] = 0
          /\ devs[i].unit = <<"ide", 0>>
      BY <1>1, <2>1 DEF Right
    <2>3. UnitOf(Find(<<"hd", 0>>)) = <<"ide", 0>>
      BY <2>1, <2>2 DEF UnitOf
    <2>4. <<"ide", 0>> \in Registered
      BY <2>2 DEF Registered
    <2> QED BY <1>3, <2>3, <2>4
  <1> QED BY <1>2, <1>3

\* The name in turn, for each turn.
LEMMA NameRight ==
  ASSUME NameInv, NEW k \in 1 .. 3
  PROVE  IF Named(RootDevs[k]) = {} THEN RootOrder[k] = {}
         ELSE RootOrder[k] = {UnitOf(Find(RootDevs[k]))}
  <1>1. CASE k = 1
    BY <1>1, VirtioName DEF RootDevs, RootOrder
  <1>2. CASE k = 2
    BY <1>2, AhciName DEF RootDevs, RootOrder
  <1>3. CASE k = 3
    BY <1>3, IdeName DEF RootDevs, RootOrder
  <1> QED BY <1>1, <1>2, <1>3

LEMMA MountInit == DevicesInit => MountInv
  BY DEF DevicesInit, MountInv

LEMMA MountStep == NameInv /\ MountInv /\ [DevicesNext]_devicesVars => MountInv'
  <1> SUFFICES ASSUME NameInv, MountInv, [DevicesNext]_devicesVars PROVE MountInv'
    OBVIOUS
  <1>0. u \in Nat
    BY DEF NameInv, DevicesTypeInv
  <1>1. CASE Mount
    <2> DEFINE name == RootDevs[u + 1]
    <2>1. /\ pc = "mount" /\ u \in 0 .. 2 /\ root = NoUnit /\ \A k \in 1 .. u : ~Good(k)
          /\ u + 1 \in 1 .. 3
      BY <1>0, <1>1 DEF Mount, MountInv
    <2>2. UNCHANGED <<devs, fat, portCount, ports, drives, driveCount>>
      BY <1>1 DEF Mount, Machine, ideVars
    <2>3. RootOrder' = RootOrder /\ \A k : Good(k)' <=> Good(k)
      BY <2>2 DEF RootOrder, Good, First, Registered
    <2>4. IF Named(name) = {} THEN RootOrder[u + 1] = {}
          ELSE RootOrder[u + 1] = {UnitOf(Find(name))}
      BY <2>1, NameRight
    <2>5. CASE Named(name) # {} /\ UnitOf(Find(name)) \in fat
      <3>1. root' = UnitOf(Find(name)) /\ pc' = "done"
        BY <1>1, <2>5 DEF Mount
      <3>2. root' \in RootOrder[u + 1] /\ Good(u + 1)
        BY <2>4, <2>5, <3>1 DEF Good
      <3>3. \A j \in 1 .. (u + 1) - 1 : ~Good(j)
        BY <1>0, <2>1
      <3> QED BY <2>1, <2>3, <3>1, <3>2, <3>3 DEF MountInv
    <2>6. CASE ~(Named(name) # {} /\ UnitOf(Find(name)) \in fat)
      <3>1. root' = NoUnit /\ Proceed("mount", 3, "done")
        BY <1>1, <2>1, <2>6 DEF Mount, RootDevs
      <3>2. ~Good(u + 1)
        BY <2>4, <2>6 DEF Good
      <3>3. \A k \in 1 .. u + 1 : ~Good(k)
        BY <1>0, <2>1, <3>2
      <3>4. CASE u + 1 < 3
        BY <2>3, <3>1, <3>3, <3>4 DEF MountInv, Proceed
      <3>5. CASE u = 2
        BY <2>3, <3>1, <3>3, <3>5 DEF MountInv, Proceed
      <3> QED BY <2>1, <3>4, <3>5
    <2> QED BY <2>5, <2>6
  <1>2. CASE Drive
    <2>1. /\ pc = "drive" /\ root' = root
          /\ pc' = "drive" \/ (pc' = "mount" /\ u' = 0)
      BY <1>2 DEF Drive, Proceed, NotIde
    <2> QED BY <2>1 DEF MountInv
  <1>3. CASE VblkFind \/ VblkAlloc \/ VblkQueue \/ VblkReady
    BY <1>3 DEF VblkFind, VblkAlloc, VblkQueue, VblkReady, Vblk, NotVblk, MountInv
  <1>4. CASE NoDrive \/ PortInit \/ Identify \/ PortGiveUp \/ PortRegister
    <2>1. pc \notin {"mount", "done"} /\ pc' \notin {"mount", "done"} /\ root' = root
      BY <1>4 DEF NoDrive, PortInit, Identify, PortGiveUp, PortRegister, NextPort, Proceed,
         NotAhci
    <2> QED BY <2>1 DEF MountInv
  <1>5. CASE BusMaster \/ Prdt
    BY <1>5 DEF BusMaster, Prdt, NotIde, MountInv
  <1>6. CASE UNCHANGED devicesVars
    <2>1. UNCHANGED <<pc, u, root, devs, fat>>
      BY <1>6 DEF devicesVars
    <2>2. RootOrder' = RootOrder /\ \A k : Good(k)' <=> Good(k)
      BY <2>1 DEF RootOrder, Good, First, Registered
    <2> QED BY <2>1, <2>2 DEF MountInv
  <1> QED BY <1>1, <1>2, <1>3, <1>4, <1>5, <1>6 DEF DevicesNext

LEMMA SpecName == DevicesSpec => [](NameInv /\ MountInv)
  <1>1. DevicesInit => NameInv /\ MountInv
    BY NameInit, MountInit
  <1>2. NameInv /\ MountInv /\ [DevicesNext]_devicesVars => (NameInv /\ MountInv)'
    BY DevicesTypeStep, VblkStep, TableStep, EntryStep, MountStep DEF NameInv
  <1> QED BY <1>1, <1>2, PTL DEF DevicesSpec

-----------------------------------------------------------------------------
(* Theorems                                                                *)

\* A probe that fails leaves no memory behind, for any number of ports and any
\* size of the table of block devices.
THEOREM ProbesCleanUp == DevicesSpec => []HeldByDevices
  <1>1. DevicesInv => HeldByDevices
    BY DEF DevicesInv, HeldInv, HeldByDevices, InVblk, AtPort
  <1> QED BY DevicesSpecInv, <1>1, PTL

\* The hardware writes to no memory that was freed, but by a port that did not
\* stop when it was told to, or a virtio-blk device that read another address
\* of its queue back.
THEOREM FreedMemoryIsQuiet == DevicesSpec => []NoStrayDma
  <1>1. DevicesInv => NoStrayDma
    BY DEF DevicesInv, DmaInv, NoStrayDma
  <1> QED BY DevicesSpecInv, <1>1, PTL

\* Whichever probes fail, the root is mounted from the first of the three names
\* that leads to a disk with a file system, and each name leads to the disk it
\* was registered for.
THEOREM RootIsRight == DevicesSpec => []RootRight
  <1>1. NameInv /\ MountInv => RootRight
    <2> SUFFICES ASSUME MountInv, pc = "done"
                 PROVE  LET good == {i \in DOMAIN RootOrder : RootOrder[i] \cap fat # {}}
                        IN root \in IF good = {} THEN {NoUnit} ELSE RootOrder[Min(good)]
      BY DEF RootRight, RootOrder
    <2> DEFINE good == {i \in DOMAIN RootOrder : RootOrder[i] \cap fat # {}}
    <2>1. good = {i \in 1 .. 3 : Good(i)}
      BY DEF RootOrder, Good
    <2> HIDE DEF good
    <2>2. CASE root = NoUnit /\ \A k \in 1 .. 3 : ~Good(k)
      BY <2>1, <2>2 DEF good
    <2>3. ASSUME NEW k \in 1 .. 3, root \in RootOrder[k], Good(k), \A j \in 1 .. k - 1 : ~Good(j)
          PROVE  root \in IF good = {} THEN {NoUnit} ELSE RootOrder[Min(good)]
      <3>1. k \in good /\ \A j \in good : k <= j
        BY <2>1, <2>3
      <3>2. \A m \in good : (\A j \in good : m <= j) => m = k
        BY <2>1, <3>1
      <3>3. Min(good) = k
        BY <3>1, <3>2 DEF Min
      <3> QED BY <2>3, <3>1, <3>3
    <2> QED BY <2>2, <2>3 DEF MountInv, good
  <1> QED BY SpecName, <1>1, PTL
=============================================================================
