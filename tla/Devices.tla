------------------------------- MODULE Devices -------------------------------
(***************************************************************************)
(* The boot thread looks for disks and mounts the root: virtio_blk_init    *)
(* (VFS.c), ahci_init (AHCI.c), ide_init (IDE.c), then vfs_mount, in the   *)
(* order of main.c.  An allocation may fail, a device may refuse, report   *)
(* an error or not answer, an AHCI port may not stop when told to.         *)
(*                                                                         *)
(* A piece of memory is known by its purpose.  Registers, PCI scans and    *)
(* what a disk says of itself are left out; one AHCI controller.           *)
(***************************************************************************)
EXTENDS Integers, Sequences, FiniteSetsExt

CONSTANTS
  Ports,    \* ports of the AHCI controller are 0 .. Ports - 1
  Channels, \* channels of IDE, two drives at each
  MaxPorts, \* AHCI_MAX_DRIVES
  MaxDevs   \* VFS_MAX_BLKDEVS

ASSUME DevicesAssumption ==
  {Ports, Channels, MaxPorts, MaxDevs} \subseteq Nat \ {0}

Drives == 2 * Channels
Units == {<<"vblk", 0>>} \cup {<<"ahci", p>> : p \in 0 .. Ports - 1}
                         \cup {<<"ide", d>> : d \in 0 .. Drives - 1}

VARIABLES
  present, \* where there is a disk
  fat,     \* which of them can be mounted: FAT, and memory for it
  pc, u,   \* where the boot thread is, and the unit it is at
  held,    \* the memory that is allocated for the drivers
  dma,     \* the memory the hardware has been told to use
  devs,    \* g_blkdevs
  ports,   \* g_ports: the port each entry is about
  portCount, \* g_port_count
  drives, driveCount, \* g_drives and g_drive_count
  bm,      \* the channels of IDE with a bus master
  root,    \* the disk mounted as /
  unstopped, \* history: ports that did not stop
  refused  \* history: virtio-blk failed after it knew its queue

ideVars == <<drives, driveCount, bm>>
devicesVars == <<present, fat, pc, u, held, dma, devs, ports, portCount, ideVars,
          root, unstopped, refused>>

NoEntry == -1
NoUnit == <<"none", 0>>

DevicesInit ==
  /\ present \in SUBSET Units /\ fat \in SUBSET present
  /\ pc = "find" /\ u = 0
  /\ held = {} /\ dma = {} /\ devs = <<>>
  /\ ports = [s \in 0 .. MaxPorts - 1 |-> NoEntry] /\ portCount = 0
  /\ drives = [s \in 0 .. Drives - 1 |-> NoEntry] /\ driveCount = 0 /\ bm = {}
  /\ root = NoUnit /\ unstopped = {} /\ refused = FALSE

Machine == UNCHANGED <<present, fat>>

\* The loop goes on with the next unit, or what follows it begins.
Proceed(again, count, then) ==
  IF u + 1 < count THEN pc' = again /\ u' = u + 1 ELSE pc' = then /\ u' = 0

-----------------------------------------------------------------------------
(* The block devices                                                       *)

TableFull == Len(devs) >= MaxDevs

\* blkdev_register.  unit is history: the disk that was meant.
Register(name, drv, slot) ==
  devs' = Append(devs, [name |-> name, drv |-> drv, slot |-> slot, unit |-> <<drv, u>>])

\* blkdev_find: the first device of the name.
Named(name) == {i \in DOMAIN devs : devs[i].name = name}
Find(name) == devs[Min(Named(name))]

\* An entry points into the driver's table, and to what is there now.
UnitOf(d) ==
  <<d.drv, CASE d.drv = "ahci" -> ports[d.slot]
             [] d.drv = "ide"  -> drives[d.slot]
             [] OTHER -> 0>>

-----------------------------------------------------------------------------
(* virtio_blk_init                                                         *)

Vblk == pc' = "port" /\ u' = 0
NotVblk == Machine /\ UNCHANGED <<ports, portCount, ideVars, root, unstopped>>

\* No device, or one with a queue the driver cannot use.
VblkFind ==
  /\ pc = "find"
  /\ \/ Vblk
     \/ <<"vblk", 0>> \in present /\ pc' = "vq" /\ u' = u
  /\ NotVblk /\ UNCHANGED <<held, dma, devs, refused>>

\* Mutant of GivenUp: the queue's pages stay when the request's are not there.
GivenUpRequest(h) == h \ {<<"req", 0>>}

\* What the error paths before the device is running free.
GivenUp(h) == h \ {<<"vq", 0>>, <<"req", 0>>}

\* The queue, the request buffer and the driver's data, in this order.
VblkAlloc ==
  /\ pc \in {"vq", "req", "priv"}
  /\ \/ Vblk /\ held' = GivenUp(held)
     \/ /\ held' = held \cup {<<pc, 0>>} /\ u' = u
        /\ pc' = CASE pc = "vq" -> "req" [] pc = "req" -> "priv" [] OTHER -> "queue"
  /\ NotVblk /\ UNCHANGED <<dma, devs, refused>>

\* The device is told its queue; when it reads back another address the queue
\* is freed, the driver's data are not, and the device, which is not reset, may
\* know of the queue all the same.
VblkQueue ==
  /\ pc = "queue"
  /\ \/ Vblk /\ held' = GivenUp(held) /\ refused' = TRUE
        /\ dma' \in {dma, dma \cup {<<"vq", 0>>}}
     \/ /\ pc' = "ready" /\ u' = u /\ UNCHANGED <<held, refused>>
        /\ dma' = dma \cup {<<"vq", 0>>, <<"req", 0>>}
  /\ NotVblk /\ UNCHANGED devs

\* DRIVER_OK, which the device may answer with FAILED; then the device is
\* registered, unless there is no memory or no room.  Nothing is freed.
VblkReady ==
  /\ pc = "ready" /\ Vblk
  /\ \/ refused' = TRUE /\ devs' = devs
     \/ ~TableFull /\ Register(<<"vd", 0>>, "vblk", 0) /\ refused' = refused
  /\ NotVblk /\ UNCHANGED <<held, dma>>

-----------------------------------------------------------------------------
(* ahci_init_hba and ahci_probe_port                                       *)

NotAhci == Machine /\ UNCHANGED <<ideVars, root, refused>>
NextPort == Proceed("port", Ports, "master")

\* A port without a disk, or with none the driver takes, is passed over.
NoDrive ==
  /\ pc = "port" /\ (<<"ahci", u>> \notin present \/ portCount >= MaxPorts)
  /\ NextPort
  /\ NotAhci /\ UNCHANGED <<held, dma, devs, ports, portCount, unstopped>>

\* The port gets its page and is started.
PortInit ==
  /\ pc = "port" /\ <<"ahci", u>> \in present /\ portCount < MaxPorts
  /\ ports' = [ports EXCEPT ![portCount] = u]
  /\ \/ NextPort /\ UNCHANGED <<held, dma>>
     \/ /\ pc' = "identify" /\ u' = u
        /\ held' = held \cup {<<"port", u>>} /\ dma' = dma \cup {<<"port", u>>}
  /\ NotAhci /\ UNCHANGED <<devs, portCount, unstopped>>

\* IDENTIFY into a page of its own, which is freed again in any case: without
\* memory or after an error it has failed, after too long it is still under way.
Identify ==
  /\ pc = "identify" /\ u' = u
  /\ \/ pc' = "name" /\ dma' = dma
     \/ pc' = "giveup" /\ dma' \in {dma, dma \cup {<<"identify", u>>}}
  /\ NotAhci /\ UNCHANGED <<held, devs, ports, portCount, unstopped>>

\* Mutant of Stopped: the page is freed while the port runs.
StoppedNot(d) == d

\* A port that has stopped uses no memory.
Stopped(d) == d \ {<<"port", u>>, <<"identify", u>>}

\* After a failed IDENTIFY the port is stopped and its page freed, whether it
\* has stopped or not.
PortGiveUp ==
  /\ pc = "giveup" /\ NextPort
  /\ \/ dma' = Stopped(dma) /\ unstopped' = unstopped
     \/ dma' = dma /\ unstopped' = unstopped \cup {u}
  /\ held' = held \ {<<"port", u>>}
  /\ NotAhci /\ UNCHANGED <<devs, ports, portCount>>

\* Mutant of Counted: the entry of g_ports is used again.
CountedNot(n) == n

Counted(n) == n + 1

\* The disk is named after the number of those before it, and registered.
\* When there is no room the port goes on running.
PortRegister ==
  /\ pc = "name" /\ NextPort
  /\ IF TableFull THEN UNCHANGED <<devs, portCount>>
     ELSE Register(<<"sd", portCount>>, "ahci", portCount) /\ portCount' = Counted(portCount)
  /\ NotAhci /\ UNCHANGED <<held, dma, ports, unstopped>>

-----------------------------------------------------------------------------
(* ide_init and ide_probe_drive                                            *)

NotIde == Machine /\ UNCHANGED <<dma, ports, portCount, root, unstopped, refused>>

\* ide_find_pci_bm_base
BusMaster ==
  /\ pc = "master" /\ pc' = "prdt" /\ u' = 0
  /\ bm' \in {{}, 0 .. Channels - 1}
  /\ NotIde /\ UNCHANGED <<held, devs, drives, driveCount>>

\* A page for the descriptors of each channel; a channel that gets none, or one
\* above 4 GB, has no bus master.
Prdt ==
  /\ pc = "prdt" /\ pc' = "drive" /\ u' = 0
  /\ \E given \in SUBSET (0 .. Channels - 1) :
       /\ held' = held \cup {<<"prdt", c>> : c \in given}
       /\ bm' = bm \cap given
  /\ NotIde /\ UNCHANGED <<devs, drives, driveCount>>

\* A drive that answers IDENTIFY is named after its place and registered.
Drive ==
  /\ pc = "drive" /\ Proceed("drive", Drives, "mount")
  /\ \/ UNCHANGED <<devs, drives, driveCount>>
     \/ /\ <<"ide", u>> \in present
        /\ drives' = [drives EXCEPT ![driveCount] = u]
        /\ IF TableFull THEN UNCHANGED <<devs, driveCount>>
           ELSE Register(<<"hd", u>>, "ide", driveCount) /\ driveCount' = driveCount + 1
  /\ NotIde /\ UNCHANGED <<held, bm>>

-----------------------------------------------------------------------------
(* Mounting the root                                                       *)

RootDevs == << <<"vd", 0>>, <<"sd", 0>>, <<"hd", 0>> >>

\* The first of the three names that is there and can be mounted.
Mount ==
  LET name == RootDevs[u + 1]
  IN /\ pc = "mount"
     /\ IF Named(name) # {} /\ UnitOf(Find(name)) \in fat
          THEN root' = UnitOf(Find(name)) /\ pc' = "done" /\ u' = 0
          ELSE root' = root /\ Proceed("mount", Len(RootDevs), "done")
     /\ Machine
     /\ UNCHANGED <<held, dma, devs, ports, portCount, ideVars, unstopped, refused>>

DevicesNext ==
  \/ VblkFind \/ VblkAlloc \/ VblkQueue \/ VblkReady
  \/ NoDrive \/ PortInit \/ Identify \/ PortGiveUp \/ PortRegister
  \/ BusMaster \/ Prdt \/ Drive \/ Mount

DevicesSpec == DevicesInit /\ [][DevicesNext]_devicesVars

-----------------------------------------------------------------------------
(* Properties                                                              *)

Registered == {devs[i].unit : i \in DOMAIN devs}
First(drv) == {x \in Registered : x[1] = drv /\ \A y \in Registered : y[1] = drv => x[2] <= y[2]}

\* The root is on the disk it is meant to be on, whichever probes have failed
\* before or after it: the virtio disk, else the first AHCI disk that answers,
\* else the first drive of IDE, as far as each holds a file system.  A name
\* leads to the disk that was registered, not to one probed later.
RootRight ==
  pc = "done" =>
    LET order == <<First("vblk"), First("ahci"), Registered \cap {<<"ide", 0>>}>>
        good == {i \in DOMAIN order : order[i] \cap fat # {}}
    IN root \in IF good = {} THEN {NoUnit} ELSE order[Min(good)]

\* Memory of a driver belongs to a registered disk, or to a channel of IDE; a
\* probe that fails leaves nothing behind, but where the table of block devices
\* is full or virtio-blk fails after it has been told its queue.
HeldByDevices ==
  pc \in {"port", "master", "done"} => \A k \in held :
    \/ k[1] = "prdt"
    \/ k[1] = "port" /\ (<<"ahci", k[2]>> \in Registered \/ TableFull)
    \/ k[1] \in {"vq", "req", "priv"} /\ (<<"vblk", 0>> \in Registered \/ refused)

\* Between probes the hardware uses no memory that has been freed: a port that
\* fails is stopped before its page goes, and only one that does not stop, and
\* is not asked again, goes on writing; excepted too is the queue of a virtio-blk
\* device that has read another address back.
NoStrayDma ==
  pc \in {"port", "master", "done"} => \A k \in dma \ held :
    k[2] \in unstopped \/ (refused /\ k = <<"vq", 0>>)
=============================================================================
